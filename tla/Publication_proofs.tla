------------------------- MODULE Publication_proofs -------------------------
(***************************************************************************)
(* Proofs about Publication, for every number of commits of others, agent  *)
(* sessions, repairs and restarts: the journal never lags behind GitHub,   *)
(* an uninterrupted execution pushes only what the gates accepted, and no  *)
(* pull request is opened twice.  Histories stay opaque here: the argument *)
(* is about the order in which they are recorded, validated and pushed.    *)
(***************************************************************************)
EXTENDS Publication, FiniteSetTheorems, WellFoundedInduction, TLAPS

-----------------------------------------------------------------------------
\* The steps of publish_commit at which the commit stands.
Publishing == {"reconcile", "observe", "base", "push", "pushing", "confirm"}

\* A reconciled commit is being validated.
Validating == pc \in {"session", "gates", "commit"} /\ stage \in {"reconcile", "base"}

\* Every commit that publish_commit works on has been recorded before.
CommitIsRecorded == pc \in Publishing \/ Validating => journalCommit = commit

\* The local branch is at the commit, from the base rebase to the push, and
\* wherever a new commit is made.
HeadIsCommit ==
    /\ pc \in {"push", "pushing", "confirm", "accept", "record"} \/ Validating
          => head = commit
    /\ pc = "accept" => stage \in {"reconcile", "base"}
    /\ pc = "base" => stage = "base"
    /\ stage \in Stages

Recorded == CommitIsRecorded /\ HeadIsCommit

\* The initial state has nothing to publish.
LEMMA InitRecorded == Init => Recorded
  BY DEF Init, Recorded, CommitIsRecorded, HeadIsCommit, Publishing, Validating,
         Stages

\* Recording comes before every use of a commit, on each path to a push.
LEMMA NextRecorded == Recorded /\ [Next]_vars => Recorded'
<1> SUFFICES ASSUME Recorded, [Next]_vars PROVE Recorded'
  OBVIOUS
<1> QED
  <2>1. CASE BaseAdvances
    BY <2>1 DEF BaseAdvances, journal, loop, Recorded, CommitIsRecorded,
        HeadIsCommit, Publishing, Validating, Stages
  <2>2. CASE ForeignPush
    BY <2>2 DEF ForeignPush, journal, loop, Recorded, CommitIsRecorded,
        HeadIsCommit, Publishing, Validating, Stages
  <2>3. CASE Stop
    BY <2>3 DEF Stop, Active, journal, loop, Recorded, CommitIsRecorded,
        HeadIsCommit, Publishing, Validating, Stages
  <2>4. CASE Resume
    BY <2>4 DEF Resume, journal, loop, Recorded, CommitIsRecorded,
        HeadIsCommit, Publishing, Validating, Stages
  <2>5. CASE Checkout
    BY <2>5 DEF Checkout, journal, Recorded, CommitIsRecorded, HeadIsCommit,
        Publishing, Validating, Stages
  <2>6. CASE Session
    BY <2>6 DEF Session, journal, loop, Recorded, CommitIsRecorded,
        HeadIsCommit, Publishing, Validating, Stages
  <2>7. CASE GatesFail
    BY <2>7 DEF GatesFail, journal, loop, Recorded, CommitIsRecorded,
        HeadIsCommit, Publishing, Validating, Stages
  <2>8. CASE GatesPass
    BY <2>8 DEF GatesPass, AfterValidation, journal, loop, Recorded,
        CommitIsRecorded, HeadIsCommit, Publishing, Validating, Stages
  <2>9. CASE CommitPaths
    BY <2>9 DEF CommitPaths, journal, loop, Recorded, CommitIsRecorded,
        HeadIsCommit, Publishing, Validating, Stages
  <2>10. CASE RecordCommit
    BY <2>10 DEF RecordCommit, AfterValidation, Recorded, CommitIsRecorded,
        HeadIsCommit, Publishing, Validating, Stages
  <2>11. CASE ReconcileUnchanged
    BY <2>11 DEF ReconcileUnchanged, journal, loop, Recorded, CommitIsRecorded,
        HeadIsCommit, Publishing, Validating, Stages
  <2>12. CASE ReconcileRewrites
    BY <2>12 DEF ReconcileRewrites, journal, loop, Recorded, CommitIsRecorded,
        HeadIsCommit, Publishing, Validating, Stages
  <2>13. CASE AcceptReconciled
    BY <2>13 DEF AcceptReconciled, loop, Recorded, CommitIsRecorded,
        HeadIsCommit, Publishing, Validating, Stages
  <2>14. CASE ObserveBranch
    BY <2>14 DEF ObserveBranch, journal, loop, Recorded, CommitIsRecorded,
        HeadIsCommit, Publishing, Validating, Stages
  <2>15. CASE BaseUnchanged
    BY <2>15 DEF BaseUnchanged, journal, loop, Recorded, CommitIsRecorded,
        HeadIsCommit, Publishing, Validating, Stages
  <2>16. CASE BaseRebases
    BY <2>16 DEF BaseRebases, journal, loop, Recorded, CommitIsRecorded,
        HeadIsCommit, Publishing, Validating, Stages
  <2>17. CASE PushBegin
    BY <2>17 DEF PushBegin, Published, Moved, journal, Recorded,
        CommitIsRecorded, HeadIsCommit, Publishing, Validating, Stages
  <2>18. CASE PushAccepted
    BY <2>18 DEF PushAccepted, journal, loop, Recorded, CommitIsRecorded,
        HeadIsCommit, Publishing, Validating, Stages
  <2>19. CASE PushRefused
    BY <2>19 DEF PushRefused, Moved, journal, Recorded, CommitIsRecorded,
        HeadIsCommit, Publishing, Validating, Stages
  <2>20. CASE PushConfirm
    BY <2>20 DEF PushConfirm, Published, Moved, journal, Recorded,
        CommitIsRecorded, HeadIsCommit, Publishing, Validating, Stages
  <2>21. CASE FindPullRequest
    BY <2>21 DEF FindPullRequest, journal, loop, Recorded, CommitIsRecorded,
        HeadIsCommit, Publishing, Validating, Stages
  <2>22. CASE CreatePullRequest
    BY <2>22 DEF CreatePullRequest, journal, loop, Recorded, CommitIsRecorded,
        HeadIsCommit, Publishing, Validating, Stages
  <2>23. CASE RecordPullRequest
    BY <2>23 DEF RecordPullRequest, loop, Recorded, CommitIsRecorded,
        HeadIsCommit, Publishing, Validating, Stages
  <2>24. CASE WorkflowsPass
    BY <2>24 DEF WorkflowsPass, journal, loop, Recorded, CommitIsRecorded,
        HeadIsCommit, Publishing, Validating, Stages
  <2>25. CASE WorkflowsFail
    BY <2>25 DEF WorkflowsFail, journal, Recorded, CommitIsRecorded,
        HeadIsCommit, Publishing, Validating, Stages
  <2>26. CASE AttachPullRequest
    BY <2>26 DEF AttachPullRequest, journal, loop, Recorded, CommitIsRecorded,
        HeadIsCommit, Publishing, Validating, Stages
  <2>27. CASE UNCHANGED vars
    BY <2>27 DEF vars, journal, loop, Recorded, CommitIsRecorded, HeadIsCommit,
        Publishing, Validating, Stages
  <2>28. CASE Hang
    BY <2>28 DEF Hang, journal, loop, Recorded, CommitIsRecorded,
        HeadIsCommit, Publishing, Validating, Stages
  <2> QED
    BY <2>1, <2>2, <2>3, <2>4, <2>5, <2>6, <2>7, <2>8, <2>9, <2>10, <2>11,
        <2>12, <2>13, <2>14, <2>15, <2>16, <2>17, <2>18, <2>19, <2>20, <2>21,
        <2>22, <2>23, <2>24, <2>25, <2>26, <2>27, <2>28 DEF Next, Worker,
        Environment, Finished

\* The journal and the local branch agree with the commit in every behaviour.
THEOREM AlwaysRecorded == Spec => []Recorded
<1> QED
  BY InitRecorded, NextRecorded, PTL DEF Spec

\* No push puts a commit on GitHub that the journal does not record, across any
\* number of restarts.
THEOREM PushJournaled == Spec => []PushedIsJournaled
<1>1. Recorded => PushedIsJournaled
  BY DEF Recorded, CommitIsRecorded, HeadIsCommit, PushedIsJournaled, Publishing
<1> QED
  BY <1>1, AlwaysRecorded, PTL

-----------------------------------------------------------------------------
\* In an execution without a restart, a commit is validated before it is made, and
\* a reconciled one before publication goes on.
CommitIsValidated ==
    /\ resumes \in Nat
    /\ resumes = 0 =>
          /\ pc = "checkout" => journalCommit = <<>>
          /\ pc = "commit" => Tree \in validated
          /\ pc \in Publishing \cup {"record"} => commit \in validated

\* Validation precedes publication on each path to a push.
LEMMA NextValidated ==
  Recorded /\ CommitIsValidated /\ [Next]_vars => CommitIsValidated'
<1> SUFFICES ASSUME Recorded, CommitIsValidated, [Next]_vars
             PROVE  CommitIsValidated'
  OBVIOUS
<1> QED
  <2>1. CASE BaseAdvances
    BY <2>1 DEF BaseAdvances, journal, loop, Recorded, HeadIsCommit,
        CommitIsValidated, Publishing, Validating, Stages, Tree
  <2>2. CASE ForeignPush
    BY <2>2 DEF ForeignPush, journal, loop, Recorded, HeadIsCommit,
        CommitIsValidated, Publishing, Validating, Stages, Tree
  <2>3. CASE Stop
    BY <2>3 DEF Stop, Active, journal, loop, Recorded, HeadIsCommit,
        CommitIsValidated, Publishing, Validating, Stages, Tree
  <2>4. CASE Resume
    BY <2>4 DEF Resume, journal, loop, Recorded, HeadIsCommit,
        CommitIsValidated, Publishing, Validating, Stages, Tree
  <2>5. CASE Checkout
    BY <2>5 DEF Checkout, journal, Recorded, HeadIsCommit, CommitIsValidated,
        Publishing, Validating, Stages, Tree
  <2>6. CASE Session
    BY <2>6 DEF Session, journal, loop, Recorded, HeadIsCommit,
        CommitIsValidated, Publishing, Validating, Stages, Tree
  <2>7. CASE GatesFail
    BY <2>7 DEF GatesFail, journal, loop, Recorded, HeadIsCommit,
        CommitIsValidated, Publishing, Validating, Stages, Tree
  <2>8. CASE GatesPass
    BY <2>8 DEF GatesPass, AfterValidation, journal, loop, Recorded,
        HeadIsCommit, CommitIsValidated, Publishing, Validating, Stages, Tree
  <2>9. CASE CommitPaths
    BY <2>9 DEF CommitPaths, journal, loop, Recorded, HeadIsCommit,
        CommitIsValidated, Publishing, Validating, Stages, Tree
  <2>10. CASE RecordCommit
    BY <2>10 DEF RecordCommit, AfterValidation, Recorded, HeadIsCommit,
        CommitIsValidated, Publishing, Validating, Stages, Tree
  <2>11. CASE ReconcileUnchanged
    BY <2>11 DEF ReconcileUnchanged, journal, loop, Recorded, HeadIsCommit,
        CommitIsValidated, Publishing, Validating, Stages, Tree
  <2>12. CASE ReconcileRewrites
    BY <2>12 DEF ReconcileRewrites, journal, loop, Recorded, HeadIsCommit,
        CommitIsValidated, Publishing, Validating, Stages, Tree
  <2>13. CASE AcceptReconciled
    BY <2>13 DEF AcceptReconciled, loop, Recorded, HeadIsCommit,
        CommitIsValidated, Publishing, Validating, Stages, Tree
  <2>14. CASE ObserveBranch
    BY <2>14 DEF ObserveBranch, journal, loop, Recorded, HeadIsCommit,
        CommitIsValidated, Publishing, Validating, Stages, Tree
  <2>15. CASE BaseUnchanged
    BY <2>15 DEF BaseUnchanged, journal, loop, Recorded, HeadIsCommit,
        CommitIsValidated, Publishing, Validating, Stages, Tree
  <2>16. CASE BaseRebases
    BY <2>16 DEF BaseRebases, journal, loop, Recorded, HeadIsCommit,
        CommitIsValidated, Publishing, Validating, Stages, Tree
  <2>17. CASE PushBegin
    BY <2>17 DEF PushBegin, Published, Moved, journal, Recorded, HeadIsCommit,
        CommitIsValidated, Publishing, Validating, Stages, Tree
  <2>18. CASE PushAccepted
    BY <2>18 DEF PushAccepted, journal, loop, Recorded, HeadIsCommit,
        CommitIsValidated, Publishing, Validating, Stages, Tree
  <2>19. CASE PushRefused
    BY <2>19 DEF PushRefused, Moved, journal, Recorded, HeadIsCommit,
        CommitIsValidated, Publishing, Validating, Stages, Tree
  <2>20. CASE PushConfirm
    BY <2>20 DEF PushConfirm, Published, Moved, journal, Recorded,
        HeadIsCommit, CommitIsValidated, Publishing, Validating, Stages, Tree
  <2>21. CASE FindPullRequest
    BY <2>21 DEF FindPullRequest, journal, loop, Recorded, HeadIsCommit,
        CommitIsValidated, Publishing, Validating, Stages, Tree
  <2>22. CASE CreatePullRequest
    BY <2>22 DEF CreatePullRequest, journal, loop, Recorded, HeadIsCommit,
        CommitIsValidated, Publishing, Validating, Stages, Tree
  <2>23. CASE RecordPullRequest
    BY <2>23 DEF RecordPullRequest, loop, Recorded, HeadIsCommit,
        CommitIsValidated, Publishing, Validating, Stages, Tree
  <2>24. CASE WorkflowsPass
    BY <2>24 DEF WorkflowsPass, journal, loop, Recorded, HeadIsCommit,
        CommitIsValidated, Publishing, Validating, Stages, Tree
  <2>25. CASE WorkflowsFail
    BY <2>25 DEF WorkflowsFail, journal, Recorded, HeadIsCommit,
        CommitIsValidated, Publishing, Validating, Stages, Tree
  <2>26. CASE AttachPullRequest
    BY <2>26 DEF AttachPullRequest, journal, loop, Recorded, HeadIsCommit,
        CommitIsValidated, Publishing, Validating, Stages, Tree
  <2>27. CASE UNCHANGED vars
    BY <2>27 DEF vars, journal, loop, Recorded, HeadIsCommit,
        CommitIsValidated, Publishing, Validating, Stages, Tree
  <2>28. CASE Hang
    BY <2>28 DEF Hang, journal, loop, Recorded, HeadIsCommit,
        CommitIsValidated, Publishing, Validating, Stages, Tree
  <2> QED
    BY <2>1, <2>2, <2>3, <2>4, <2>5, <2>6, <2>7, <2>8, <2>9, <2>10, <2>11,
        <2>12, <2>13, <2>14, <2>15, <2>16, <2>17, <2>18, <2>19, <2>20, <2>21,
        <2>22, <2>23, <2>24, <2>25, <2>26, <2>27, <2>28 DEF Next, Worker,
        Environment, Finished

\* An uninterrupted execution pushes only trees that passed the gates, through any
\* number of races, rebases and repairs.
THEOREM PushValidated == Spec => []UninterruptedPushIsValidated
<1>1. Init => CommitIsValidated
  BY DEF Init, CommitIsValidated, Publishing
<1>2. Recorded /\ CommitIsValidated => UninterruptedPushIsValidated
  BY DEF Recorded, HeadIsCommit, CommitIsValidated, UninterruptedPushIsValidated,
         Publishing
<1> QED
  BY <1>1, <1>2, NextValidated, AlwaysRecorded, PTL DEF Spec

-----------------------------------------------------------------------------
\* A pull request is about to be created only when none is open.
CreatesFirst ==
    /\ OnePullRequest
    /\ pc = "create_pr" => pullRequest # "open"
    /\ journalPR = "open" => pullRequest = "open"
    /\ pc = "record_pr" => pullRequest = "open"

\* The lookup before the creation, and the one pull request, survive every step.
LEMMA NextCreatesFirst == CreatesFirst /\ [Next]_vars => CreatesFirst'
<1> SUFFICES ASSUME CreatesFirst, [Next]_vars PROVE CreatesFirst'
  OBVIOUS
<1> QED
  <2>1. CASE BaseAdvances
    BY <2>1 DEF BaseAdvances, journal, CreatesFirst, OnePullRequest
  <2>2. CASE ForeignPush
    BY <2>2 DEF ForeignPush, journal, CreatesFirst, OnePullRequest
  <2>3. CASE Stop
    BY <2>3 DEF Stop, Active, remote, journal, CreatesFirst, OnePullRequest
  <2>4. CASE Resume
    BY <2>4 DEF Resume, remote, journal, CreatesFirst, OnePullRequest
  <2>5. CASE Checkout
    BY <2>5 DEF Checkout, remote, journal, CreatesFirst, OnePullRequest
  <2>6. CASE Session
    BY <2>6 DEF Session, remote, journal, CreatesFirst, OnePullRequest
  <2>7. CASE GatesFail
    BY <2>7 DEF GatesFail, remote, journal, CreatesFirst, OnePullRequest
  <2>8. CASE GatesPass
    BY <2>8 DEF GatesPass, AfterValidation, remote, journal, CreatesFirst,
        OnePullRequest
  <2>9. CASE CommitPaths
    BY <2>9 DEF CommitPaths, remote, journal, CreatesFirst, OnePullRequest
  <2>10. CASE RecordCommit
    BY <2>10 DEF RecordCommit, AfterValidation, remote, CreatesFirst,
        OnePullRequest
  <2>11. CASE ReconcileUnchanged
    BY <2>11 DEF ReconcileUnchanged, remote, journal, CreatesFirst,
        OnePullRequest
  <2>12. CASE ReconcileRewrites
    BY <2>12 DEF ReconcileRewrites, remote, journal, CreatesFirst,
        OnePullRequest
  <2>13. CASE AcceptReconciled
    BY <2>13 DEF AcceptReconciled, remote, CreatesFirst, OnePullRequest
  <2>14. CASE ObserveBranch
    BY <2>14 DEF ObserveBranch, remote, journal, CreatesFirst, OnePullRequest
  <2>15. CASE BaseUnchanged
    BY <2>15 DEF BaseUnchanged, remote, journal, CreatesFirst, OnePullRequest
  <2>16. CASE BaseRebases
    BY <2>16 DEF BaseRebases, remote, journal, CreatesFirst, OnePullRequest
  <2>17. CASE PushBegin
    BY <2>17 DEF PushBegin, Published, Moved, remote, journal, CreatesFirst,
        OnePullRequest
  <2>18. CASE PushAccepted
    BY <2>18 DEF PushAccepted, journal, CreatesFirst, OnePullRequest
  <2>19. CASE PushRefused
    BY <2>19 DEF PushRefused, Moved, remote, journal, CreatesFirst,
        OnePullRequest
  <2>20. CASE PushConfirm
    BY <2>20 DEF PushConfirm, Published, Moved, remote, journal, CreatesFirst,
        OnePullRequest
  <2>21. CASE FindPullRequest
    BY <2>21 DEF FindPullRequest, remote, journal, CreatesFirst, OnePullRequest
  <2>22. CASE CreatePullRequest
    BY <2>22 DEF CreatePullRequest, journal, CreatesFirst, OnePullRequest
  <2>23. CASE RecordPullRequest
    BY <2>23 DEF RecordPullRequest, remote, CreatesFirst, OnePullRequest
  <2>24. CASE WorkflowsPass
    BY <2>24 DEF WorkflowsPass, remote, journal, CreatesFirst, OnePullRequest
  <2>25. CASE WorkflowsFail
    BY <2>25 DEF WorkflowsFail, remote, journal, CreatesFirst, OnePullRequest
  <2>26. CASE AttachPullRequest
    BY <2>26 DEF AttachPullRequest, remote, journal, CreatesFirst,
        OnePullRequest
  <2>27. CASE UNCHANGED vars
    BY <2>27 DEF vars, journal, remote, CreatesFirst, OnePullRequest
  <2>28. CASE Hang
    BY <2>28 DEF Hang, remote, journal, CreatesFirst, OnePullRequest
  <2> QED
    BY <2>1, <2>2, <2>3, <2>4, <2>5, <2>6, <2>7, <2>8, <2>9, <2>10, <2>11,
        <2>12, <2>13, <2>14, <2>15, <2>16, <2>17, <2>18, <2>19, <2>20, <2>21,
        <2>22, <2>23, <2>24, <2>25, <2>26, <2>27, <2>28 DEF Next, Worker,
        Environment, Finished

\* No attempt, after any number of restarts, opens a second pull request.
THEOREM OnePullRequestAlways == Spec => []OnePullRequest
<1>1. Init => CreatesFirst
  BY DEF Init, CreatesFirst, OnePullRequest
<1>2. CreatesFirst => OnePullRequest
  BY DEF CreatesFirst
<1> QED
  BY <1>1, <1>2, NextCreatesFirst, PTL DEF Spec

-----------------------------------------------------------------------------
(* Histories.                                                                *)

\* A set of numbers that is not empty has a least one.
LEMMA LeastNumber ==
    ASSUME NEW T \in SUBSET Nat, T # {}
    PROVE  \E n \in T : \A m \in T : n <= m
  <1>1. PICK n \in T : \A m \in T : <<m, n>> \notin OpToRel(<, Nat)
    BY WFMin, NatLessThanWellFounded
  <1>2. \A m \in T : <<m, n>> \in Nat \X Nat
    OBVIOUS
  <1>3. \A m \in T : ~(m < n)
    BY <1>1, <1>2 DEF OpToRel
  <1> QED
    BY <1>3

LEMMA ConcatSet ==
    ASSUME NEW S, NEW s \in Seq(S), NEW t \in Seq(S)
    PROVE  /\ s \o t \in Seq(S)
           /\ ToSet(s \o t) = ToSet(s) \cup ToSet(t)
  <1>1. ASSUME NEW x \in ToSet(s \o t)
        PROVE  x \in ToSet(s) \cup ToSet(t)
    <2>1. PICK i \in 1 .. Len(s) + Len(t) : x = (s \o t)[i]
      BY DEF ToSet
    <2>2. CASE i <= Len(s)
      BY <2>1, <2>2 DEF ToSet
    <2>3. CASE i > Len(s)
      <3>1. i - Len(s) \in 1 .. Len(t) /\ x = t[i - Len(s)]
        BY <2>1, <2>3
      <3> QED
        BY <3>1 DEF ToSet
    <2> QED
      BY <2>1, <2>2, <2>3
  <1>2. ASSUME NEW x \in ToSet(s)
        PROVE  x \in ToSet(s \o t)
    <2>1. PICK i \in 1 .. Len(s) : x = s[i]
      BY DEF ToSet
    <2>2. i \in 1 .. Len(s) + Len(t) /\ (s \o t)[i] = x
      BY <2>1
    <2> QED
      BY <2>2 DEF ToSet
  <1>3. ASSUME NEW x \in ToSet(t)
        PROVE  x \in ToSet(s \o t)
    <2>1. PICK i \in 1 .. Len(t) : x = t[i]
      BY DEF ToSet
    <2>2. i + Len(s) \in 1 .. Len(s) + Len(t) /\ (s \o t)[i + Len(s)] = x
      BY <2>1
    <2> QED
      BY <2>2 DEF ToSet
  <1> QED
    BY <1>1, <1>2, <1>3

LEMMA AppendSet ==
    ASSUME NEW S, NEW s \in Seq(S), NEW x \in S
    PROVE  /\ Append(s, x) \in Seq(S)
           /\ ToSet(Append(s, x)) = ToSet(s) \cup {x}
  <1>1. Append(s, x) = s \o <<x>> /\ <<x>> \in Seq(S)
    OBVIOUS
  <1>2. ToSet(<<x>>) = {x}
    BY DEF ToSet
  <1>3. s \o <<x>> \in Seq(S) /\ ToSet(s \o <<x>>) = ToSet(s) \cup ToSet(<<x>>)
    <2>1. <<x>> \in Seq(S)
      BY <1>1
    <2> QED
      BY <2>1, ConcatSet
  <1> QED
    BY <1>1, <1>2, <1>3

LEMMA PrefixSet ==
    ASSUME NEW S, NEW s \in Seq(S), NEW t \in Seq(S), IsPrefix(s, t)
    PROVE  ToSet(s) \subseteq ToSet(t)
  BY DEF IsPrefix, ToSet

\* There is a longest common history.
LEMMA MergeBases ==
    ASSUME NEW S, NEW s \in Seq(S), NEW t \in Seq(S)
    PROVE  /\ MergeBase(s, t) \in Seq(S)
           /\ IsPrefix(MergeBase(s, t), s) /\ IsPrefix(MergeBase(s, t), t)
  <1> DEFINE C == CommonPrefixes({s, t})
  <1>1. \A c \in C : c \in Seq(S) /\ IsPrefix(c, s) /\ IsPrefix(c, t)
    BY DEF CommonPrefixes, Prefixes
  <1>2. <<>> \in C
    <2>1. <<>> = SubSeq(s, 1, 0) /\ 0 \in 0 .. Len(s)
      OBVIOUS
    <2>2. <<>> \in Prefixes(s)
      BY <2>1 DEF Prefixes
    <2>3. IsPrefix(<<>>, s) /\ IsPrefix(<<>>, t)
      BY DEF IsPrefix
    <2> QED
      BY <2>2, <2>3 DEF CommonPrefixes
  <1> HIDE DEF C
  <1> DEFINE T == {Len(s) - Len(c) : c \in C}
  <1>3. T \in SUBSET Nat /\ T # {}
    BY <1>1, <1>2 DEF IsPrefix
  <1>4. \E n \in T : \A m \in T : n <= m
    <2> HIDE DEF T
    <2> QED
      BY <1>3, LeastNumber
  <1>5. PICK c \in C : \A d \in C : Len(d) <= Len(c)
    <2>1. PICK c \in C : \A m \in T : Len(s) - Len(c) <= m
      BY <1>4
    <2>2. \A d \in C : Len(s) - Len(c) <= Len(s) - Len(d)
      BY <2>1
    <2> QED
      BY <1>1, <2>1, <2>2
  <1>6. MergeBase(s, t) \in C
    BY <1>5 DEF MergeBase, LongestCommonPrefix, C
  <1> QED
    BY <1>1, <1>6

\* The numbers of a finite set can be counted from the least one.
LEMMA Counting ==
    ASSUME NEW K, NEW m \in Nat, K \subseteq 1 .. m
    PROVE  LET Below(i) == {j \in K : j <= i}
           IN  /\ Cardinality(K) \in Nat
               /\ \A i \in K : Cardinality(Below(i)) \in 1 .. Cardinality(K)
               /\ \A i, j \in K : Cardinality(Below(i)) = Cardinality(Below(j)) => i = j
               /\ \A n \in 1 .. Cardinality(K) :
                    \E i \in K : Cardinality(Below(i)) = n
  <1> DEFINE Below(i) == {j \in K : j <= i}
  <1>0. K \subseteq Int
    OBVIOUS
  <1>1. IsFiniteSet(K) /\ Cardinality(K) \in Nat
    <2>1. IsFiniteSet(1 .. m)
      BY FS_Interval
    <2> QED
      BY <2>1, FS_Subset, FS_CardinalityType
  <1>2. ASSUME NEW i \in K
        PROVE  /\ IsFiniteSet(Below(i)) /\ i \in Below(i)
               /\ Cardinality(Below(i)) \in 1 .. Cardinality(K)
    <2>1. Below(i) \in SUBSET K
      OBVIOUS
    <2>2. i \in Below(i)
      OBVIOUS
    <2> HIDE DEF Below
    <2>3. IsFiniteSet(Below(i)) /\ Cardinality(Below(i)) <= Cardinality(K)
      BY <1>1, <2>1, FS_Subset
    <2>4. Cardinality(Below(i)) \in Nat /\ Cardinality(Below(i)) # 0
      BY <2>2, <2>3, FS_CardinalityType, FS_EmptySet
    <2> QED
      BY <1>1, <2>2, <2>3, <2>4
  <1>3. ASSUME NEW i \in K, NEW j \in K, Cardinality(Below(i)) = Cardinality(Below(j)), i <= j
        PROVE  i = j
    <2>1. Below(i) \in SUBSET Below(j)
      <3>1. \A k \in K : k <= i => k <= j
        BY <1>0, <1>3
      <3> QED
        BY <3>1
    <2>2. Below(i) = Below(j)
      <3> HIDE DEF Below
      <3> QED
        BY <1>2, <1>3, <2>1, FS_Subset
    <2>3. j \in Below(i)
      BY <2>2
    <2> QED
      BY <1>3, <2>3
  <1>4. \A i, j \in K : Cardinality(Below(i)) = Cardinality(Below(j)) => i = j
    BY <1>3
  <1> DEFINE rank == [i \in K |-> Cardinality(Below(i))]
  <1> HIDE DEF Below
  <1>5. rank \in Injection(K, 1 .. Cardinality(K))
    BY <1>2, <1>4 DEF Injection, IsInjective
  <1>6. rank \in Surjection(K, 1 .. Cardinality(K))
    <2>1. /\ IsFiniteSet(1 .. Cardinality(K))
          /\ Cardinality(1 .. Cardinality(K)) = Cardinality(K)
      BY <1>1, FS_Interval
    <2> HIDE DEF rank
    <2> QED
      BY <1>5, <2>1, FS_Injection
  <1>7. \A n \in 1 .. Cardinality(K) : \E i \in K : Cardinality(Below(i)) = n
    BY <1>6 DEF Surjection
  <1> QED
    BY <1>1, <1>2, <1>4, <1>7 DEF Below

\* A rebase keeps what it is onto and what it replays.
LEMMA RebaseKeeps ==
    ASSUME NEW S, NEW local \in Seq(S), NEW upstream \in Seq(S), NEW onto \in Seq(S)
    PROVE  /\ Rebase(local, upstream, onto) \in Seq(S)
           /\ ToSet(onto) \subseteq ToSet(Rebase(local, upstream, onto))
           /\ \A i \in Len(upstream) + 1 .. Len(local) :
                local[i] \in ToSet(Rebase(local, upstream, onto))
  <1> DEFINE K == Replayed(local, upstream, onto)
             Below(i) == {j \in K : j <= i}
             Nth(n) == CHOOSE i \in K : Cardinality(Below(i)) = n
             again == [n \in 1 .. Cardinality(K) |-> local[Nth(n)]]
  <1>1. K \subseteq 1 .. Len(local) /\ Len(local) \in Nat
    BY DEF Replayed
  <1>2. /\ Cardinality(K) \in Nat
        /\ \A i \in K : Cardinality(Below(i)) \in 1 .. Cardinality(K)
        /\ \A i, j \in K : Cardinality(Below(i)) = Cardinality(Below(j)) => i = j
        /\ \A n \in 1 .. Cardinality(K) : \E i \in K : Cardinality(Below(i)) = n
    <2> HIDE DEF K
    <2> QED
      BY <1>1, Counting
  <1> HIDE DEF K
  <1>3. \A n \in 1 .. Cardinality(K) : Nth(n) \in K /\ Cardinality(Below(Nth(n))) = n
    <2> HIDE DEF Below
    <2> QED
      BY <1>2
  <1> HIDE DEF Nth, Below
  <1>4. again \in Seq(S)
    <2>1. ASSUME NEW n \in 1 .. Cardinality(K)
          PROVE  local[Nth(n)] \in S
      <3>1. Nth(n) \in 1 .. Len(local)
        BY <1>1, <1>3
      <3> QED
        BY <3>1
    <2>2. again \in [1 .. Cardinality(K) -> S]
      BY <2>1
    <2> HIDE DEF again
    <2> QED
      BY <1>2, <2>2
  <1>5. \A i \in K : local[i] \in ToSet(again)
    <2> SUFFICES ASSUME NEW i \in K PROVE local[i] \in ToSet(again)
      OBVIOUS
    <2> DEFINE n == Cardinality(Below(i))
    <2>1. n \in 1 .. Cardinality(K) /\ Nth(n) = i
      BY <1>2, <1>3
    <2>2. n \in DOMAIN again /\ again[n] = local[i]
      BY <2>1
    <2> QED
      BY <2>2 DEF ToSet
  <1>6. Rebase(local, upstream, onto) = onto \o again
    BY DEF Rebase, K, Nth, Below
  <1> HIDE DEF again
  <1>7. /\ onto \o again \in Seq(S)
        /\ ToSet(onto \o again) = ToSet(onto) \cup ToSet(again)
    BY <1>4, ConcatSet
  <1>8. \A i \in Len(upstream) + 1 .. Len(local) : i \in K \/ local[i] \in ToSet(onto)
    BY DEF K, Replayed
  <1> QED
    BY <1>5, <1>6, <1>7, <1>8

-----------------------------------------------------------------------------
(* The commits of others on the agent branch.                                *)

\* The patches that were made so far.
Made == {p \in Patches : p[1] = "foreign" => p \in foreign}

Histories ==
    /\ remoteBase \in Seq(Made) /\ remoteBranch \in Seq(Made)
    /\ head \in Seq(Made) /\ dirty \in Seq(Made) /\ commit \in Seq(Made)
    /\ journalCommit \in Seq(Made) /\ baseLease \in Seq(Made)
    /\ sessions \in Nat

\* From the observation of the branch head to the push that is bound to it.
Rebasing ==
    \/ pc \in {"base", "push", "pushing"}
    \/ stage = "base" /\ pc \in {"accept", "gates", "session", "commit", "record"}

\* What was seen of others is in the commit: from the reconciliation on all of
\* it, from the observation on what the lease covers.
ForeignFollows ==
    /\ IsFiniteSet(foreign) /\ foreign = {"foreign"} \X (1 .. Cardinality(foreign))
    /\ ForeignWorkSurvives
    /\ Unobserved => foreign \ unseen \subseteq ToSet(commit)
    /\ Rebasing => (foreign \ unseen) \cap ToSet(baseLease) \subseteq ToSet(commit)

\* A commit of another is a new patch.
LEMMA NewPatch ==
    ASSUME IsFiniteSet(foreign), foreign = {"foreign"} \X (1 .. Cardinality(foreign)),
           Cardinality(foreign) < MaxForeign,
           NEW p, p = <<"foreign", Cardinality(foreign) + 1>>
    PROVE  /\ p \in Patches /\ p \notin foreign /\ p[1] = "foreign"
           /\ IsFiniteSet(foreign \cup {p})
           /\ foreign \cup {p} = {"foreign"} \X (1 .. Cardinality(foreign \cup {p}))
  <1>1. Cardinality(foreign) \in Nat
    BY FS_CardinalityType
  <1>2. p \notin foreign
    BY <1>1
  <1>3. p \in Patches
    BY <1>1, PublicationAssumption DEF Patches
  <1>4. /\ IsFiniteSet(foreign \cup {p})
        /\ Cardinality(foreign \cup {p}) = Cardinality(foreign) + 1
    BY <1>2, FS_AddElement
  <1>5. 1 .. Cardinality(foreign) + 1
          = (1 .. Cardinality(foreign)) \cup {Cardinality(foreign) + 1}
    BY <1>1
  <1>6. foreign \cup {p} = {"foreign"} \X (1 .. Cardinality(foreign) + 1)
    BY <1>5
  <1> QED
    BY <1>2, <1>3, <1>4, <1>6

\* What a rewritten commit keeps.
LEMMA RewritesKeep ==
    ASSUME Histories
    PROVE  /\ Tree \in Seq(Made) /\ ToSet(head) \subseteq ToSet(Tree)
           /\ ~IsPrefix(remoteBranch, commit) =>
                Reconciled \in Seq(Made) /\ ToSet(remoteBranch) \subseteq ToSet(Reconciled)
           /\ LET based == Rebase(commit, MergeBase(commit, remoteBase), remoteBase)
              IN  based \in Seq(Made) /\ ToSet(commit) \subseteq ToSet(based)
  <1>1. Tree \in Seq(Made) /\ ToSet(head) \subseteq ToSet(Tree)
    <2>1. /\ head \o dirty \in Seq(Made)
          /\ ToSet(head \o dirty) = ToSet(head) \cup ToSet(dirty)
      BY ConcatSet DEF Histories
    <2> QED
      BY <2>1 DEF Tree, Histories
  <1>2. ASSUME ~IsPrefix(remoteBranch, commit)
        PROVE  Reconciled \in Seq(Made) /\ ToSet(remoteBranch) \subseteq ToSet(Reconciled)
    <2>1. CASE IsPrefix(commit, remoteBranch)
      BY <1>2, <2>1 DEF Reconciled, Histories
    <2>2. CASE ~IsPrefix(commit, remoteBranch)
      <3>1. commit # <<>>
        BY <2>2 DEF IsPrefix, Histories
      <3>2. Front(commit) \in Seq(Made)
        BY <3>1 DEF Front, Histories
      <3>3. /\ Rebase(commit, Front(commit), remoteBranch) \in Seq(Made)
            /\ ToSet(remoteBranch) \subseteq ToSet(Rebase(commit, Front(commit), remoteBranch))
        BY <3>2, RebaseKeeps DEF Histories
      <3> QED
        BY <1>2, <2>2, <3>3 DEF Reconciled
    <2> QED
      BY <2>1, <2>2
  <1> DEFINE mb == MergeBase(commit, remoteBase)
             based == Rebase(commit, mb, remoteBase)
  <1>3. mb \in Seq(Made) /\ IsPrefix(mb, commit) /\ IsPrefix(mb, remoteBase)
    BY MergeBases DEF Histories
  <1> HIDE DEF mb
  <1>4. /\ based \in Seq(Made) /\ ToSet(remoteBase) \subseteq ToSet(based)
        /\ \A i \in Len(mb) + 1 .. Len(commit) : commit[i] \in ToSet(based)
    BY <1>3, RebaseKeeps DEF Histories
  <1> HIDE DEF based
  <1>5. \A i \in 1 .. Len(mb) : commit[i] \in ToSet(remoteBase)
    <2> SUFFICES ASSUME NEW i \in 1 .. Len(mb) PROVE commit[i] \in ToSet(remoteBase)
      OBVIOUS
    <2>1. /\ i \in 1 .. Len(commit) /\ i \in 1 .. Len(remoteBase)
          /\ commit[i] = mb[i] /\ remoteBase[i] = mb[i]
      BY <1>3 DEF IsPrefix, Histories
    <2> QED
      BY <2>1 DEF ToSet, Histories
  <1>6. ToSet(commit) \subseteq ToSet(based)
    <2>1. Len(mb) \in Nat
      BY <1>3
    <2>2. \A i \in 1 .. Len(commit) : commit[i] \in ToSet(based)
      BY <1>4, <1>5, <2>1
    <2>3. DOMAIN commit = 1 .. Len(commit)
      BY DEF Histories
    <2> QED
      BY <2>2, <2>3 DEF ToSet
  <1> QED
    BY <1>1, <1>2, <1>4, <1>6 DEF based, mb

\* What is made stays made.
LEMMA MadeStays ==
    ASSUME foreign \subseteq foreign'
    PROVE  \A s \in Seq(Made) : s \in Seq(Made)'
  <1>1. Patches' = Patches
    BY DEF Patches
  <1>2. Made \subseteq Made'
    BY <1>1 DEF Made
  <1> QED
    BY <1>2

LEMMA NextHistories ==
    ASSUME Histories, ForeignFollows, [Next]_vars
    PROVE  Histories'
  <1>1. CASE ForeignPush
    <2> DEFINE p == <<"foreign", Cardinality(foreign) + 1>>
    <2>1. /\ remoteBranch' = Append(IF remoteBranch = <<>> THEN remoteBase ELSE remoteBranch, p)
          /\ foreign' = foreign \cup {p}
          /\ Cardinality(foreign) < MaxForeign
          /\ UNCHANGED <<remoteBase, head, dirty, commit, journalCommit, baseLease, sessions>>
      BY <1>1 DEF ForeignPush, journal, lease
    <2>2. p \in Patches
      BY <2>1, NewPatch DEF ForeignFollows
    <2>3. p \in Made'
      BY <2>1, <2>2 DEF Made, Patches
    <2>4. \A s \in Seq(Made) : s \in Seq(Made)'
      BY <2>1, MadeStays
    <2> HIDE DEF p
    <2>5. remoteBranch' \in Seq(Made)'
      BY <2>1, <2>3, <2>4, AppendSet DEF Histories
    <2> QED
      BY <2>1, <2>4, <2>5 DEF Histories
  <1>2. CASE UNCHANGED <<remoteBase, remoteBranch, head, dirty, commit, journalCommit,
                         baseLease, sessions, foreign>>
    BY <1>2, MadeStays DEF Histories
  <1>3. ASSUME foreign' = foreign
        PROVE  Made' = Made
    BY <1>3 DEF Made, Patches
  <1>4. CASE BaseAdvances
    <2>1. Len(remoteBase) \in Nat
      BY DEF Histories
    <2>2. <<"base", Len(remoteBase)>> \in Made
      BY <1>4, <2>1, PublicationAssumption DEF BaseAdvances, Made, Patches
    <2>3. remoteBase' \in Seq(Made)
      BY <1>4, <2>2, AppendSet DEF BaseAdvances, Histories
    <2> QED
      BY <1>3, <1>4, <2>3 DEF BaseAdvances, Histories, journal, lease, others
  <1>5. CASE Checkout
    BY <1>3, <1>5 DEF Checkout, Histories, remote, journal, lease, others
  <1>6. CASE Session
    <2> DEFINE p == <<"agent", sessions + 1>>
    <2>0. dirty' \in {dirty, <<p>>} /\ sessions' = sessions + 1
      BY <1>6 DEF Session
    <2>1. p \in Made
      BY <1>6, PublicationAssumption DEF Session, Made, Patches, Histories
    <2> HIDE DEF p
    <2>2. <<p>> \in Seq(Made)
      BY <2>1
    <2>3. dirty \in Seq(Made) /\ sessions \in Nat
      BY DEF Histories
    <2>4. dirty' \in Seq(Made)
      BY <2>0, <2>2, <2>3
    <2>5. sessions' \in Nat
      BY <2>0, <2>3
    <2> QED
      BY <1>3, <1>6, <2>4, <2>5 DEF Session, Histories, remote, journal, lease, others
  <1>7. CASE CommitPaths
    BY <1>3, <1>7, RewritesKeep DEF CommitPaths, Histories, remote, journal, lease, others
  <1>8. CASE RecordCommit
    BY <1>3, <1>8 DEF RecordCommit, Histories, remote, lease, others
  <1>9. CASE ReconcileRewrites
    BY <1>3, <1>9, RewritesKeep DEF ReconcileRewrites, Histories, remote, journal, lease, others
  <1>10. CASE AcceptReconciled
    BY <1>3, <1>10 DEF AcceptReconciled, Histories, remote, lease, others
  <1>11. CASE ObserveBranch
    BY <1>3, <1>11 DEF ObserveBranch, Histories, remote, journal, others
  <1>12. CASE BaseRebases
    BY <1>3, <1>12, RewritesKeep DEF BaseRebases, Histories, remote, journal, others
  <1>13. CASE PushAccepted
    BY <1>3, <1>13 DEF PushAccepted, Histories, journal, lease, others
  <1>14. CASE \/ GatesFail \/ GatesPass \/ ReconcileUnchanged \/ BaseUnchanged
              \/ PushBegin \/ PushRefused \/ PushConfirm
              \/ FindPullRequest \/ CreatePullRequest \/ RecordPullRequest
              \/ WorkflowsPass \/ WorkflowsFail \/ AttachPullRequest
              \/ Stop \/ Hang \/ Resume \/ UNCHANGED vars
    <2>1. UNCHANGED <<remoteBase, remoteBranch, head, dirty, commit, journalCommit,
                      baseLease, sessions, foreign>>
      BY <1>14 DEF GatesFail, GatesPass, ReconcileUnchanged, BaseUnchanged, PushBegin,
         PushRefused, PushConfirm, FindPullRequest, CreatePullRequest, RecordPullRequest,
         WorkflowsPass, WorkflowsFail, AttachPullRequest, Stop, Hang, Resume, vars,
         remote, journal, lease, others
    <2> QED
      BY <1>2, <2>1
  <1> QED
    BY <1>1, <1>4, <1>5, <1>6, <1>7, <1>8, <1>9, <1>10, <1>11, <1>12, <1>13, <1>14
       DEF Next, Worker, Environment, Finished

LEMMA NextForeign ==
    ASSUME Recorded, Histories, ForeignFollows, [Next]_vars
    PROVE  ForeignFollows'
  <1>1. CASE ForeignPush
    <2> DEFINE p == <<"foreign", Cardinality(foreign) + 1>>
    <2>1. /\ remoteBranch' = Append(IF remoteBranch = <<>> THEN remoteBase ELSE remoteBranch, p)
          /\ foreign' = foreign \cup {p}
          /\ unseen' = IF Unobserved THEN unseen \cup {p} ELSE unseen
          /\ Cardinality(foreign) < MaxForeign
          /\ UNCHANGED <<commit, baseLease, pc, stage>>
      BY <1>1 DEF ForeignPush, lease
    <2>2. /\ p \in Patches /\ p \notin foreign
          /\ IsFiniteSet(foreign') /\ foreign' = {"foreign"} \X (1 .. Cardinality(foreign'))
      BY <2>1, NewPatch DEF ForeignFollows
    <2>3. p[1] = "foreign"
      OBVIOUS
    <2> HIDE DEF p
    <2>4. ToSet(remoteBranch) \cup {p} \subseteq ToSet(remoteBranch')
      <3>1. /\ remoteBase \in Seq(Patches \cup {p}) /\ remoteBranch \in Seq(Patches \cup {p})
        BY DEF Histories, Made
      <3>2. CASE remoteBranch = <<>>
        BY <2>1, <3>1, <3>2, AppendSet DEF ToSet
      <3>3. CASE remoteBranch # <<>>
        BY <2>1, <3>1, <3>3, AppendSet
      <3> QED
        BY <3>2, <3>3
    <2>5. foreign' \ unseen' \subseteq ToSet(remoteBranch')
      BY <2>1, <2>4 DEF ForeignFollows, ForeignWorkSurvives
    <2>6. p \notin ToSet(baseLease)
      <3>1. ToSet(baseLease) \subseteq Made
        BY DEF ToSet, Histories
      <3> QED
        BY <2>2, <2>3, <3>1 DEF Made
    <2>7. Unobserved' <=> Unobserved
      BY <2>1 DEF Unobserved
    <2>8. Rebasing' <=> Rebasing
      BY <2>1 DEF Rebasing
    <2> QED
      BY <2>1, <2>2, <2>5, <2>6, <2>7, <2>8 DEF ForeignFollows, ForeignWorkSurvives
  <1>2. ASSUME UNCHANGED <<foreign, unseen, remoteBranch>>,
               Unobserved' => foreign \ unseen \subseteq ToSet(commit'),
               Rebasing' =>
                 (foreign \ unseen) \cap ToSet(baseLease') \subseteq ToSet(commit')
        PROVE  ForeignFollows'
    BY <1>2 DEF ForeignFollows, ForeignWorkSurvives
  <1>3. CASE PushAccepted
    <2>1. /\ remoteBranch' = head /\ head = commit /\ Accepted /\ pc' = "confirm" /\ Rebasing
          /\ UNCHANGED <<foreign, unseen, stage>>
      BY <1>3 DEF PushAccepted, Rebasing, others, Recorded, HeadIsCommit
    <2>2. foreign \ unseen \subseteq ToSet(head)
      <3>1. CASE Expected # <<>>
        BY <2>1, <3>1 DEF Accepted, Expected, ForeignFollows, ForeignWorkSurvives
      <3>2. CASE Expected = <<>>
        BY <2>1, <3>2, PrefixSet DEF Accepted, Histories, ForeignFollows, ForeignWorkSurvives
      <3> QED
        BY <3>1, <3>2
    <2>3. ~Unobserved' /\ ~Rebasing'
      BY <2>1 DEF Unobserved, Rebasing
    <2> QED
      BY <2>1, <2>2, <2>3 DEF ForeignFollows, ForeignWorkSurvives
  <1>4. CASE CommitPaths
    <2>1. /\ commit' = Tree /\ pc' = "record" /\ pc = "commit"
          /\ UNCHANGED <<foreign, unseen, remoteBranch, stage, baseLease>>
      BY <1>4 DEF CommitPaths, remote, lease, others
    <2>2. stage \in {"reconcile", "base"} => ToSet(commit) \subseteq ToSet(commit')
      BY <2>1, RewritesKeep DEF Recorded, HeadIsCommit, Validating
    <2>3. (Unobserved' => Unobserved) /\ (Rebasing' => Rebasing)
          /\ (Unobserved' \/ Rebasing' => stage \in {"reconcile", "base"})
      BY <2>1 DEF Unobserved, Rebasing
    <2> QED
      BY <1>2, <2>1, <2>2, <2>3 DEF ForeignFollows
  <1>5. CASE ReconcileUnchanged
    <2>1. /\ pc' = "observe" /\ stage' = "reconcile" /\ IsPrefix(remoteBranch, commit)
          /\ UNCHANGED <<foreign, unseen, remoteBranch, commit, baseLease>>
      BY <1>5 DEF ReconcileUnchanged, remote, lease, others
    <2>2. foreign \ unseen \subseteq ToSet(commit)
      BY <2>1, PrefixSet DEF Histories, ForeignFollows, ForeignWorkSurvives
    <2> QED
      BY <1>2, <2>1, <2>2 DEF Rebasing
  <1>6. CASE ReconcileRewrites
    <2>1. /\ pc' = "accept" /\ stage' = "reconcile" /\ ~IsPrefix(remoteBranch, commit)
          /\ commit' = Reconciled
          /\ UNCHANGED <<foreign, unseen, remoteBranch, baseLease>>
      BY <1>6 DEF ReconcileRewrites, remote, lease, others
    <2>2. foreign \ unseen \subseteq ToSet(commit')
      BY <2>1, RewritesKeep DEF ForeignFollows, ForeignWorkSurvives
    <2> QED
      BY <1>2, <2>1, <2>2 DEF Rebasing
  <1>7. CASE ObserveBranch
    <2>1. /\ pc = "observe" /\ pc' = "base" /\ stage' = "base"
          /\ UNCHANGED <<foreign, unseen, remoteBranch, commit>>
      BY <1>7 DEF ObserveBranch, remote, others
    <2> QED
      BY <1>2, <2>1 DEF Unobserved, ForeignFollows
  <1>8. CASE BaseRebases
    <2>1. /\ pc = "base" /\ pc' = "accept" /\ stage = "base" /\ stage' = stage
          /\ commit' = Rebase(commit, MergeBase(commit, remoteBase), remoteBase)
          /\ UNCHANGED <<foreign, unseen, remoteBranch, baseLease>>
      BY <1>8 DEF BaseRebases, remote, others, Recorded, HeadIsCommit
    <2>2. ToSet(commit) \subseteq ToSet(commit')
      BY <2>1, RewritesKeep
    <2> QED
      BY <1>2, <2>1, <2>2 DEF Unobserved, Rebasing, ForeignFollows
  <1>9. CASE UNCHANGED <<foreign, unseen, remoteBranch, commit, baseLease>>
             /\ (Unobserved' => Unobserved) /\ (Rebasing' => Rebasing)
    BY <1>2, <1>9 DEF ForeignFollows
  <1>10. CASE Checkout
    BY <1>2, <1>10 DEF Checkout, remote, others, Unobserved, Rebasing
  <1>11. CASE Session \/ GatesFail \/ AcceptReconciled
    <2>1. UNCHANGED <<foreign, unseen, remoteBranch, commit, baseLease>>
      BY <1>11 DEF Session, GatesFail, AcceptReconciled, remote, others, lease
    <2>2. (Unobserved' => Unobserved) /\ (Rebasing' => Rebasing)
      BY <1>11 DEF Session, GatesFail, AcceptReconciled, Unobserved, Rebasing
    <2> QED
      BY <1>9, <2>1, <2>2
  <1>12. CASE GatesPass
    <2>1. UNCHANGED <<foreign, unseen, remoteBranch, commit, baseLease, stage>> /\ pc = "gates"
      BY <1>12 DEF GatesPass, remote, others, lease
    <2>2. (Unobserved' => Unobserved) /\ (Rebasing' => Rebasing)
      BY <1>12, <2>1 DEF GatesPass, AfterValidation, Unobserved, Rebasing, Recorded,
         HeadIsCommit, Stages
    <2> QED
      BY <1>9, <2>1, <2>2
  <1>13. CASE RecordCommit
    <2>1. UNCHANGED <<foreign, unseen, remoteBranch, commit, baseLease, stage>> /\ pc = "record"
      BY <1>13 DEF RecordCommit, remote, others, lease
    <2>2. (Unobserved' => Unobserved) /\ (Rebasing' => Rebasing)
      BY <1>13, <2>1 DEF RecordCommit, AfterValidation, Unobserved, Rebasing, Recorded,
         HeadIsCommit, Stages
    <2> QED
      BY <1>9, <2>1, <2>2
  <1>14. CASE BaseUnchanged \/ PushBegin \/ PushRefused \/ PushConfirm
    <2>1. UNCHANGED <<foreign, unseen, remoteBranch, commit, baseLease, stage>>
      BY <1>14 DEF BaseUnchanged, PushBegin, PushRefused, PushConfirm, remote, others, lease
    <2>2. /\ pc \in {"base", "push", "pushing", "confirm"}
          /\ pc' \in {"push", "pull_request", "workflows", "reconcile", "stopped",
                      "pushing", "refused"}
          /\ pc = "confirm" => pc' \notin {"push", "pushing"}
      BY <1>14 DEF BaseUnchanged, PushBegin, PushRefused, PushConfirm, Published, Moved
    <2>3. (Unobserved' => Unobserved) /\ (Rebasing' => Rebasing)
      BY <2>1, <2>2 DEF Unobserved, Rebasing
    <2> QED
      BY <1>9, <2>1, <2>3
  <1>15. CASE \/ FindPullRequest \/ CreatePullRequest \/ RecordPullRequest
              \/ WorkflowsPass \/ WorkflowsFail \/ AttachPullRequest \/ Stop \/ Hang \/ Resume
    <2>1. UNCHANGED <<foreign, unseen, remoteBranch, commit, baseLease>>
      BY <1>15 DEF FindPullRequest, CreatePullRequest, RecordPullRequest, WorkflowsPass,
         WorkflowsFail, AttachPullRequest, Stop, Hang, Resume, remote, others, lease
    <2>2. /\ pc' \in {"record_pr", "create_pr", "stopped", "workflows", "attach", "done",
                      "checkout", "session", "hung"}
          /\ pc' = "session" => stage' = "ci"
      BY <1>15 DEF FindPullRequest, CreatePullRequest, RecordPullRequest, WorkflowsPass,
         WorkflowsFail, AttachPullRequest, Stop, Hang, Resume
    <2>3. ~Unobserved' /\ ~Rebasing'
      BY <2>2 DEF Unobserved, Rebasing
    <2> QED
      BY <1>9, <2>1, <2>3
  <1>16. CASE BaseAdvances \/ UNCHANGED vars
    <2>1. UNCHANGED <<foreign, unseen, remoteBranch, commit, baseLease, stage, pc>>
      BY <1>16 DEF BaseAdvances, vars, remote, others, lease
    <2> QED
      BY <1>9, <2>1 DEF Unobserved, Rebasing
  <1> QED
    BY <1>1, <1>3, <1>4, <1>5, <1>6, <1>7, <1>8, <1>10, <1>11, <1>12, <1>13, <1>14, <1>15,
       <1>16 DEF Next, Worker, Environment, Finished

\* Histories and what they hold of others, in every behaviour.
LEMMA HistoriesFollow == Spec => [](Histories /\ ForeignFollows)
  <1>1. Init => Histories /\ ForeignFollows
    <2> SUFFICES ASSUME Init PROVE Histories /\ ForeignFollows
      OBVIOUS
    <2>1. foreign = {} /\ Cardinality({}) = 0 /\ IsFiniteSet({})
      BY FS_EmptySet DEF Init
    <2>2. <<"base", 0>> \in Made
      BY PublicationAssumption DEF Made, Patches
    <2>3. Histories
      BY <2>2 DEF Init, Histories
    <2>4. {"foreign"} \X (1 .. Cardinality(foreign)) = {}
      BY <2>1
    <2>5. ~Unobserved /\ ~Rebasing
      BY DEF Init, Unobserved, Rebasing
    <2> QED
      BY <2>1, <2>3, <2>4, <2>5 DEF ForeignFollows, ForeignWorkSurvives
  <1>2. Recorded /\ Histories /\ ForeignFollows /\ [Next]_vars
          => Histories' /\ ForeignFollows'
    BY NextHistories, NextForeign
  <1> QED
    BY <1>1, <1>2, AlwaysRecorded, PTL DEF Spec

\* No reconciliation, rebase or forced push takes a commit of another off the agent
\* branch that was there when the branch head was observed, however many others
\* push and however often the run stops and resumes (reconcile_remote_branch,
\* rebase_onto_remote_base, push_with_lease).
THEOREM ForeignWorkAlwaysSurvives == Spec => []ForeignWorkSurvives
  <1>1. ForeignFollows => ForeignWorkSurvives
    BY DEF ForeignFollows
  <1> QED
    BY <1>1, HistoriesFollow, PTL

-----------------------------------------------------------------------------
(* Types.                                                                    *)

\* What Histories does not say of the types.
Controls ==
    /\ before \in Seq(Patches) /\ validated \subseteq Seq(Patches)
    /\ Len(dirty) <= 1
    /\ pullRequest \in {"none", "open"} /\ journalPR \in {"none", "open"}
    /\ pc \in Active \cup {"stopped", "refused", "done", "hung"} /\ stage \in Stages
    /\ attempt \in 1 .. PublishAttempts /\ cycle \in 0 .. MaxCycles
    /\ baseChanged \in {"no", "yes"}
    /\ sessions \in 0 .. MaxSessions /\ resumes \in 0 .. MaxResumes
    /\ unseen \subseteq foreign /\ foreign \subseteq Patches
    /\ notes \subseteq {"duplicate"}

LEMMA HistoriesAreTyped ==
    ASSUME Histories
    PROVE  /\ {remoteBase, remoteBranch, head, commit, journalCommit, baseLease}
                 \subseteq Seq(Patches)
           /\ dirty \in Seq(Patches) /\ Tree \in Seq(Patches)
  <1>1. Made \subseteq Patches
    BY DEF Made
  <1>2. \A s \in Seq(Made) : s \in Seq(Patches)
    BY <1>1
  <1>3. Tree \in Seq(Made)
    BY ConcatSet DEF Histories, Tree
  <1> QED
    BY <1>2, <1>3 DEF Histories

LEMMA NextControls ==
    ASSUME Controls, Histories, ForeignFollows, [Next]_vars
    PROVE  Controls'
  <1>p. Patches' = Patches
    BY DEF Patches
  <1>h. remoteBranch \in Seq(Patches) /\ Tree \in Seq(Patches)
    BY HistoriesAreTyped
  <1>a. PublicationAssumption
    BY PublicationAssumption
  <1>n. Moved => attempt' \in 1 .. PublishAttempts /\ pc' \in Active \cup {"stopped"}
    BY DEF Moved, Controls, PublishAttempts, Active
  <1>1. CASE BaseAdvances
    BY <1>1, <1>p DEF BaseAdvances, Controls, journal, loop, lease, others
  <1>2. CASE ForeignPush
    <2> DEFINE p == <<"foreign", Cardinality(foreign) + 1>>
    <2>1. /\ foreign' = foreign \cup {p} /\ unseen' \in {unseen, unseen \cup {p}}
          /\ Cardinality(foreign) < MaxForeign
      BY <1>2 DEF ForeignPush
    <2>2. p \in Patches
      BY <2>1, NewPatch DEF ForeignFollows
    <2> HIDE DEF p
    <2>3. foreign' \subseteq Patches /\ unseen' \subseteq foreign'
      BY <2>1, <2>2 DEF Controls
    <2> QED
      BY <1>2, <1>p, <2>3 DEF ForeignPush, Controls, journal, loop, lease
  <1>3. CASE Stop \/ Hang
    BY <1>3, <1>p DEF Stop, Hang, Controls, remote, journal, loop, lease, others
  <1>4. CASE Resume
    <2>1. resumes' \in 0 .. MaxResumes
      BY <1>4, <1>a DEF Resume, Controls, PublicationAssumption
    <2> QED
      BY <1>4, <1>p, <2>1 DEF Resume, Controls, Active, remote, journal, loop, lease, others
  <1>5. CASE Checkout
    <2>1. attempt' \in 1 .. PublishAttempts /\ cycle' \in 0 .. MaxCycles
      BY <1>5, <1>a DEF Checkout, PublishAttempts, PublicationAssumption
    <2> QED
      BY <1>5, <1>p, <2>1 DEF Checkout, Controls, Active, Stages, remote, journal, lease, others
  <1>6. CASE Session
    <2>1. sessions' \in 0 .. MaxSessions
      BY <1>6, <1>a DEF Session, Controls, PublicationAssumption
    <2>2. \A p : Len(<<p>>) <= 1
      OBVIOUS
    <2>3. dirty' \in {dirty, <<<<"agent", sessions + 1>>>>}
      BY <1>6 DEF Session
    <2>4. Len(dirty') <= 1
      BY <2>2, <2>3 DEF Controls
    <2> QED
      BY <1>6, <1>p, <2>1, <2>4 DEF Session, Controls, Active, remote, journal, loop, lease, others
  <1>7. CASE GatesFail
    BY <1>7, <1>p DEF GatesFail, Controls, Active, remote, journal, loop, lease, others
  <1>8. CASE GatesPass
    <2>1. validated' \subseteq Seq(Patches)
      BY <1>8, <1>h DEF GatesPass, Controls
    <2>2. pc' \in Active \cup {"stopped"}
      BY <1>8 DEF GatesPass, AfterValidation, Controls, Stages, Active
    <2> QED
      BY <1>8, <1>p, <2>1, <2>2 DEF GatesPass, Controls, remote, journal, loop, lease, others
  <1>9. CASE CommitPaths
    BY <1>9, <1>p DEF CommitPaths, Controls, Active, remote, journal, loop, lease, others
  <1>10. CASE RecordCommit
    BY <1>10, <1>p DEF RecordCommit, AfterValidation, Controls, Active, Stages,
                       PublishAttempts, remote, lease, others
  <1>11. CASE ReconcileUnchanged \/ ReconcileRewrites \/ AcceptReconciled
    BY <1>11, <1>p DEF ReconcileUnchanged, ReconcileRewrites, AcceptReconciled, Controls,
                       Active, Stages, remote, journal, loop, lease, others
  <1>12. CASE ObserveBranch \/ BaseUnchanged \/ BaseRebases
    BY <1>12, <1>p DEF ObserveBranch, BaseUnchanged, BaseRebases, Controls,
                       Active, Stages, remote, journal, loop, lease, others
  <1>13. CASE PushBegin
    <2>1. attempt' \in 1 .. PublishAttempts /\ pc' \in Active \cup {"stopped"}
      BY <1>13, <1>n DEF PushBegin, Published, Controls, Active
    <2> QED
      BY <1>13, <1>p, <1>h, <2>1 DEF PushBegin, Controls, remote, journal, others
  <1>14. CASE PushAccepted
    BY <1>14, <1>p DEF PushAccepted, Controls, Active, journal, loop, lease, others
  <1>15. CASE PushRefused
    <2>1. attempt' \in 1 .. PublishAttempts /\ pc' \in Active \cup {"stopped", "refused"}
      BY <1>15, <1>n DEF PushRefused, Controls
    <2> QED
      BY <1>15, <1>p, <2>1 DEF PushRefused, Controls, remote, journal, lease, others
  <1>16. CASE PushConfirm
    <2>1. attempt' \in 1 .. PublishAttempts /\ pc' \in Active \cup {"stopped"}
      BY <1>16, <1>n DEF PushConfirm, Published, Controls, Active
    <2> QED
      BY <1>16, <1>p, <2>1 DEF PushConfirm, Controls, remote, journal, lease, others
  <1>17. CASE FindPullRequest
    BY <1>17, <1>p DEF FindPullRequest, Controls, Active, remote, journal, loop, lease, others
  <1>18. CASE CreatePullRequest
    BY <1>18, <1>p DEF CreatePullRequest, Controls, Active, journal, loop, lease, others
  <1>19. CASE RecordPullRequest
    BY <1>19, <1>p DEF RecordPullRequest, Controls, Active, remote, loop, lease, others
  <1>20. CASE WorkflowsPass \/ AttachPullRequest
    BY <1>20, <1>p DEF WorkflowsPass, AttachPullRequest, Controls, Active,
                       remote, journal, loop, lease, others
  <1>21. CASE WorkflowsFail
    <2>1. cycle' \in 0 .. MaxCycles
      BY <1>21, <1>a DEF WorkflowsFail, Controls, PublicationAssumption
    <2> QED
      BY <1>21, <1>p, <2>1 DEF WorkflowsFail, Controls, Active, Stages, remote, journal, lease, others
  <1>22. CASE UNCHANGED vars
    BY <1>22, <1>p DEF vars, Controls, remote, journal, loop, lease, others
  <1> QED
    BY <1>1, <1>2, <1>3, <1>4, <1>5, <1>6, <1>7, <1>8, <1>9, <1>10, <1>11, <1>12, <1>13,
       <1>14, <1>15, <1>16, <1>17, <1>18, <1>19, <1>20, <1>21, <1>22
       DEF Next, Worker, Environment, Finished

LEMMA ControlsFollow == Spec => [](Controls /\ Histories /\ ForeignFollows)
  <1>1. Init => Controls
    BY PublicationAssumption DEF Init, Controls, Active, Stages, PublishAttempts,
                                 PublicationAssumption
  <1>2. Controls /\ Histories /\ ForeignFollows /\ [Next]_vars => Controls'
    BY NextControls
  <1> QED
    BY <1>1, <1>2, HistoriesFollow, PTL DEF Spec

\* Histories stay sequences of patches that somebody made, and the attempts, cycles
\* and sessions stay within their limits, across any rebases and restarts.
THEOREM TypeCorrect == Spec => []TypeOK
  <1>1. Controls /\ Histories => TypeOK
    BY HistoriesAreTyped DEF Controls, TypeOK
  <1> QED
    BY <1>1, ControlsFollow, PTL

-----------------------------------------------------------------------------
(* Ends.                                                                     *)
\* What is made and what is published are within the bounds.
CountsAreBounded ==
    /\ sessions \in 0 .. MaxSessions /\ Repairs \in 0 .. MaxCycles
    /\ Tries \in 0 .. PublishAttempts /\ StepsLeft \in 0 .. 24

LEMMA ControlsAreBounded ==
    ASSUME Controls
    PROVE  CountsAreBounded
  <1>1. sessions \in 0 .. MaxSessions
    BY DEF Controls
  <1>2. Repairs \in 0 .. MaxCycles
    BY PublicationAssumption DEF Controls, Repairs, PublicationAssumption
  <1>3. Tries \in 0 .. PublishAttempts
    BY DEF Controls, Tries, PublishAttempts
  <1>4. StepsLeft \in 0 .. 24
    BY DEF Controls, StepsLeft, Making, Active, Stages
  <1> QED
    BY <1>1, <1>2, <1>3, <1>4 DEF CountsAreBounded

Counted ==
    \/ sessions' > sessions
    \/ sessions' = sessions /\ Repairs' > Repairs
    \/ sessions' = sessions /\ Repairs' = Repairs /\ Tries' > Tries
    \/ /\ sessions' = sessions /\ Repairs' = Repairs /\ Tries' = Tries
       /\ StepsLeft' < StepsLeft

\* A commit is accepted as reconciled or as rebased on the base.
Accepting ==
    /\ pc = "accept" => stage \in {"reconcile", "base"}
    /\ pc = "base" => stage = "base"

LEMMA NextAccepting == Accepting /\ [Next]_vars => Accepting'
  <1>1. ASSUME Accepting, Worker PROVE Accepting'
    BY <1>1 DEF Accepting, Worker, Checkout, Session, GatesFail, GatesPass, CommitPaths,
         RecordCommit, AfterValidation, ReconcileUnchanged, ReconcileRewrites,
         AcceptReconciled, ObserveBranch, BaseUnchanged, BaseRebases, PushBegin, Moved,
         Published, PushAccepted, PushRefused, PushConfirm, FindPullRequest,
         CreatePullRequest, RecordPullRequest, WorkflowsPass, WorkflowsFail,
         AttachPullRequest
  <1>2. ASSUME Accepting, Environment \/ Finished \/ UNCHANGED vars PROVE Accepting'
    BY <1>2 DEF Accepting, Environment, BaseAdvances, ForeignPush, Stop, Hang, Resume, Finished,
                vars
  <1> QED
    BY <1>1, <1>2 DEF Next

LEMMA StepIsCounted ==
    ASSUME Controls, Accepting, Worker
    PROVE  Counted
  <1>t. /\ attempt \in 1 .. PublishAttempts /\ cycle \in 0 .. MaxCycles /\ sessions \in Nat
        /\ stage \in Stages /\ Accepting
    BY DEF Controls
  <1>m. ASSUME Moved, pc \in {"push", "pushing", "confirm"}, UNCHANGED <<sessions, cycle, stage>>
        PROVE  Counted
    BY <1>t, <1>m DEF Moved, Counted, Repairs, Tries, StepsLeft, Making, Stages, PublishAttempts
  <1>p. ASSUME pc' = Published, pc \in {"push", "confirm"},
               UNCHANGED <<sessions, cycle, stage, attempt>>
        PROVE  Counted
    BY <1>t, <1>p DEF Published, Counted, Repairs, Tries, StepsLeft, Making, Stages
  <1>1. CASE Checkout
    BY <1>1, <1>t DEF Checkout, Counted, Repairs, Tries, StepsLeft, Making
  <1>2. CASE Session
    BY <1>2, <1>t DEF Session, Counted
  <1>3. CASE GatesFail
    BY <1>3, <1>t DEF GatesFail, loop, Counted, Repairs, Tries, StepsLeft, Making, Stages
  <1>4. CASE GatesPass
    BY <1>4, <1>t DEF GatesPass, AfterValidation, loop, Counted, Repairs, Tries, StepsLeft,
                      Making, Stages, PublishAttempts
  <1>5. CASE CommitPaths
    BY <1>5, <1>t DEF CommitPaths, loop, Counted, Repairs, Tries, StepsLeft, Making, Stages
  <1>6. CASE RecordCommit
    BY <1>6, <1>t DEF RecordCommit, AfterValidation, Counted, Repairs, Tries, StepsLeft,
                      Making, Stages, PublishAttempts
  <1>7. CASE ReconcileUnchanged \/ ReconcileRewrites
    BY <1>7, <1>t DEF ReconcileUnchanged, ReconcileRewrites, loop, Counted, Repairs, Tries,
                      StepsLeft, Making, Stages
  <1>8. CASE AcceptReconciled
    BY <1>8, <1>t DEF Accepting, AcceptReconciled, loop, Counted, Repairs, Tries, StepsLeft, Making,
                      Stages, PublishAttempts
  <1>9. CASE ObserveBranch \/ BaseUnchanged
    BY <1>9, <1>t DEF ObserveBranch, BaseUnchanged, loop, Counted, Repairs, Tries,
                      StepsLeft, Making, Stages
  <1>10. CASE BaseRebases
    BY <1>10, <1>t DEF Accepting, BaseRebases, loop, Counted, Repairs, Tries, StepsLeft,
                       Making, Stages
  <1>11. CASE PushBegin
    <2>1. CASE remoteBranch = commit
      BY <1>11, <1>p, <2>1 DEF PushBegin
    <2>2. CASE remoteBranch # commit /\ Expected # <<>> /\ remoteBranch # Expected
      BY <1>11, <1>m, <2>2 DEF PushBegin
    <2>3. CASE pc' = "pushing" /\ UNCHANGED attempt
      BY <1>11, <1>t, <2>3 DEF PushBegin, Counted, Repairs, Tries, StepsLeft, Making, Stages
    <2> QED
      BY <1>11, <2>1, <2>2, <2>3 DEF PushBegin
  <1>12. CASE PushAccepted
    BY <1>12, <1>t DEF PushAccepted, loop, Counted, Repairs, Tries, StepsLeft, Making, Stages
  <1>13. CASE PushRefused
    <2>1. CASE remoteBranch # before
      BY <1>13, <1>m, <2>1 DEF PushRefused
    <2>2. CASE remoteBranch = before
      BY <1>13, <1>t, <2>2 DEF PushRefused, Counted, Repairs, Tries, StepsLeft, Making, Stages
    <2> QED
      BY <2>1, <2>2
  <1>14. CASE PushConfirm
    <2>1. CASE remoteBranch = commit
      BY <1>14, <1>p, <2>1 DEF PushConfirm
    <2>2. CASE remoteBranch # commit
      BY <1>14, <1>m, <2>2 DEF PushConfirm
    <2> QED
      BY <2>1, <2>2
  <1>15. CASE FindPullRequest \/ CreatePullRequest
    BY <1>15, <1>t DEF FindPullRequest, CreatePullRequest, loop, Counted, Repairs, Tries,
                       StepsLeft, Making, Stages
  <1>16. CASE RecordPullRequest \/ WorkflowsPass \/ AttachPullRequest
    BY <1>16, <1>t DEF RecordPullRequest, WorkflowsPass, AttachPullRequest, loop, Counted,
                       Repairs, Tries, StepsLeft, Making, Stages
  <1>17. CASE WorkflowsFail
    BY <1>17, <1>t DEF WorkflowsFail, Counted, Repairs
  <1> QED
    BY <1>1, <1>2, <1>3, <1>4, <1>5, <1>6, <1>7, <1>8, <1>9, <1>10, <1>11, <1>12, <1>13,
       <1>14, <1>15, <1>16, <1>17 DEF Worker

\* An execution of the worker makes a limited number of steps, whatever others
\* push and however often GitHub refuses: no loop of sessions, rebases, refused
\* pushes and CI repairs comes back to where it was (execute, publish_commit,
\* CI_REPAIR_ATTEMPTS).
THEOREM StepsCount == Spec => []CountsAreBounded /\ StepsAreCounted
  <1>1. Controls => CountsAreBounded
    BY ControlsAreBounded
  <1>2. Init => Accepting
    BY DEF Init, Accepting
  <1>3. Controls /\ Accepting /\ [Next]_vars => [Worker => Counted]_vars
    BY StepIsCounted
  <1> QED
    BY <1>1, <1>2, <1>3, NextAccepting, ControlsFollow, PTL DEF Spec, StepsAreCounted, Counted

-----------------------------------------------------------------------------
(* What is waited for.                                                       *)

WaitFollows ==
    \/ pc \in {"pull_request", "create_pr", "record_pr", "workflows", "attach", "done"}
    \/ stage = "ci" /\ pc \in {"session", "gates", "commit"}
    => IsPrefix(commit, remoteBranch)

LEMMA PrefixOfItself ==
    ASSUME NEW S, NEW s \in Seq(S)
    PROVE  IsPrefix(s, s)
  BY DEF IsPrefix

LEMMA PrefixOfMore ==
    ASSUME NEW S, NEW s \in Seq(S), NEW t \in Seq(S), NEW x \in S, IsPrefix(s, t)
    PROVE  IsPrefix(s, Append(t, x))
  <1>1. /\ Len(s) <= Len(t) /\ Len(Append(t, x)) = Len(t) + 1
        /\ SubSeq(s, 1, Len(s)) = SubSeq(t, 1, Len(s))
    BY DEF IsPrefix
  <1>2. SubSeq(Append(t, x), 1, Len(s)) = SubSeq(t, 1, Len(s))
    BY <1>1
  <1> QED
    BY <1>1, <1>2 DEF IsPrefix

LEMMA PrefixOfNothing ==
    ASSUME NEW S, NEW s \in Seq(S), NEW t, IsPrefix(s, <<>>)
    PROVE  IsPrefix(s, t)
  BY DEF IsPrefix

LEMMA NextWait ==
    ASSUME WaitFollows, Accepting, Histories, [Next]_vars
    PROVE  WaitFollows'
  <1>h. /\ commit \in Seq(Made) /\ remoteBranch \in Seq(Made) /\ remoteBase \in Seq(Made)
    BY DEF Histories
  <1>1. CASE ForeignPush
    <2> DEFINE p == <<"foreign", Cardinality(foreign) + 1>>
               C == Made \cup {p}
    <2>1. /\ remoteBranch' = Append(IF remoteBranch = <<>> THEN remoteBase ELSE remoteBranch, p)
          /\ UNCHANGED <<pc, stage, commit>>
      BY <1>1 DEF ForeignPush
    <2>2. commit \in Seq(C) /\ remoteBranch \in Seq(C) /\ remoteBase \in Seq(C) /\ p \in C
      BY <1>h
    <2> HIDE DEF p, C
    <2>3. ASSUME IsPrefix(commit, remoteBranch) PROVE IsPrefix(commit, remoteBranch')
      <3>1. CASE remoteBranch = <<>>
        BY <2>1, <2>2, <2>3, <3>1, PrefixOfNothing
      <3>2. CASE remoteBranch # <<>>
        BY <2>1, <2>2, <2>3, <3>2, PrefixOfMore
      <3> QED
        BY <3>1, <3>2
    <2> QED
      BY <2>1, <2>3 DEF WaitFollows
  <1>2. CASE PushBegin \/ PushConfirm
    <2>1. commit' = commit /\ remoteBranch' = remoteBranch
      BY <1>2 DEF PushBegin, PushConfirm, remote
    <2>2. \/ remoteBranch = commit
          \/ pc' \in {"reconcile", "stopped", "pushing"}
      BY <1>2 DEF PushBegin, PushConfirm, Moved
    <2> QED
      BY <1>h, <2>1, <2>2, PrefixOfItself DEF WaitFollows
  <1>3. CASE Checkout \/ Session \/ GatesFail
    BY <1>3 DEF WaitFollows, Checkout, Session, GatesFail, remote
  <1>5. CASE GatesPass
    BY <1>5 DEF WaitFollows, GatesPass, AfterValidation, remote
  <1>6. CASE CommitPaths \/ RecordCommit
    BY <1>6 DEF WaitFollows, CommitPaths, RecordCommit, AfterValidation, remote
  <1>7. CASE ReconcileUnchanged \/ ReconcileRewrites \/ AcceptReconciled \/ ObserveBranch
             \/ BaseUnchanged \/ BaseRebases
    BY <1>7 DEF WaitFollows, Accepting, ReconcileUnchanged, ReconcileRewrites, AcceptReconciled,
                ObserveBranch, BaseUnchanged, BaseRebases, remote
  <1>8. CASE PushAccepted \/ PushRefused
    BY <1>8 DEF WaitFollows, Moved, PushAccepted, PushRefused, remote
  <1>9. CASE FindPullRequest \/ CreatePullRequest \/ RecordPullRequest
             \/ WorkflowsPass \/ WorkflowsFail \/ AttachPullRequest
    BY <1>9 DEF WaitFollows, FindPullRequest, CreatePullRequest, RecordPullRequest,
                WorkflowsPass, WorkflowsFail, AttachPullRequest, remote
  <1>4. CASE BaseAdvances \/ Stop \/ Hang \/ Resume \/ UNCHANGED vars
    BY <1>4 DEF WaitFollows, BaseAdvances, Stop, Hang, Resume, vars, remote
  <1> QED
    BY <1>1, <1>2, <1>3, <1>4, <1>5, <1>6, <1>7, <1>8, <1>9
       DEF Next, Worker, Environment, Finished

\* What a run waits for, and what it opens its pull request of, is on the agent
\* branch, whoever else pushes to it (Repo::push_with_lease, wait_for_workflows).
THEOREM PublishedIsAwaited == Spec => []WaitsForPublished
  <1>1. Init => WaitFollows /\ Accepting
    BY DEF Init, WaitFollows, Accepting
  <1>2. WaitFollows => WaitsForPublished
    BY DEF WaitFollows, WaitsForPublished
  <1> QED
    BY <1>1, <1>2, NextWait, NextAccepting, HistoriesFollow, PTL DEF Spec

=============================================================================
