----------------------------- MODULE Publication -----------------------------
(***************************************************************************)
(* How a run publishes its work (src/runner.rs: execute, publish_commit,   *)
(* validate_reconciled_commit; src/git.rs: Repo; src/journal.rs): commits, *)
(* reconciliation with the remote agent branch, rebase onto the remote     *)
(* base, push, pull request and required workflows, while others add       *)
(* commits to both remote branches and the process may stop between any    *)
(* two steps and publish again from its journal.                           *)
(*                                                                         *)
(* A history is the sequence of patches from the root of the repository to *)
(* a commit and stands for that commit: an ancestor is a prefix, a rebase  *)
(* replays patches on another history, and a working tree is the history   *)
(* with the uncommitted patch at its end.  The reads and writes of a       *)
(* remote branch are steps of their own.                                   *)
(***************************************************************************)
EXTENDS Naturals, Sequences, SequencesExt

CONSTANTS
    MaxBase,        \* bound: commits others add to the base branch
    MaxForeign,     \* bound: commits others add to the agent branch
    MaxSessions,    \* bound: agent sessions, repairs included
    MaxCycles,      \* CI_REPAIR_ATTEMPTS
    MaxResumes      \* bound: attempts after the first

ASSUME PublicationAssumption ==
    /\ MaxBase \in Nat /\ MaxForeign \in Nat /\ MaxSessions \in Nat
    /\ MaxCycles \in Nat /\ MaxResumes \in Nat

VARIABLES
    remoteBase, remoteBranch,   \* the two branches on GitHub; <<>> is absent
    pullRequest,                \* "none" or "open" for the agent branch
    head,                       \* the local agent branch; <<>> is absent
    dirty,                      \* the uncommitted patch, or <<>>
    journalCommit, journalPR,   \* what the journal records; <<>>, "none" if nothing
    pc, stage,                  \* the step, and what the gates are run for
    commit,                     \* the commit this execution publishes
    attempt, cycle,             \* of publish_commit, of the CI repair loop
    baseLease, baseChanged,     \* the observed branch head; a base rebase was made
    before,                     \* the branch head push_with_lease saw first
    sessions, resumes,
    validated,                  \* trees that passed the quality gates
    foreign,                    \* patches others added to the agent branch
    unseen,                     \* those added after reconciliation and before
                                \* the observation of the branch head
    notes                       \* "duplicate": an open pull request was created again

journal == <<journalCommit, journalPR>>
remote == <<remoteBase, remoteBranch, pullRequest>>
others == <<foreign, unseen>>
loop == <<attempt, cycle>>
lease == <<baseLease, baseChanged, before>>
vars == <<remote, head, dirty, journal, pc, stage, commit, loop, lease, sessions,
          resumes, validated, others, notes>>

PublishAttempts == 3

Patches == ({"base"} \X (0..MaxBase)) \cup ({"foreign"} \X (1..MaxForeign))
           \cup ({"agent"} \X (1..MaxSessions))
Stages == {"implement", "reconcile", "base", "ci"}
Active == {"checkout", "session", "gates", "commit", "record", "reconcile",
           "accept", "observe", "base", "push", "pushing", "confirm",
           "pull_request", "create_pr", "record_pr", "workflows", "attach"}

TypeOK ==
    /\ {remoteBase, remoteBranch, head, commit, journalCommit, baseLease, before}
          \cup validated \subseteq Seq(Patches)
    /\ dirty \in Seq(Patches) /\ Len(dirty) <= 1
    /\ pullRequest \in {"none", "open"} /\ journalPR \in {"none", "open"}
    /\ pc \in Active \cup {"stopped", "refused", "done", "hung"}
    /\ stage \in Stages
    /\ attempt \in 1..PublishAttempts /\ cycle \in 0..MaxCycles
    /\ baseChanged \in {"no", "yes"}
    /\ sessions \in 0..MaxSessions /\ resumes \in 0..MaxResumes
    /\ unseen \subseteq foreign /\ foreign \subseteq Patches
    /\ notes \subseteq {"duplicate"}

Init ==
    /\ remoteBase = <<<<"base", 0>>>> /\ remoteBranch = <<>>
    /\ pullRequest = "none"
    /\ head = <<>> /\ dirty = <<>>
    /\ journalCommit = <<>> /\ journalPR = "none"
    /\ pc = "checkout" /\ stage = "implement" /\ commit = <<>>
    /\ attempt = 1 /\ cycle = 0
    /\ baseLease = <<>> /\ baseChanged = "no" /\ before = <<>>
    /\ sessions = 0 /\ resumes = 0
    /\ validated = {} /\ foreign = {} /\ unseen = {} /\ notes = {}

-----------------------------------------------------------------------------
(***************************************************************************)
(* Git.                                                                    *)
(***************************************************************************)
MergeBase(a, b) == LongestCommonPrefix({a, b})

\* git rebase --onto onto upstream: the patches after upstream are replayed, in
\* their order; one the new base already has is dropped.
Replayed(local, upstream, onto) ==
    {i \in Len(upstream) + 1 .. Len(local) : local[i] \notin ToSet(onto)}

Rebase(local, upstream, onto) ==
    LET kept   == Replayed(local, upstream, onto)
        Nth(n) == CHOOSE i \in kept : Cardinality({j \in kept : j <= i}) = n
    IN  onto \o [n \in 1 .. Cardinality(kept) |-> local[Nth(n)]]

-----------------------------------------------------------------------------
(***************************************************************************)
(* Others: they add commits to the two branches and never rewrite them.    *)
(***************************************************************************)
BaseAdvances ==
    /\ Len(remoteBase) <= MaxBase
    /\ remoteBase' = Append(remoteBase, <<"base", Len(remoteBase)>>)
    /\ UNCHANGED <<remoteBranch, pullRequest, head, dirty, journal, pc, stage,
                   commit, loop, lease, sessions, resumes, validated, others, notes>>

\* Between the reconciliation and the observation of the branch head.
Unobserved == \/ pc = "observe"
              \/ stage = "reconcile" /\ pc \in {"accept", "gates", "session",
                                                "commit", "record"}

ForeignPush ==
    /\ Cardinality(foreign) < MaxForeign
    /\ LET p == <<"foreign", Cardinality(foreign) + 1>> IN
          /\ remoteBranch' = Append(IF remoteBranch = <<>> THEN remoteBase
                                    ELSE remoteBranch, p)
          /\ foreign' = foreign \cup {p}
          /\ unseen' = IF Unobserved THEN unseen \cup {p} ELSE unseen
    /\ UNCHANGED <<remoteBase, pullRequest, head, dirty, journal, pc, stage, commit,
                   loop, lease, sessions, resumes, validated, notes>>

\* A failed call, a conflict (git rebase --abort restores the branch), exhausted
\* repairs, a lost lease or the death of the process: the local repository, the
\* journal and GitHub stay as they are.
Stop ==
    /\ pc \in Active /\ pc' = "stopped"
    /\ UNCHANGED <<remote, head, dirty, journal, stage, commit, loop, lease,
                   sessions, resumes, validated, others, notes>>

\* The steps that run git, or stop the sandbox, through capture, capture_with_env
\* or checked: a plain wait without a timeout that nothing cancels.
Unwatched == {"checkout", "session", "gates", "commit", "reconcile", "observe",
              "base", "push", "pushing", "confirm"}

\* Such a command does not return, before or after what it does.
Hang ==
    /\ pc \in Unwatched /\ pc' = "hung"
    /\ UNCHANGED <<remote, head, dirty, journal, stage, commit, loop, lease,
                   sessions, resumes, validated, others, notes>>

\* The run is executed again after a restart, which a hung worker needs, or
\* adopted by a later attempt.
Resume ==
    /\ pc \in {"stopped", "refused", "hung"} /\ resumes < MaxResumes
    /\ pc' = "checkout" /\ resumes' = resumes + 1
    /\ UNCHANGED <<remote, head, dirty, journal, stage, commit, loop, lease,
                   sessions, validated, others, notes>>

-----------------------------------------------------------------------------
(***************************************************************************)
(* execute: from the branch to a recorded commit.                          *)
(***************************************************************************)

\* checkout_or_create_branch, then RunJournal::recovery_plan.
Checkout ==
    /\ pc = "checkout"
    /\ head' = IF head = <<>> THEN remoteBase ELSE head
    /\ commit' = journalCommit
    /\ attempt' = 1 /\ cycle' = 0 /\ stage' = "implement"
    /\ pc' = IF journalCommit = <<>> THEN "session" ELSE "reconcile"
    /\ UNCHANGED <<remote, dirty, journal, lease, sessions, resumes, validated,
                   others, notes>>

\* run_agent_prompt: the agent may edit the working tree.
Session ==
    /\ pc = "session" /\ pc' = "gates"
    /\ sessions < MaxSessions /\ sessions' = sessions + 1
    /\ dirty' \in {dirty, <<<<"agent", sessions + 1>>>>}
    /\ UNCHANGED <<remote, head, journal, stage, commit, loop, lease, resumes,
                   validated, others, notes>>

GatesFail ==
    /\ pc = "gates" /\ pc' = "session"
    /\ UNCHANGED <<remote, head, dirty, journal, stage, commit, loop, lease,
                   sessions, resumes, validated, others, notes>>

\* Where publish_commit goes on after validate_reconciled_commit.
AfterValidation == IF stage = "reconcile" THEN "observe" ELSE "push"

Tree == IF dirty = <<>> THEN head ELSE head \o dirty

\* new_agent_paths decides what a passed validation leads to: a commit, the next
\* publication step, a CI repair that changed nothing, or a failed run.
GatesPass ==
    /\ pc = "gates"
    /\ validated' = validated \cup {Tree}
    /\ pc' = IF dirty # <<>> THEN "commit"
             ELSE CASE stage = "implement" -> "stopped"
                    [] stage = "ci"        -> "workflows"
                    [] OTHER               -> AfterValidation
    /\ UNCHANGED <<remote, head, dirty, journal, stage, commit, loop, lease,
                   sessions, resumes, others, notes>>

CommitPaths ==
    /\ pc = "commit" /\ pc' = "record"
    /\ head' = Tree /\ dirty' = <<>> /\ commit' = head'
    /\ UNCHANGED <<remote, journal, stage, loop, lease, sessions, resumes,
                   validated, others, notes>>

\* record_commit, then publish_commit from its first attempt, or on with it.
RecordCommit ==
    /\ pc = "record"
    /\ journalCommit' = commit /\ UNCHANGED journalPR
    /\ IF stage \in {"implement", "ci"}
       THEN attempt' = 1 /\ pc' = "reconcile"
       ELSE pc' = AfterValidation /\ UNCHANGED attempt
    /\ UNCHANGED <<remote, head, dirty, stage, commit, cycle, lease, sessions,
                   resumes, validated, others, notes>>

-----------------------------------------------------------------------------
(***************************************************************************)
(* publish_commit.                                                         *)
(***************************************************************************)

\* Where the branch ends after reconcile_remote_branch: unchanged when the
\* remote is absent or behind, the remote when it is ahead, and otherwise the
\* last local commit replayed on the remote.
Reconciled ==
    IF IsPrefix(remoteBranch, commit) THEN commit
    ELSE IF IsPrefix(commit, remoteBranch) THEN remoteBranch
    ELSE Rebase(commit, Front(commit), remoteBranch)

ReconcileUnchanged ==
    /\ pc = "reconcile" /\ IsPrefix(remoteBranch, commit)
    /\ pc' = "observe" /\ stage' = "reconcile"
    /\ UNCHANGED <<remote, head, dirty, journal, commit, loop, lease, sessions,
                   resumes, validated, others, notes>>

\* A dirty tree makes git rebase refuse, and may make the fast-forward refuse.
ReconcileRewrites ==
    /\ pc = "reconcile" /\ ~IsPrefix(remoteBranch, commit)
    /\ head = commit
    /\ dirty = <<>> \/ IsPrefix(commit, remoteBranch)
    /\ head' = Reconciled /\ commit' = head'
    /\ pc' = "accept" /\ stage' = "reconcile"
    /\ UNCHANGED <<remote, dirty, journal, loop, lease, sessions, resumes,
                   validated, others, notes>>

\* Mutant: the reconciled commit is recorded and not validated.
AcceptUnvalidated ==
    /\ pc = "accept"
    /\ journalCommit' = commit /\ UNCHANGED journalPR
    /\ pc' = AfterValidation
    /\ UNCHANGED <<remote, head, dirty, stage, commit, loop, lease, sessions,
                   resumes, validated, others, notes>>

\* validate_reconciled_commit: the new commit is recorded, then the gates run.
AcceptReconciled ==
    /\ pc = "accept" /\ pc' = "gates"
    /\ journalCommit' = commit /\ UNCHANGED journalPR
    /\ UNCHANGED <<remote, head, dirty, stage, commit, loop, lease, sessions,
                   resumes, validated, others, notes>>

\* remote_branch_head: the SHA the force-with-lease is bound to.
ObserveBranch ==
    /\ pc = "observe" /\ pc' = "base"
    /\ baseLease' = remoteBranch /\ stage' = "base"
    /\ UNCHANGED <<remote, head, dirty, journal, commit, loop, baseChanged, before,
                   sessions, resumes, validated, others, notes>>

\* Mutant: the head of the branch is not compared with the commit.
BaseUnchangedUnchecked ==
    /\ pc = "base" /\ IsPrefix(remoteBase, commit)
    /\ pc' = "push" /\ baseChanged' = "no"
    /\ UNCHANGED <<remote, head, dirty, journal, stage, commit, loop, baseLease,
                   before, sessions, resumes, validated, others, notes>>

\* rebase_onto_remote_base refuses a branch whose head is not the commit.
BaseUnchanged ==
    /\ pc = "base" /\ head = commit /\ IsPrefix(remoteBase, commit)
    /\ pc' = "push" /\ baseChanged' = "no"
    /\ UNCHANGED <<remote, head, dirty, journal, stage, commit, loop, baseLease,
                   before, sessions, resumes, validated, others, notes>>

\* The range after the merge base is replayed; a branch without commits of its
\* own is refused.
BaseRebases ==
    /\ pc = "base" /\ head = commit /\ ~IsPrefix(remoteBase, commit)
    /\ MergeBase(commit, remoteBase) # commit
    /\ head' = Rebase(commit, MergeBase(commit, remoteBase), remoteBase)
    /\ commit' = head'
    /\ pc' = "accept" /\ baseChanged' = "yes"
    /\ UNCHANGED <<remote, dirty, journal, stage, loop, baseLease, before, sessions,
                   resumes, validated, others, notes>>

Expected == IF baseChanged = "yes" THEN baseLease ELSE <<>>

\* publish_commit on RemoteBranchMoved.
Moved == IF baseChanged = "no" /\ attempt < PublishAttempts
         THEN attempt' = attempt + 1 /\ pc' = "reconcile"
         ELSE pc' = "stopped" /\ UNCHANGED attempt

Published == IF cycle = 0 THEN "pull_request" ELSE "workflows"

\* push_with_lease reads the branch first.
PushBegin ==
    /\ pc = "push" /\ before' = remoteBranch
    /\ IF remoteBranch = commit THEN pc' = Published /\ UNCHANGED attempt
       ELSE IF Expected # <<>> /\ remoteBranch # Expected THEN Moved
       ELSE pc' = "pushing" /\ UNCHANGED attempt
    /\ UNCHANGED <<remote, head, dirty, journal, stage, commit, cycle, baseLease,
                   baseChanged, sessions, resumes, validated, others, notes>>

\* Mutant: the push is forced without the lease.
AcceptedForced == Expected # <<>> \/ IsPrefix(remoteBranch, head)

\* git accepts a push that matches the lease, or one that fast-forwards.
Accepted == IF Expected # <<>> THEN remoteBranch = Expected
            ELSE IsPrefix(remoteBranch, head)

PushAccepted ==
    /\ pc = "pushing" /\ Accepted
    /\ remoteBranch' = head /\ pc' = "confirm"
    /\ UNCHANGED <<remoteBase, pullRequest, head, dirty, journal, stage, commit,
                   loop, lease, sessions, resumes, validated, others, notes>>

\* Mutant: a refused push is tried again without counting the attempt.
PushRefusedForEver ==
    /\ pc = "pushing" /\ pc' = "reconcile"
    /\ UNCHANGED <<remote, head, dirty, journal, stage, commit, loop, lease,
                   sessions, resumes, validated, others, notes>>

\* GitHub may refuse any push; it counts as a race only if the branch has moved
\* since push_with_lease began.
PushRefused ==
    /\ pc = "pushing"
    /\ IF remoteBranch # before THEN Moved
       ELSE pc' = "refused" /\ UNCHANGED attempt
    /\ UNCHANGED <<remote, head, dirty, journal, stage, commit, cycle, lease,
                   sessions, resumes, validated, others, notes>>

\* The branch is read again after the push.
PushConfirm ==
    /\ pc = "confirm"
    /\ IF remoteBranch = commit THEN pc' = Published /\ UNCHANGED attempt
       ELSE Moved
    /\ UNCHANGED <<remote, head, dirty, journal, stage, commit, cycle, lease,
                   sessions, resumes, validated, others, notes>>

-----------------------------------------------------------------------------
(***************************************************************************)
(* The pull request and the required workflows.                            *)
(***************************************************************************)

\* Mutant: an open pull request is not looked up before one is created.
FindNothing ==
    /\ pc = "pull_request"
    /\ pc' = IF journalPR = "open" THEN "record_pr" ELSE "create_pr"
    /\ UNCHANGED <<remote, head, dirty, journal, stage, commit, loop, lease,
                   sessions, resumes, validated, others, notes>>

\* The pull request of the recovery plan, or the open one of the branch.
FindPullRequest ==
    /\ pc = "pull_request"
    /\ pc' = IF journalPR = "open" \/ pullRequest = "open" THEN "record_pr"
             ELSE "create_pr"
    /\ UNCHANGED <<remote, head, dirty, journal, stage, commit, loop, lease,
                   sessions, resumes, validated, others, notes>>

\* GitHub refuses a second open pull request of the branch.
CreatePullRequest ==
    /\ pc = "create_pr"
    /\ pc' = IF pullRequest = "open" THEN "stopped" ELSE "record_pr"
    /\ pullRequest' = "open"
    /\ notes' = IF pullRequest = "open" THEN notes \cup {"duplicate"} ELSE notes
    /\ UNCHANGED <<remoteBase, remoteBranch, head, dirty, journal, stage, commit,
                   loop, lease, sessions, resumes, validated, others>>

RecordPullRequest ==
    /\ pc = "record_pr" /\ pc' = "workflows"
    /\ journalPR' = "open" /\ UNCHANGED journalCommit
    /\ UNCHANGED <<remote, head, dirty, stage, commit, loop, lease, sessions,
                   resumes, validated, others, notes>>

\* All required workflows of the commit passed, or never ran.
WorkflowsPass ==
    /\ pc = "workflows" /\ pc' = "attach"
    /\ UNCHANGED <<remote, head, dirty, journal, stage, commit, loop, lease,
                   sessions, resumes, validated, others, notes>>

\* A repairable failure starts a CI repair session.
WorkflowsFail ==
    /\ pc = "workflows" /\ cycle < MaxCycles
    /\ pc' = "session" /\ stage' = "ci" /\ cycle' = cycle + 1
    /\ UNCHANGED <<remote, head, dirty, journal, commit, attempt, lease, sessions,
                   resumes, validated, others, notes>>

AttachPullRequest ==
    /\ pc = "attach" /\ pc' = "done"
    /\ UNCHANGED <<remote, head, dirty, journal, stage, commit, loop, lease,
                   sessions, resumes, validated, others, notes>>

-----------------------------------------------------------------------------
Worker ==
    \/ Checkout \/ Session \/ GatesFail \/ GatesPass \/ CommitPaths \/ RecordCommit
    \/ ReconcileUnchanged \/ ReconcileRewrites \/ AcceptReconciled \/ ObserveBranch
    \/ BaseUnchanged \/ BaseRebases
    \/ PushBegin \/ PushAccepted \/ PushRefused \/ PushConfirm
    \/ FindPullRequest \/ CreatePullRequest \/ RecordPullRequest
    \/ WorkflowsPass \/ WorkflowsFail \/ AttachPullRequest

Environment == BaseAdvances \/ ForeignPush \/ Stop \/ Hang \/ Resume

Finished == pc \in {"stopped", "refused", "done", "hung"} /\ UNCHANGED vars

Next == Worker \/ Environment \/ Finished

Spec == Init /\ [][Next]_vars

\* The worker goes on or fails: calls, sessions, gates and the wait for the
\* workflows have timeouts.  Commands of git have none, so Hang may come instead.
FairSpec == Spec /\ WF_vars(Worker \/ Stop)

-----------------------------------------------------------------------------
(***************************************************************************)
(* Properties.                                                             *)
(***************************************************************************)

\* What an uninterrupted execution pushes has passed the quality gates as a whole,
\* whatever reconciliation, base rebase, repair or retry came between the agent
\* session and the push (publish_commit, validate_reconciled_commit).
UninterruptedPushIsValidated == resumes = 0 /\ pc = "pushing" => head \in validated

\* The branch that is pushed is the commit the journal records: no crash after a
\* push leaves GitHub ahead of the journal.
PushedIsJournaled == pc = "pushing" => head = commit /\ journalCommit = commit

\* Commits of others stay on the agent branch, through reconciliation, rebases
\* and forced pushes, except those that came after the reconciliation and before
\* the observation the force-with-lease is bound to.
ForeignWorkSurvives == foreign \ unseen \subseteq ToSet(remoteBranch)

\* The pull request is opened, and the workflows are waited for, for a commit that
\* is on the agent branch, after a CI repair and after a lost race too.
WaitsForPublished ==
    pc \in {"pull_request", "create_pr", "record_pr", "workflows", "attach", "done"}
        => IsPrefix(commit, remoteBranch)

\* No attempt asks for a second pull request while one of this branch is open, also
\* when the process died between opening and recording it.
OnePullRequest == "duplicate" \notin notes

\* publish_commit ends, or hangs in a command of git: its retries are bounded, so no
\* race with others keeps it going for ever.
PublicationEnds ==
    pc = "reconcile" ~> pc \in {"pull_request", "workflows", "stopped", "refused", "hung"}

\* Every step of the worker is one of a limited number, whatever GitHub and the
\* others do: the steps that are left until the work goes back to an earlier one
\* (the most there can be), and the counter that then went up.
Making == {"session", "gates", "commit", "record"}

StepsLeft ==
    LET Since(n) == CASE pc = "gates" -> n + 2 [] pc = "commit" -> n + 1 [] OTHER -> n
    IN CASE pc = "checkout" -> 24
         [] pc \in Making -> Since(CASE stage = "reconcile" -> 16 [] stage = "base" -> 10
                                     [] OTHER -> 21)
         [] pc = "reconcile" -> 20
         [] pc = "accept" -> IF stage = "reconcile" THEN 19 ELSE 13
         [] pc = "observe" -> 15 [] pc = "base" -> 14
         [] pc = "push" -> 9 [] pc = "pushing" -> 8 [] pc = "confirm" -> 7
         [] pc = "pull_request" -> 6 [] pc = "create_pr" -> 5 [] pc = "record_pr" -> 4
         [] pc = "workflows" -> 3 [] pc = "attach" -> 2 [] OTHER -> 0

\* The attempts of publish_commit for the commit that is made or published, and
\* the CI repairs of this execution.
Tries == IF pc = "checkout" \/ (pc \in Making /\ stage \in {"implement", "ci"})
         THEN 0 ELSE attempt
Repairs == IF pc = "checkout" THEN 0 ELSE cycle

StepsAreCounted ==
    [][Worker =>
         \/ sessions' > sessions
         \/ sessions' = sessions /\ Repairs' > Repairs
         \/ sessions' = sessions /\ Repairs' = Repairs /\ Tries' > Tries
         \/ /\ sessions' = sessions /\ Repairs' = Repairs /\ Tries' = Tries
            /\ StepsLeft' < StepsLeft]_vars

-----------------------------------------------------------------------------
(***************************************************************************)
(* What the documentation promises and the code does not keep.             *)
(***************************************************************************)

\* No commit of another is overwritten (docs/architecture.md: "another worker's
\* movement causes a safe stop instead of an overwrite").
NoForeignWorkLost == foreign \subseteq ToSet(remoteBranch)

AgentWork(h) == {p \in ToSet(h) : p[1] = "agent"}

\* Reconciliation keeps the whole range of agent commits (docs/architecture.md:
\* "rebases the complete agent commit range").
CompleteRangeKept ==
    [][(pc \in {"reconcile", "base"}) =>
          AgentWork(commit) \subseteq AgentWork(commit')]_vars

\* Whatever is pushed has been validated, also after a restart
\* (docs/architecture.md: "Changed commits always pass local validation again
\* before publication").
PushIsValidated == pc = "pushing" => head \in validated

\* A restarted worker finds its branch at the commit it resumes from
\* (docs/architecture.md: "A restarted worker derives a recovery plan and
\* reconciles existing Git and GitHub state").
ResumedBranchIsTheCommit == pc = "base" => head = commit

\* A publication that saw a diverged branch is retried while attempts remain
\* (docs/operations.md: "retries a normal push up to three times").
DivergenceIsRetried ==
    pc = "refused" /\ baseChanged = "no" /\ ~IsPrefix(before, commit)
        => attempt = PublishAttempts

=============================================================================
