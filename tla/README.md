# A TLA+ verification of rustgrid-agent

`rustgrid-agent` is a worker: it takes runs RustGrid assigned to it, executes a
coding agent in a Docker Sandbox for each, and publishes the result as a pull
request. This directory models the parts whose correctness depends on the order
of steps: threads, remote calls that may fail or lose their answer, crashes and
restarts. Paths below are relative to the repository (`src/runner.rs` is listed
as `src/src/runner.rs` in `PROJECT.json`).

## 1. The system

### Components, their state and their operations

| Component (source) | State | Operations | Module |
|---|---|---|---|
| Coordinator (`runner.rs` watch_impl/serve_impl, `coordinator.rs`, `shutdown.rs`) | run threads, started run ids, health, signal flags | resume assigned runs, heartbeat, list, start, reap, wait, drain, join | `Coordinator`, `WorkerSlots` |
| Run supervision (`runner.rs` execute_claimed, `supervisor.rs`) | atomic flags, lease confirmation clock | renew, observe, give up; read flags, stop, join, resolve | `RunSupervision`, `LeaseWindow` |
| Lifecycle and finalization (`lifecycle.rs`, `outcome.rs`, `finalization.rs`, `reporting.rs`) | phase, outcome; run and ticket on the control plane | set_phase, resolve, fail, fail_retryable, cancel, update_run | `RunPhase`, `RunSupervision` |
| Executor (`executor.rs`) | sandbox, journaled name | prepare, retain, destroy, reconcile_orphans | `RunSupervision` |
| Publication (`runner.rs` publish_commit, `git.rs`, `publishing.rs`, `github.rs`) | local branch, remote branches, pull request | reconcile, rebase, validate, push with lease, open pull request, wait for workflows, repair | `Publication` |
| Journal (`journal.rs`, `workspace.rs`) | one file per run: phase, commit, pull request, executor | record, recovery_plan, adopt | fields inside `RunSupervision`, `Publication` |
| Execution protocol, runner (`execution_protocol/runner.rs`, `store.rs`) | event stream, unresolved intent, authority fence | load, decide, append, persist an intent, perform, reconcile, commit, report | `EffectOutbox`, `EffectOnce` |
| Execution protocol, reducer (`reducer.rs`, `model.rs`) | one aggregate per attempt: stage, graph of nodes, calls and budgets, proofs, result | decide, append_event | `ProtocolGraph`, `ProtocolInvariants`, `ExecutionProtocol`, `ReviewedDelivery` |
| - profile and discovery (`profile.rs`, `discovery.rs`) | searches, candidates, file evidence, questions, impact map | search, read, resolve, map, converge | `ProtocolDiscovery`, `ProtocolGrounding` |
| - planning (`planning.rs`) | latest candidate, accepted plan | validate a candidate, materialize its graph, converge | `ProtocolPlan`, `ProtocolPlanning` |
| - mutation (`mutation.rs`, `implementation.rs`) | per target: context, attempts, transaction | build a context, propose, preflight, apply, verify, retry, rebuild | `ProtocolMutation` |
| - validation (`validation.rs`) | runs and evidence of the gates, failure, repairs | schedule, judge, classify, repair, invalidate, rerun | `ProtocolValidation` |
| - process of a gate (`validation_process.rs`) | child, its group, two readers, start and completion in the journal | spawn, poll, terminate, join, retain, record | `ValidationProcess`, `GateRun` |
| - review and publication (`review.rs`, `publication.rs`) | drafts, findings, eligibility; effects and their observations | review, decide, commit, push, open | `ProtocolReview`, `ProtocolPublication` |
| - terminal delivery (`terminal_delivery.rs`) | a journal of attempts and observations | decide, observe, append | `TerminalDelivery`, `CallbackOnce` |
| Telemetry, tokens, trace, auth | outbox files, caches | emit, deliver, replay | not modelled |
| Manifest, mission, prompts, configuration, agent processes | none they race on | parse, format, spawn | not modelled |

### How they interact

The coordinator polls RustGrid by calls and gives each run a thread. The thread
starts a supervisor thread that shares nothing with it but atomic flags
(`running`, `lease_lost`, `timed_out`, stop) and the run row's version, which
both need for their updates. The execution closure works with the sandbox, the
local repository and GitHub; what must survive the process goes into the
journal. When the closure returns, the flags are read, the supervisor is stopped
and joined, the outcome is resolved from the flags and the closure's result, and
finalization reports it: event, comment, ticket, run, one call after the other.

The execution protocol is a second, event-sourced way of executing an attempt. It is
compiled and tested and not yet called by the coordinator. Its runner talks to a
store and to an effect adapter through two traits; every write and every effect
carries the authority fence (lease epoch, cancellation) that was loaded with the
stream. The reducer is a pure function of the events: `decide` names the next event,
action or effect, and `append_event` checks it again, by rules of its own, before it
becomes state. A model call is prepared, admitted, reserved, dispatched and reconciled;
only a consumed one may be followed by an observation. The process of a gate is run by an
adapter that records its start and its completion through the same journal. The result of
an attempt goes to the backend by a callback with a journal of its own.

### What is hard

- *Interleaving*: the flags are read before the join, so a loss found in between
  is not seen; a renewal racing a terminal update for the row version.
- *Lost answers*: a renewal or an update that RustGrid applied and the worker
  believes failed.
- *Restart*: between any two of journal write, git ref update, push, pull
  request, sandbox creation and run update.
- *Others*: they push to the agent branch and to the base; RustGrid reassigns
  runs, lists a second attempt of a ticket that is still in flight, expires leases.
- *Stale reads*: slots counted before the assignments are listed, the branch head
  that binds a forced push, the commit the workflows are waited for.
- *Unknown outcomes*: a store write or an effect of the protocol whose answer was
  lost may land later, under another worker's lease, and must not be repeated.
- *Two rules for one step*: `decide` and `append_event` must agree in every state, or an
  attempt that asks for a refused event asks for ever.
- *Evidence that goes stale*: a repair, a rebuilt context or drift changes the files under
  checks, reviews and plans that cite them.
- *A process and its descendants*: it may exit, hang, fork or outlive its group while two
  readers drain its pipes and the agent is cancelled, loses its lease or dies.
- *Ending*: every wait must end under a signal, a lost lease or a timeout, and
  every retry loop must be bounded. git and sbx commands are waited for without either.

`PROJECT.json` lists each hazard at its line with the property aimed at it.

### What makes the components correct

- *Coordinator*: a run begins once in a process; one attempt of a ticket at a
  time; never more runs than slots; assigned runs are eventually started; a signal
  ends the process; only a failed call abandons threads; draining is final.
- *Supervision*: a loss found during the work leaves no terminal effect; the
  supervisor is gone before reporting; sandboxes outlive everything but success;
  ticket and run agree; interrupted work stops and finished work is reported, unless a
  git or sbx command hangs.
- *Lease clock*: a worker that hears nothing stops within a bounded time, and
  before its lease can be granted again when rounds are short.
- *Effect outbox*: an effect is intended, performed and observed once and in this
  order whoever resumes it; a pending intent is always accepted; none stays open.
- *Execution protocol*: a plan changes only what was read for a criterion it serves; node
  and mission budgets agree and hold; a gate counts only for the files as they are; what is
  published passed every gate and was found eligible, in order and once; an attempt that
  is blocked does nothing more; no stage stalls.
- *Process of a gate*: nothing of it runs on; the answer agrees with the journal; a pass
  is earned up to lost output; output stays within its limit; the adapter returns unless
  the process outlives its kill.
- *Terminal delivery*: the backend has the result once; failed means that it will not
  arrive; the delivery settles.
- *Publication*: pushed trees are validated and journaled; the commits of others
  survive; one pull request; workflows are awaited for what is published; ends.

## 2. Modules and their correspondence to the code

**RunPhase** is the table `LifecyclePhase::can_transition_to`, `Reporter::set_phase`
(a refused change is silently ignored) and `RunOutcome::resolve` as operators.

**RunSupervision** is one run. `pc` is the program point of the execution thread
(each remote call, each flag read, each journal write is a step); `sup` that of
the supervisor; `flags` are the atomics; `lease`, `runStatus`, `ticket`, `row`
are the control plane; `phase`, `executor`, `commit`, `sandbox` survive
`Crash`/`Restart`. `WorkFails` lets any step of the work fail with every error the
code can produce there. `kind` separates a direct operation (no sandbox) from a
delegated run. `notes` and `terminalWrites` are observations that no step reads.
`Hang` is a git or sbx command that does not return: `capture`, `capture_with_env` and
`checked` (`command.rs:110`, 325, 352) wait for the command without a timeout and without
a look at the running flag. It can happen at every step that runs one (`Unwatched`), in the
work and in the finalization, and only a crash of the worker ends it.

**LeaseWindow** refines the abstract rounds of RunSupervision to a clock: `age`
counts from the moment the control plane granted, `unconfirmed` from the moment
the worker heard. All clocks are differences, so no bound on time is needed.

**Publication** represents a commit by the sequence of patches from the root: an
ancestor is a prefix, a rebase replays patches. `publish_commit` is `reconcile`,
`accept`, `gates`, `observe`, `base`, `push`, `pushing`, `confirm`, and each read
or write of a remote branch is a step between which others may push. Every command of git
may `Hang`, before or after what it does, and then only a restart goes on. `foreign`,
`unseen`, `validated` and `notes` are observations.

**WorkerSlots** is the abstract promise: `Begin` only if the run was not begun, no
run of its ticket is busy and there is room. **Coordinator** is `watch_impl`, one
step per call, with threads, the lists RustGrid may return in any order
(`Selections`), failing calls (`api`), signals, and three modes of starting it.
`SlotsSpec` instantiates WorkerSlots with `busy <- InFlight, spent <- started`.
**MCCoordinator** supplies runs and tickets.

**EffectOutbox** is `run_once` and its two sister entry points, a step per crossing of
a boundary. `revision`, `decision`, `intent`, `result` are the store; `view` is what a
call loaded and goes on to use, while the store, the lease and the cancellation
change under it. `late` holds writes whose answer was lost and that may still land;
`wire` the effect requests that may. `Owns` is the compare-and-swap of every store
write, `Authorised` what the adapter enforces. The reducer is a choice of its next
decision at each event, since the runner uses nothing else of it. `done` and
`performed` are observations. Three things are assumed because the traits demand
them: a worker without the lease is served a fence that says so (the runner knows
its authority from the store alone); reconcile answers "not performed" only when no
request of the current lease is still on its way; a store refuses every append
while an intent is open. A store or adapter without them can perform an effect twice.
**EffectOnce** is the abstract promise, four counters.

The execution protocol is one state machine in a chain of modules, each extending the one
before and adding one variable and the actions of its stage.
**ProtocolGraph** is what the stages share: nodes and their states, proofs by kind, node
and repository revision, the one open model call and its life, the ledger of calls and
cost per node and for the mission, the transitions of the position and the terminal
result. **ProtocolDiscovery** is profiling and discovery, **ProtocolPlan** a candidate plan
and what is wrong with it, **ProtocolPlanning** the node that accepts one,
**ProtocolMutation** the targets, **ProtocolValidation** the gates and their repairs,
**ProtocolReview** the two reviews and the eligibility decision, **ProtocolPublication** the
three effects. Where `decide` and `append_event` state a condition twice, the action takes
both, and where they disagree the two are kept apart (`MustConverge`, `MayConverge`).
**ProtocolInvariants** is `validate_invariants`: what the stages keep must belong together
(graph, calls and accounts, revision, plan, evidence, review, publication) before and
after every event, with the three windows in which a verified repair or adopted drift has
moved the revision and validation or review has not followed yet. An aggregate that fails
it would refuse every further event; `AggregateIsValid` says that none is reached.
**ProtocolGrounding** composes the stages up to planning, **ExecutionProtocol** all of them;
`DeliverySpec` maps the whole to **ReviewedDelivery**: content that passed every gate is
approved, changed no more, published by three operations and reported as what it is. The
**MC** modules supply targets, gates, budgets and the plans a model may propose.

**ValidationProcess** is `run_validation_process`, one step per system call, journal write
and look at the authority, with a reader per pipe, the child, a descendant that may keep a
pipe open, and the crash of the agent; then `from_completed`, which judges the output, and
the reducer's check of the evidence. Killing the group (`Kills`) and waiting for the process
(`Reaped`) are two steps: the kill may fail, or the process outlive it (`Defied`), and the wait
has no limit. The parser sees the lines that were read and retained, and where output was lost
any part of them (`Seen`): by `OutputLost` the readers stopped before the end or the limit cut. **GateRun** is what a gate promises: it starts before
it completes and is judged once, by a completion.

**TerminalDelivery** is the projection of `terminal_delivery.rs`: `journal` is what
`derive_status` reads, `Fits` and `Extended` what `append` accepts, `courier` a worker between
loading the journal and appending what it observed. Transport, backend and the workers are
external: the repository has none yet. **CallbackOnce** is the promise.

The `*_proofs` modules hold the theorems of the module of the same name;
**ExecutionProtocolInductive** holds the inductive invariant of the largest. Operators
whose comment begins with "Mutant:" are plausible wrong versions of the definition
below them. The specifications do not use them; each property of a passing run is
violated when the matching one is put in.

## 3. Runs

| Run | Bounds | What it shows |
|---|---|---|
| supervision_safety | 1 tolerated round, 1 repair, 1 restart, both kinds | LossDuringWorkSilencesRun, SandboxKeptUntilSuccess, SuccessHandsOver, CancelledRunFreesTicket, SupervisionEndsFirst, UninterruptedPhases |
| supervision_liveness | no restart | InterruptedWorkStops, FinishedWorkEnds, both unless a git or sbx command hangs |
| lease_window | heartbeat 3, lease 12, lag 2 | UncertaintyBounded, WithinLeaseIfShort |
| publication | 1 base commit, 2 foreign commits, 3 sessions, 1 CI repair, 1 resume | UninterruptedPushIsValidated, ForeignWorkSurvives, PushedIsJournaled, OnePullRequest, and that publish_commit ends or hangs in a command of git |
| publication_overwrite (violated) | 1 foreign commit | a commit that lands between reconciliation and observation is overwritten |
| coordinator_slots | 3 runs of 2 tickets, 2 slots, watch and hosted, 1 restart | Coordinator implements WorkerSlots; OnlyFailedCallsAbandon |
| coordinator_liveness | 1 slot, three modes | AssignedRunsStart, SignalsEndTheProcess, HostedWorkerEnds |
| effect_outbox | 2 workers, 4 events (up to two effects), 2 lease epochs, one cancellation | EffectOutbox implements EffectOnce; NeverCorrupt, FinishedIsCommitted, IntentsAreResolved |
| protocol_grounding | 2 criteria, 2 files and a new one, 2 targets, one after the other; 5 discovery, 2 planning, 9 mission calls | PlanRestsOnEvidence, BudgetIsKept, GroundingEnds |
| execution_protocol | 2 independent targets, 3 gates on 2 nodes, up to 4 repair nodes, 8 mission calls | Execution implements ReviewedDelivery; AggregateIsValid, ReviewCanBegin, SucceededChecksAreCurrent, ActiveCheckCanGoOn, BlockedIsFinal; no deadlock before the result |
| validation_process | 2 streams of 1 or 3 units, limits 1 and 2 | ValidationProcess implements GateRun; ProcessesAreStopped, AnswerMatchesJournal, PassIsEarned, OutputIsBounded, AdapterReturns |
| terminal_delivery | 2 workers, 3 attempts, 2 reconciliations | TerminalDelivery implements CallbackOnce, with the liveness of settling |

Why the bounds are enough: `UncertaintyRounds = 1` gives a tolerated and a fatal
unavailable renewal; more rounds repeat the first. One repair (`MaxCycles`) takes
every backward edge of the phase table; one restart finds every durable state the
first process can leave, and a second one nothing the first could not. Two foreign
commits are one that reconciliation sees and one that it does not; three sessions
are an implementation, a validation repair and a CI repair; a run with four
sessions or two base commits was checked too (about 2 million states) and shows
nothing else. Two runs of one ticket and one of another, against one or two slots, give
every relation of candidates to capacity. Four events are the profile, two that may be
effects, and the result, so that what one effect left behind meets the next one;
two epochs are a lease and its successor, held by the same worker or another.

In the protocol, two criteria give a map that misses one, two files one that is read and
one that is not, or one found for each criterion; five discovery calls leave a rejected or
released call in every phase; the discovery cost limit of 4 lets cost run out before calls.
A chosen set of proposals (`MCProposals`) holds a plan for every rule of `ProtocolPlan`.
In the composed run discovery is small (one criterion and file) and calls cost 1, since
`protocol_grounding` covers both; three gates on two nodes are the least in which a rerun
belongs to another node than the first invalidated gate; eight calls pay for three
repairs, and a fourth repair node shows the limit. Attempts and page, release, rebuild and
operation limits of 2 (rebuilds 1, runs of a gate 3) give a first, a retried and a
refused one. Two streams of 1 and 3 against limits of 1 and 2 give streams that fit, are
cut, and share an odd limit. Three attempts and two reconciliations give each budget a
step inside and one at its end; two workers give every overlap of two decisions on one
journal. What the bounds cannot show, the
theorems of section 5 state for every value of them.

Deadlock is checked in every run but two: the process of a gate and a delivery end.
`Finished`, `Stopped` and the stuttering of an exited worker under its environment are the
ends of the others. In `execution_protocol` deadlock freedom is a result of its own: every
state in which the attempt has no result has a step.

## 4. Fairness

- `RunSupervision!FairSpec`: weak fairness of the supervisor thread, of the steps
  that wait for remote calls (`Bounded`; the client has a request timeout and finitely
  many retries), and of `WorkCancelled` (sessions, gates and polls look at the running
  flag every slice, `command.rs:231`). A git or sbx command ends, fails or hangs: `Hang`
  takes the thread where no fairness reaches it, so none is assumed to return. Nothing is
  assumed of agents, gates or workflows, which may run for ever, of the control plane, or
  of crashes. `InterruptedWorkStops` and `FinishedWorkEnds` therefore end in "or hung";
  what is left of them is that no session, gate, poll, join or remote call is a wait
  without end. (A cancelled capture also joins its readers without a limit: a descendant
  that holds the pipe is a hang as well.)
- `Publication!FairSpec`: the worker goes on, fails or hangs (`Worker \/ Stop`, with
  `Hang`); it never relies on others ceasing to push or on a push being accepted.
  `PublicationEnds` is thus about the retries, which end whatever others do.
- `Coordinator!LiveSpec`: the loop's thread runs, a run's thread ends (the two
  liveness properties of RunSupervision, given a run timeout), the hosted wait
  elapses. That a thread ends is an assumption, which a hung command breaks:
  `AssignedRunsStart` and the ends of the process hold while none hangs. The commands the
  coordinator runs itself, before its first round (`reconcile_orphans` and the preflight,
  `executor.rs:123`), have no timeout either and are taken to return. RustGrid may be
  down for ever: `AssignedRunsStart` states its condition, the ends of the process need
  none.
- `EffectOutbox!FairSpec`: the driver calls `run_once` again whenever a call ended, a
  call ends, and neither the store nor the adapter refuses or loses every answer
  (strong fairness of loading, reconciling, performing, committing and of an effect
  that is requested again and again). Nothing is assumed of crashes ceasing, of the
  lease, or of a single request. The repository has no driver of the protocol yet:
  this is what one must provide.
- `ProtocolGrounding!FairSpec`: the driver calls `decide` again (weak fairness of a step),
  and a reserved call is sent and answered rather than released for ever. Which answer,
  and whether it is rejected, is open.
- `ValidationProcess!FairSpec`: the adapter and its readers run and the deadline passes.
  Nothing is assumed of the process, of a reader that fails or of the caller, nor that a
  killed process ends: `AdapterReturns` excepts one that outlives the kill (`Defying`).
- `TerminalDelivery!FairSpec`: each worker goes on; one is left alive. A call is answered,
  if only by a timeout (`Indeterminate`).

## 5. Proofs

All are checked by TLAPS for every value of the constants, from the named assumptions
`SupervisionAssumption`, `WindowAssumption` (the check of `config.rs`: three heartbeats fit
in a lease), `PublicationAssumption`, `CoordinatorAssumption`, `OutboxAssumption`,
`LimitsAssumption`, `ProcessAssumption` and those of the execution protocol, one in each of
its modules. What these last say of the constants the code computes: nodes are named by a
digest of what they are for and their kind, so no two kinds share a name
(`GraphAssumption`); the plans that can be ordered are those the graph was built for
(`PlanAssumption`); the gates of a node are next to each other in the order of the gates, as
`build_validation_gates` makes it (`ValidationAssumption`). Every run evaluates those of its
modules.

- *RunSupervision_proofs*. `TypeCorrect` first. The inductive invariant relates the program
  points of the two threads: which flags can be set while `pc` is where, that what was read
  is still set, that a terminal write was made only at or after the step that makes it, what
  the journal and the sandbox may be at each step, and which phases are possible at each
  step (`PhasesAccepted`). It is needed because the properties speak of the end of a run and
  the reason lies at its beginning: a loss during the work is silent because the flag was
  set before the closure returned, hence is read, hence resolves to `lease_lost`.
  `CancelledTicketFreed`: a run is cancelled by the last call of `cancel`, and no step in
  between, of either thread or of a restart, takes the ticket up again.
- *LeaseWindow_proofs*. `ClocksRelated`: `age` exceeds `unconfirmed` by at most the lag of
  start-up or of an answer, and `unconfirmed` at a wake-up is below the limit plus a
  heartbeat. `StopsInTime` and `OwnsLease` are then arithmetic.
- *Publication_proofs*. `Recorded`: at each step, which of `head`, `commit` and
  `journalCommit` agree; it gives `PushJournaled`. `Validated`: where the current tree has
  passed the gates in an execution without a restart; it gives `PushValidated`.
  `CreatesFirst`: a process is about to create a pull request only if none is open; it gives
  `OnePullRequestAlways`. `ForeignFollows`: what others pushed is in the local commit from
  the reconciliation to the observation of the branch head, and after it what the lease
  covers is (`ForeignWorkAlwaysSurvives`): a push that is accepted under the lease takes the
  branch from a head whose foreign commits it contains. It needs what a rebase keeps
  (`RebaseKeeps`: nothing of the base is lost, and of the replayed patches only those the
  base has already are dropped) and that a patch of another is new (`NewPatch`).
  `TypeCorrect` follows from the same invariant (`Histories`). Two theorems are of
  properties that no run checks. `PublishedIsAwaited`: what a run opens a pull request of
  and waits for is on the agent branch. `StepsCount` is what is behind `PublicationEnds`:
  every step of the worker raises the sessions, the CI repairs or the attempts, in this
  order of weight, or brings the worker nearer to its end (`StepsLeft`); all of them are
  bounded, so no loop of rebases, refused pushes and repairs goes round for ever, whatever
  others do.
- *Coordinator_proofs*. `SelectedStartable`, `SelectedFits`, `SlotsCounted`: what was
  selected in a round stays startable although slots were counted and the list read one call
  earlier, because only the loop itself adds to the runs in flight. `ImplementsSlots` is the
  refinement, step by step; `NoTicketTwice` the corollary. `AbandonsOnFailure` is an action
  property of the run. `DrainsForGood` is one that no run checks, `DrainingIsFinal`: a drain
  begins between two rounds, with nothing selected, and a round of a draining coordinator
  counts no slots (`DrainFollows`), so the list it still waits for selects nothing.
- *EffectOutbox_proofs*. Every property of the run but the liveness. The invariant is about
  snapshots, those of live calls and those of late writes alike. One that names the current
  revision agrees with the store (`Snapshot`); one about to insert is no newer than an
  intent found instead (`Inserting`); one with an intent holds either the open intent or one
  whose effect is done (`Bound`); one about to perform under the current lease is the only
  one, its effect is not done and not on the way (`Free`); one about to commit is of an
  effect that is done (`Resolving`). One lemma per store write, shared by the call and the
  late write, shows what every snapshot survives. `ImplementsOnce` is the refinement.
- *TerminalDelivery_proofs*. `DeliversOnce`: the safety of CallbackOnce, for any workers and
  limits. The invariant orders intents, calls and observations (`InOrder`), traces every
  acknowledgement to the backend (`Truthful`) and, while no attempt was sent twice, allows
  one call at a time (`OneCall`) and none before an attempt is sent or after it has failed
  (`FailedIsOver`). It is needed because a failed status is read off the journal, and the
  reason that nothing can land any more lies with the other workers.
- *ValidationProcess_proofs*. Every property of the run but the return of the adapter, for
  any number of invocations, sizes and limits. The invariant follows the adapter through its
  places: what the journal has (`JournalFollows`), whose exit the result is
  (`ResultFollows`), what is left of the process and its children (`ProcessFollows`), and
  when a pipe is read (`ReadersFollow`).
  `NoProcessIsLeft` needs all three, since the group is killed places before the answer and
  a crash may come between. `KeptOutputIsBounded` rests on the arithmetic of
  `allocate_stream_limits` (`AllocatedFits`): the two shares use the limit up, and no stream
  that wrote is left without one. `RunIsAGateRun` is the refinement of GateRun.
- *ExecutionProtocol_proofs*. Every safety property of `execution_protocol`, and the two of
  `protocol_grounding` for the whole attempt, for any targets and their order, gates,
  checks, limits, budgets and proposals. `Steps` first reduces the actions of the stages to
  what they do to the shared state (`Moves`: a node starts, records, succeeds or fails, the
  position advances, a call goes on); what every later lemma needs of a step is read off
  these. The invariant `IInv` (it and `Moves` are in *ExecutionProtocolInductive*) has one
  part for each stage and one for the graph. It is needed because `validate_invariants`
  compares what the stages keep and no stage knows the others:
  - the graph (`GraphFollows`): one node is active; a node is pending only while it cannot
    be started; a done node has its proof, and a stage is left only with its nodes done; an
    open call belongs to the active node of a stage that waits for it.
  - validation (`ValidationFollows`): the evidence, the failure and the repair of the
    current revision, and the proofs that lead from the barrier to it (`Lineage`), which is
    what `ReviewsCanBegin` needs; which gate is next while a repair is rerun, which gives
    `ChecksGoOn`. It rests on the order of the gates of a node.
  - the windows in which a revision has moved and validation or review has not yet followed
    (`StagesAreBound`), which make the rest inductive and `ChecksAreCurrent` true.

  `AlwaysValid` follows: `append_event` never leaves an aggregate it would refuse.
  `BlockedStays` takes each way of being blocked with the one step that is still possible,
  the failure of the node and the result. `StagesDeliver` is the refinement of
  ReviewedDelivery: besides `IInv` it needs that published operations are a prefix of the
  three (`InOrder`) and which of the steps change content, evidence, approval or effects.
  `PlansRestOnEvidence` has an invariant of its own (`GroundingFollows`): searches grow,
  evidence suffices from the request of a map to its acceptance, and the map, hence the
  plan, names only candidates of a search. `BudgetsAreKept`: the mission's ledger is the sum
  over the nodes (`MissionIsSum`), since every step that changes it changes one node by the
  same amount (`BothChange`). `GraphsGoOn`, of no run, is the part of deadlock freedom that
  is an invariant (`GraphCanGoOn`): while no node is active, one of the stage is ready or
  has failed, or all are done. For the targets it needs that the order
  `canonical_target_order` finds leaves none that wait for each other
  (`OrderableIsAcyclic`), which is why a plan with a cycle is refused. What a sum over a
  finite set is, and that it moves with one of its terms (`SumShifts`), is proved of the
  fold of the community modules.

*Induction*. The library's induction theorems take an operator as a parameter, which the
installed provers cannot instantiate. Where a fact is by induction over a number or a finite
set (the sum of a ledger, the patches of a rebase, the order of the targets), it is proved
by the least counterexample instead (`LeastNumber`, from the well-foundedness of the
naturals), for the one predicate it is needed for.

*Only model-checked*: the liveness properties, in the fairness of `CallbackSpec` too
(`DeliversOnce` proves its safety), because fairness and ENABLED are outside the prover;
that an execution attempt has a step in every state without a result (deadlock freedom,
which speaks of ENABLED). The specification of `protocol_grounding`, an attempt that ends
with its plan, has no proofs of its own: its two safety properties are proved of the whole
attempt, whose steps of these stages are the same actions.

## 6. Disagreements with the documentation

`publication_overwrite` is the finding of `PROJECT.json`. The others have a formula at the
end of their module that no run checks; TLC violates each when it is put into the
configuration of the component's run (`LossCancelsWork` into that of the liveness run).

- `LossCancelsWork` (RunSupervision): a git or sbx command that
  blocks, like the push of `git.rs:222-249` or the sbx calls of `executor.rs:566`, 725, 829
  and 860, is not ended by a lost lease (`command.rs:116-118`, 342-344);
  docs/worker-api-contract.md:296 "When ownership is lost or becomes uncertain, the worker
  cancels local commands and does not publish a terminal run or ticket mutation."

- `NoTerminalWriteAfterLoss` (RunSupervision): the flags are read (`runner.rs:509`) before
  the supervisor is joined (511), so a loss stored in between is never consulted and
  finalize goes on; docs/operations.md:188 "Lease loss is fail-closed: local execution is
  cancelled and no terminal ticket or run update is attempted."
- `NoTerminalWriteAfterReply`: a reply of the report itself says that the lease is lost,
  and `Reporter::fail` goes on to comment, ticket and run.
- `UnsuccessfulRunRetained`: a finalization that fails before anything was created, or
  a process killed before retain, leaves the executor as created.
- `RetainedRunCanBeResumed`: a lost lease leaves a non-terminal phase in the journal,
  which adopt_recovery refuses.
- `PushIsValidated` (Publication): the rewritten commit is recorded before its gates run
  (`runner.rs:714`); an attempt resumed from it publishes it without them;
  docs/architecture.md:91 "Changed commits always pass local validation again before
  publication."
- `ResumedBranchIsTheCommit`: the branch moves before `record_commit` (`git.rs:389`); after a
  crash in between every later attempt bails; docs/architecture.md:85 "A restarted worker
  derives a recovery plan and reconciles existing Git and GitHub state rather than
  repeating side effects."
- `CompleteRangeKept`: reconciliation replays the last local commit only
  (`git.rs` rebases from `HEAD~1`), so an earlier unpublished one is dropped.
- `DivergenceIsRetried`: a branch that diverged before push_with_lease first read it is
  refused as fatal, since only a movement after that read counts as a race.
- `DrainWaitsForRuns` (Coordinator): a failed list of assignments during a drain returns
  from watch_impl under its running threads (`runner.rs:1436`); docs/operations.md:192
  "SIGTERM requests a drain, stops new claims, and waits for active runs."
- `DiscoveryConcludes` (ProtocolGrounding): with an open question and a criterion whose
  searches found nothing, `decide` asks for BudgetBlocked (discovery.rs:1512, 1544) and
  `record_discovery_convergence` refuses it while a call is left (reducer.rs:5711), so
  discovery never ends; docs/execution-protocol-v1/protocol.md:188 promises "a typed
  blocked outcome".
- `OutputIsExact` (ValidationProcess): the readers are told to stop
  when the process has exited and look at the flag before the pipe
  (validation_process.rs:702, 1235); what was written last is dropped and not counted;
  domain-model.md:648 "Events retain only receipts and exact original, captured, dropped,
  and truncation metadata". What is lost here, or cut by the limit, may be the line that
  reports a failure: the zero exit of a gate then passes that would have been refused
  (validation.rs:1281). `PassIsEarned` shows only that this needs lost output.
- `ExitBecomesEvidence`: the evidence of a zero exit whose output has a failure line is
  refused (validation.rs:1281), and a crash takes the parser's observation with it, so the
  run of the gate is never judged; domain-model.md:654 says what each zero exit becomes ("Zero
  produces `Passed` only when expected semantics were observed; non-zero, or zero with missing
  semantics, produces `DomainFailed` evidence") and names no third case.

Two more are not expressed: the recovery at start-up begins runs without reading the
drain flag, and `watch --once` may own two runs, one resumed and one polled.

Observations that contradict no document: a plan can modify only the best-ranked file that
was read of each criterion (`impact_map_evidence_ids`, discovery.rs:1116, with
`evidence_grounds_target`); a file that was read in part can never be completed in planning;
a plan without changes is never accepted (no proof of it can be made yet, as the documents
say); the two corrections at the end of `allocate_stream_limits` never apply.

## 7. Not modelled, and the plan

Not modelled because there is no state others race on: manifest, mission, prompt,
configuration, agent command lines, trace redaction. Abstracted: event sequence
numbers, token consumption, journal write failures of the worker (a crash stands for
them), resource limits of commands, pagination of the listings, the inside of git. The
expiry of a credential during a long call is one of its failures.

Of the execution protocol: digests, identities and envelopes; the replay of a log; token
limits (calls and one cost stand for calls, tokens, cost and time); scanning and scoring of
files; the text of plans, patches and reviews, which are sound or not; evidence of
relationships; how many paths an action of discovery may take, and their rank. Nodes that
wait and resume are left out: `append_event` accepts both events (reducer.rs:9915-10018), and
`decide` asks for neither; no event makes a node Skipped or Superseded. Assumed: drift gives a revision not seen before; a failure that
the publication adapter calls definite is; the branch does not move between the opening of
the pull request and its confirmation; a reconciliation answers with authority. Only the
target of the last verified mutation can be repaired, as in the code. An unanswered
journal write of the gate adapter lands at once or never.

Planned, in this order:

1. Proofs: a count of the steps of an execution attempt, as `StepsCount` is one of
   publication, outside the releases of discovery and planning, which have no limit.
2. The telemetry outbox; repair budgets of `execution.rs`; the token cache.
3. The abstract supervision of RunSupervision as a refinement of LeaseWindow's rounds.
