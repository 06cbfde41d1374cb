--------------------------- MODULE RunSupervision ---------------------------
(***************************************************************************)
(* One supervised run of a worker: the execution thread                    *)
(* (src/runner.rs, execute_claimed), the lease supervisor thread           *)
(* (src/supervisor.rs), the finalization of the typed outcome              *)
(* (src/finalization.rs, src/reporting.rs) and the control plane as the    *)
(* worker sees it.  The two threads share only atomic flags.  A read of a  *)
(* flag by the execution thread, a remote call and the stores of one       *)
(* supervisor decision are each a step of their own, so that their         *)
(* interleavings are behaviours.  The process may be killed between any    *)
(* two steps and started again.                                            *)
(*                                                                         *)
(* Time is abstract here: "overdue" is raised when the run timeout elapses *)
(* and sinceSuccess counts supervisor rounds since the last confirmed      *)
(* renewal.  LeaseWindow models the clock.                                 *)
(***************************************************************************)
EXTENDS Naturals, RunPhase

CONSTANTS
    UncertaintyRounds,  \* supervisor rounds the lease may stay unconfirmed
    MaxCycles,          \* bound: repairs and re-validations of one execution
    MaxRestarts,        \* bound: how often the process may die
    Kinds               \* "direct": the manifest holds a direct operation

ASSUME SupervisionAssumption ==
    /\ UncertaintyRounds \in Nat
    /\ MaxCycles \in Nat
    /\ MaxRestarts \in Nat
    /\ Kinds \subseteq {"direct", "delegated"}

VARIABLES
    kind,           \* what the manifest of the run asks for
    \* control plane
    lease,          \* whether the run's lease still names this worker
    runStatus,      \* status of the run
    ticket,         \* status of its ticket
    row,            \* whether the worker's row version of the run is current
    \* process-wide signals and the clock
    signals,        \* those of SIGINT, SIGTERM and the run timeout that came
    restarts,
    \* supervisor thread
    sup, reply, sinceSuccess,
    flags,          \* the atomic flags that are set; "halted": running is false
    \* execution thread
    pc, cycles, result, outcome,
    seen,           \* the flags it read as set
    handle,         \* whether it holds an execution handle
    \* durable state: the journal and the sandbox
    phase, executor, commit, sandbox,
    \* observations
    terminalWrites, \* terminal effects applied since the run was started
    notes           \* told_lost: some reply said that the lease is lost
                    \* loss_during_work: supervision gave the lease up while the
                    \*   execution closure was working
                    \* refused_phase: a phase change outside the table was asked
                    \* expired: a restart found the journal past its retention

server == <<lease, runStatus, ticket, row>>
supervisor == <<sup, reply, sinceSuccess>>
thread == <<cycles, result, outcome, seen, handle>>
durable == <<phase, executor, commit, sandbox>>
observed == <<terminalWrites, notes>>
vars == <<server, signals, kind, restarts, supervisor, flags, pc, thread, durable,
          observed>>

WorkSteps == {"direct", "ticket", "sandbox", "record", "agent", "session",
              "verify", "gates", "commit", "publish", "workflows", "attach",
              "handoff"}
\* Steps that poll in a loop, or run a command, that watches the running flag.
\* Not all they run does: see Unwatched.
Cancellable == {"sandbox", "session", "gates", "workflows"}
ReadSteps == {"read_lost", "read_timeout", "join", "resolve"}
FinalSteps == {"retain", "finalize", "step", "comment", "set_ticket",
               "update_run", "unwind", "destroy", "record_destroyed"}
\* Steps that run git or sbx through capture, capture_with_env or checked: a
\* plain wait for the command, without a timeout and without a look at the
\* running flag.  The captures that do watch the flag wait without a limit for
\* the threads that read the output.
Unwatched == {"sandbox", "agent", "session", "verify", "gates", "commit",
              "publish", "retain", "unwind", "destroy"}

\* "hung_work", "hung_end": such a command does not return.
Steps == {"idle", "manifest", "ended", "down", "hung_work", "hung_end"}
         \cup WorkSteps \cup ReadSteps \cup FinalSteps

\* The execution closure has not returned.
Working == pc \in WorkSteps \cup {"hung_work"}

TicketStatuses == {"todo", "in_progress", "awaiting_review", "blocked"}

CountersOK ==
    /\ restarts \in 0..MaxRestarts
    /\ sinceSuccess \in 0..UncertaintyRounds
    /\ cycles \in 0..MaxCycles

ServerOK ==
    /\ kind \in Kinds
    /\ lease \in {"held", "lost"}
    /\ runStatus \in {"running", "succeeded", "failed", "cancelled"}
    /\ ticket \in TicketStatuses
    /\ row \in {"current", "stale"}

ThreadsOK ==
    /\ signals \subseteq {"shutdown", "drain", "overdue"}
    /\ sup \in {"off", "check", "renew", "observe", "sleep", "stopped"}
    /\ reply \in {"none", "ok", "lost", "unavailable"}
    /\ flags \subseteq {"stop", "lease_lost", "timed_out", "halted"}
    /\ pc \in Steps
    /\ result \in {"none"} \cup Results
    /\ outcome \in {"none"} \cup Outcomes
    /\ seen \subseteq {"lease_lost", "timed_out"}
    /\ handle \in {"none", "held"}

DurableOK ==
    /\ phase \in Phases
    /\ executor \in {"none", "created", "retained", "retain_failed", "destroyed"}
    /\ commit \in {"none", "recorded"}
    /\ sandbox \in {"absent", "live", "stopped"}
    /\ terminalWrites \subseteq {"comment", "ticket", "run"}
    /\ notes \subseteq {"told_lost", "loss_during_work", "refused_phase", "expired"}

TypeOK == CountersOK /\ ServerOK /\ ThreadsOK /\ DurableOK

Init ==
    /\ kind \in Kinds
    /\ lease = "held" /\ runStatus = "running" /\ ticket = "todo"
    /\ row = "current"
    /\ signals = {} /\ restarts = 0
    /\ sup = "off" /\ reply = "none" /\ sinceSuccess = 0 /\ flags = {}
    /\ pc = "idle" /\ cycles = 0
    /\ result = "none" /\ outcome = "none" /\ seen = {} /\ handle = "none"
    /\ phase = "Claimed" /\ executor = "none" /\ commit = "none"
    /\ sandbox = "absent"
    /\ terminalWrites = {} /\ notes = {}

-----------------------------------------------------------------------------
(***************************************************************************)
(* Environment.                                                            *)
(***************************************************************************)

\* The control plane gives the run to another worker or takes it back; the
\* reassignment bumps the row version of the run.
LoseLease ==
    /\ lease = "held"
    /\ lease' = "lost" /\ row' = "stale"
    /\ UNCHANGED <<runStatus, ticket, signals, kind, restarts, supervisor,
                   flags, pc, thread, durable, observed>>

\* SIGINT, SIGTERM, or the run timeout while the run is executed.
Signal ==
    /\ pc # "down"
    /\ \E s \in {"shutdown", "drain", "overdue"} \ signals :
          /\ s = "overdue" => Working
          /\ signals' = signals \cup {s}
    /\ UNCHANGED <<server, kind, restarts, supervisor, flags, pc, thread,
                   durable, observed>>

\* The worker process dies: threads, flags and signals are gone, the journal,
\* the sandbox and the control plane stay.
Crash ==
    /\ pc # "down" /\ restarts < MaxRestarts
    /\ pc' = "down" /\ sup' = "off"
    /\ UNCHANGED <<server, signals, kind, restarts, reply, sinceSuccess, flags,
                   thread, durable, observed>>

\* The control plane lists the run among the active runs of this worker.
Offered == lease = "held" /\ runStatus = "running"

\* Mutant: recoverable_sandbox_names is forgotten.
RestartForgettingJournals ==
    /\ pc = "down" /\ restarts < MaxRestarts
    /\ pc' = "idle" /\ restarts' = restarts + 1 /\ signals' = {}
    /\ sandbox' = IF Offered THEN sandbox ELSE "absent"
    /\ UNCHANGED <<kind, server, supervisor, flags, thread, phase, executor,
                   commit, observed>>

\* watch_impl: reconcile_orphans removes a sandbox that neither an active run
\* nor the executor named in a journal protects; a journal protects for the
\* retention time of failed workspaces only.
Restart ==
    /\ pc = "down" /\ restarts < MaxRestarts
    /\ pc' = "idle" /\ restarts' = restarts + 1 /\ signals' = {}
    /\ \E expired \in BOOLEAN :
          /\ sandbox' = IF \/ Offered
                           \/ ~expired /\ executor \notin {"none", "destroyed"}
                        THEN sandbox ELSE "absent"
          /\ notes' = IF expired THEN notes \cup {"expired"} ELSE notes
    /\ UNCHANGED <<kind, server, supervisor, flags, thread, phase, executor,
                   commit, terminalWrites>>

-----------------------------------------------------------------------------
(***************************************************************************)
(* The supervisor thread.                                                  *)
(***************************************************************************)

\* LeaseMonitor::before_renewal: shutdown comes before the run timeout.
StopNow == signals \cap {"shutdown", "overdue"} # {}

Halting == {"halted"} \cup (IF "shutdown" \in signals THEN {} ELSE {"timed_out"})

\* Mutant: the loop head does not look at the stop request.
SupervisorCheckDeaf ==
    /\ sup = "check"
    /\ IF StopNow THEN sup' = "stopped" /\ flags' = flags \cup Halting
                  ELSE sup' = "renew" /\ UNCHANGED flags
    /\ UNCHANGED <<server, signals, kind, restarts, reply, sinceSuccess, pc,
                   thread, durable, observed>>

\* The loop head: the stop request, then LeaseMonitor::before_renewal.
SupervisorCheck ==
    /\ sup = "check"
    /\ IF "stop" \in flags THEN sup' = "stopped" /\ UNCHANGED flags
       ELSE IF StopNow THEN sup' = "stopped" /\ flags' = flags \cup Halting
                       ELSE sup' = "renew" /\ UNCHANGED flags
    /\ UNCHANGED <<server, signals, kind, restarts, reply, sinceSuccess, pc,
                   thread, durable, observed>>

\* extend_lease: a renewal the server applied may still be reported as
\* unavailable, and then leaves the worker with an old row version.
SupervisorRenew ==
    /\ sup = "renew" /\ sup' = "observe"
    /\ \/ lease = "held" /\ reply' = "ok" /\ UNCHANGED <<row, notes>>
       \/ /\ lease = "lost" /\ reply' = "lost" /\ UNCHANGED row
          /\ notes' = notes \cup {"told_lost"}
       \/ /\ reply' = "unavailable" /\ UNCHANGED notes
          /\ row' \in {row, IF lease = "held" THEN "stale" ELSE row}
    /\ UNCHANGED <<lease, runStatus, ticket, signals, kind, restarts,
                   sinceSuccess, flags, pc, thread, durable, terminalWrites>>

\* Mutant: only a definite loss gives the lease up.
GivesUpOnLossOnly == reply = "lost"

\* LeaseMonitor::observe: ownership is given up on a definite loss, or when
\* the lease has been unconfirmed for the uncertainty limit.
GivesUp == \/ reply = "lost"
           \/ reply = "unavailable" /\ sinceSuccess >= UncertaintyRounds

SupervisorGivesUp ==
    /\ sup = "observe" /\ GivesUp
    /\ sup' = "stopped" /\ reply' = "none"
    /\ flags' = flags \cup {"lease_lost", "halted"}
    /\ notes' = IF Working THEN notes \cup {"loss_during_work"} ELSE notes
    /\ UNCHANGED <<server, signals, kind, restarts, sinceSuccess, pc, thread,
                   durable, terminalWrites>>

SupervisorContinues ==
    /\ sup = "observe" /\ ~GivesUp
    /\ sup' = "sleep" /\ reply' = "none"
    /\ sinceSuccess' = IF reply = "ok" THEN 0 ELSE sinceSuccess
    /\ row' = IF reply = "ok" /\ lease = "held" THEN "current" ELSE row
    /\ UNCHANGED <<lease, runStatus, ticket, signals, kind, restarts, flags,
                   pc, thread, durable, observed>>

\* The heartbeat interval, slept in slices that watch the stop request.
SupervisorSleep ==
    /\ sup = "sleep" /\ sup' = "check"
    /\ sinceSuccess' = IF sinceSuccess < UncertaintyRounds
                       THEN sinceSuccess + 1 ELSE sinceSuccess
    /\ UNCHANGED <<server, signals, kind, restarts, reply, flags, pc, thread,
                   durable, observed>>

Supervisor == \/ SupervisorCheck \/ SupervisorRenew \/ SupervisorGivesUp
              \/ SupervisorContinues \/ SupervisorSleep

-----------------------------------------------------------------------------
(***************************************************************************)
(* The execution thread: execute_claimed, execute and what they call.      *)
(***************************************************************************)

\* Reporter::set_phase and the checkpoint of the journal.
RequestPhase(next) ==
    /\ phase' = SetPhase(phase, next)
    /\ notes' = IF next # phase /\ ~CanTransition(phase, next)
                THEN notes \cup {"refused_phase"} ELSE notes

\* watch_impl hands a run to a thread once per process, if it is still an
\* active run of this worker; the flags of the task are new.
StartRun ==
    /\ pc = "idle" /\ Offered
    /\ pc' = "manifest" /\ row' = "current" /\ flags' = {}
    /\ cycles' = 0 /\ result' = "none" /\ outcome' = "none" /\ seen' = {}
    /\ handle' = "none"
    /\ terminalWrites' = {} /\ notes' = notes \ {"told_lost", "loss_during_work"}
    /\ UNCHANGED <<lease, runStatus, ticket, signals, kind, restarts,
                   supervisor, durable>>

\* The manifest is fetched and the journal opened; resume_active_run reopens a
\* terminal journal; the supervisor is started.
OpenRun ==
    /\ pc = "manifest"
    /\ pc' = IF kind = "direct" THEN "direct" ELSE "ticket"
    /\ phase' = IF IsTerminal(phase) THEN "Claimed" ELSE phase
    /\ sup' = "check" /\ reply' = "none" /\ sinceSuccess' = 0
    /\ UNCHANGED <<server, signals, kind, restarts, flags, thread, executor,
                   commit, sandbox, observed>>

\* report_preparation_failure: silent on a lost lease, otherwise straight to
\* the failure report; no supervisor was started.
PreparationFails ==
    /\ pc = "manifest"
    /\ \/ /\ lease = "lost" /\ outcome' = "lease_lost" /\ pc' = "ended"
          /\ notes' = notes \cup {"told_lost"}
       \/ /\ outcome' \in {"blocked", "failed"} /\ pc' = "finalize"
          /\ UNCHANGED notes
    /\ UNCHANGED <<server, signals, kind, restarts, supervisor, flags, cycles,
                   result, seen, handle, durable, terminalWrites>>

\* execute_direct_operation sets any ticket status or adds a comment: no checkout,
\* no sandbox, no phase change.
DirectOperation ==
    /\ pc = "direct" /\ pc' = "read_lost"
    /\ result' = "ok" /\ ticket' \in TicketStatuses
    /\ UNCHANGED <<lease, runStatus, row, signals, kind, restarts, supervisor,
                   flags, cycles, outcome, seen, handle, durable, observed>>

TakeTicket ==
    /\ pc = "ticket" /\ pc' = "sandbox"
    /\ ticket' = "in_progress"
    /\ RequestPhase("Preparing")
    /\ UNCHANGED <<lease, runStatus, row, signals, kind, restarts, supervisor,
                   flags, thread, executor, commit, sandbox, terminalWrites>>

\* Executor::prepare reuses the retained sandbox or creates one; the handle is
\* adopted before anything else can fail.
PrepareSandbox ==
    /\ pc = "sandbox" /\ pc' = "record"
    /\ sandbox' = "live" /\ handle' = "held"
    /\ UNCHANGED <<server, signals, kind, restarts, supervisor, flags, cycles,
                   result, outcome, seen, phase, executor, commit, observed>>

\* A journaled commit sends the run straight to publication.
RecordExecutor ==
    /\ pc = "record"
    /\ pc' = IF commit = "recorded" THEN "publish" ELSE "agent"
    /\ executor' = "created"
    /\ UNCHANGED <<server, signals, kind, restarts, supervisor, flags, thread,
                   phase, commit, sandbox, observed>>

\* A step of the work that asks for a phase.
WorkStep(from, to, requested) ==
    /\ pc = from /\ pc' = to
    /\ RequestPhase(requested)
    /\ UNCHANGED <<server, signals, kind, restarts, supervisor, flags, result,
                   outcome, seen, handle, executor, sandbox, terminalWrites>>

BeginSession == WorkStep("agent", "session", "Executing")
                /\ UNCHANGED <<cycles, commit>>

EndSession ==
    /\ pc = "session" /\ pc' = "verify"
    /\ UNCHANGED <<server, signals, kind, restarts, supervisor, flags, thread,
                   durable, observed>>

BeginGates == WorkStep("verify", "gates", "Verifying")
              /\ UNCHANGED <<cycles, commit>>

\* run_quality_gates ends in Publishing whether or not a gate failed; a failed
\* required gate starts a repair session.
GatesPass == WorkStep("gates", "commit", "Publishing")
             /\ UNCHANGED <<cycles, commit>>

GatesFail == /\ WorkStep("gates", "agent", "Publishing")
             /\ cycles < MaxCycles /\ cycles' = cycles + 1
             /\ UNCHANGED commit

\* commit_paths and record_commit.
Commit == /\ WorkStep("commit", "publish", "Publishing")
          /\ commit' = "recorded"
          /\ UNCHANGED cycles

\* publish_commit pushes; a reconciled commit goes through the gates first.
PublishCommit == WorkStep("publish", "workflows", "Publishing")
                 /\ UNCHANGED <<cycles, commit>>

Revalidate == /\ WorkStep("publish", "verify", "Publishing")
              /\ cycles < MaxCycles /\ cycles' = cycles + 1
              /\ UNCHANGED commit

\* The required workflows pass, or a repairable failure starts a CI repair.
WorkflowsPass ==
    /\ pc = "workflows" /\ pc' = "attach"
    /\ UNCHANGED <<server, signals, kind, restarts, supervisor, flags, thread,
                   durable, observed>>

WorkflowsFail ==
    /\ pc = "workflows" /\ pc' = "agent"
    /\ cycles < MaxCycles /\ cycles' = cycles + 1
    /\ UNCHANGED <<server, signals, kind, restarts, supervisor, flags, result,
                   outcome, seen, handle, durable, observed>>

AttachPullRequest == WorkStep("attach", "handoff", "AwaitingReview")
                     /\ UNCHANGED <<cycles, commit>>

\* Mutant: a failed ticket update is only logged.
HandOverUnchecked ==
    /\ pc = "handoff" /\ pc' = "read_lost"
    /\ ticket' \in {ticket, "awaiting_review"}
    /\ result' \in {"ok", "blocked"}
    /\ UNCHANGED <<lease, runStatus, row, signals, kind, restarts, supervisor,
                   flags, cycles, outcome, seen, handle, durable, observed>>

\* The ticket is handed over; the workspace size limit is checked last.
HandOver ==
    /\ pc = "handoff" /\ pc' = "read_lost"
    /\ ticket' = "awaiting_review"
    /\ result' \in {"ok", "blocked"}
    /\ UNCHANGED <<lease, runStatus, row, signals, kind, restarts, supervisor,
                   flags, cycles, outcome, seen, handle, durable, observed>>

\* What a step that is reported as failed may have left behind: a status update
\* whose reply was lost, a sandbox that prepare started, stopped or could not
\* remove, or that was stopped after a session or a gate that failed.
LeftTicket == CASE pc = "ticket"  -> {ticket, "in_progress"}
                [] pc = "handoff" -> {ticket, "awaiting_review"}
                [] pc = "direct"  -> TicketStatuses
                [] OTHER          -> {ticket}

LeftSandbox ==
    CASE pc = "sandbox" -> {IF sandbox = "absent" THEN "absent" ELSE "stopped", "live"}
      [] pc \in {"session", "gates", "retain", "unwind"} -> {sandbox, "stopped"}
      [] pc = "destroy" -> {sandbox, "absent"}
      [] OTHER -> {sandbox}

\* Any step may fail.  A call reports a lost lease only when it is lost.
WorkFails ==
    /\ pc \in WorkSteps /\ pc' = "read_lost"
    /\ result' \in ErrorOutcomes \ {"cancelled"}
    /\ result' = "lease_lost" => lease = "lost"
    /\ notes' = IF result' = "lease_lost" THEN notes \cup {"told_lost"} ELSE notes
    /\ ticket' \in LeftTicket /\ sandbox' \in LeftSandbox
    /\ UNCHANGED <<lease, runStatus, row, signals, kind, restarts, supervisor,
                   flags, cycles, outcome, seen, handle, phase, executor,
                   commit, terminalWrites>>

\* A command or a polling loop sees the running flag cleared, or the shutdown.
WorkCancelled ==
    /\ pc \in Cancellable /\ pc' = "read_lost"
    /\ "halted" \in flags \/ "shutdown" \in signals
    /\ result' = "cancelled" /\ sandbox' \in LeftSandbox
    /\ UNCHANGED <<server, signals, kind, restarts, supervisor, flags, cycles,
                   outcome, seen, handle, phase, executor, commit, observed>>

\* A git or sbx command blocks for ever, and the thread with it; what it did to
\* the sandbox is done.  Only the death of the process ends it.
Hang ==
    /\ pc \in Unwatched /\ (pc = "unwind" => handle = "held")
    /\ pc' = IF Working THEN "hung_work" ELSE "hung_end"
    /\ sandbox' \in LeftSandbox
    /\ UNCHANGED <<server, signals, kind, restarts, supervisor, flags, thread,
                   phase, executor, commit, observed>>

-----------------------------------------------------------------------------
(***************************************************************************)
(* The end of execute_claimed: the flags are read, then the supervisor is  *)
(* stopped and joined, then the outcome is resolved.                       *)
(***************************************************************************)

ReadFlag(from, to, flag) ==
    /\ pc = from /\ pc' = to
    /\ seen' = seen \cup (flags \cap {flag})
    /\ UNCHANGED <<server, signals, kind, restarts, supervisor, flags, cycles,
                   result, outcome, handle, durable, observed>>

ReadLost == ReadFlag("read_lost", "read_timeout", "lease_lost")

ReadTimeout == ReadFlag("read_timeout", "join", "timed_out")

\* Drop of RunSupervisor: set the stop flag, then join the thread.
RequestStop ==
    /\ pc = "join" /\ "stop" \notin flags
    /\ flags' = flags \cup {"stop"}
    /\ UNCHANGED <<server, signals, kind, restarts, supervisor, pc, thread,
                   durable, observed>>

\* Mutant: the supervisor is told to stop and not joined.
JoinNothing ==
    /\ pc = "join" /\ "stop" \in flags /\ pc' = "resolve"
    /\ UNCHANGED <<server, signals, kind, restarts, supervisor, flags, thread,
                   durable, observed>>

Join ==
    /\ pc = "join" /\ "stop" \in flags /\ sup = "stopped" /\ pc' = "resolve"
    /\ UNCHANGED <<server, signals, kind, restarts, supervisor, flags, thread,
                   durable, observed>>

ResolveOutcome ==
    /\ pc = "resolve"
    /\ outcome' = Resolve(result, "lease_lost" \in seen, "timed_out" \in seen,
                          "halted" \notin flags,
                          signals \cap {"shutdown", "drain"} # {})
    /\ pc' = IF handle = "held" /\ outcome' # "succeeded" THEN "retain"
             ELSE "finalize"
    /\ UNCHANGED <<server, signals, kind, restarts, supervisor, flags, cycles,
                   result, seen, handle, durable, observed>>

\* Executor::retain stops the sandbox; the journal says whether it did.
RetainSandbox ==
    /\ pc = "retain" /\ pc' = "finalize"
    /\ \/ sandbox' = "stopped" /\ executor' = "retained"
       \/ executor' = "retain_failed" /\ UNCHANGED sandbox
    /\ UNCHANGED <<server, signals, kind, restarts, supervisor, flags, thread,
                   phase, commit, observed>>

-----------------------------------------------------------------------------
(***************************************************************************)
(* finalize and the terminal reports of the Reporter, one remote call at a *)
(* time.                                                                   *)
(***************************************************************************)

TerminalPhase == CASE outcome = "cancelled" -> "Cancelled"
                   [] outcome = "timed_out" -> "TimedOut"
                   [] outcome = "blocked"   -> "Blocked"
                   [] OTHER                 -> "Failed"

TerminalTicket == IF outcome \in {"cancelled", "failed"} THEN "todo" ELSE "blocked"

TerminalStatus == CASE outcome = "succeeded" -> "succeeded"
                    [] outcome = "cancelled" -> "cancelled"
                    [] OTHER                 -> "failed"

FinalizeSuccess ==
    /\ pc = "finalize" /\ outcome = "succeeded" /\ pc' = "update_run"
    /\ RequestPhase("Succeeded")
    /\ UNCHANGED <<server, signals, kind, restarts, supervisor, flags, thread,
                   executor, commit, sandbox, terminalWrites>>

\* report_token_consumption failed: nothing is written.
FinalizeFails ==
    /\ pc = "finalize" /\ outcome = "succeeded" /\ pc' = "unwind"
    /\ UNCHANGED <<server, signals, kind, restarts, supervisor, flags, thread,
                   durable, observed>>

FinalizeLeaseLost ==
    /\ pc = "finalize" /\ outcome = "lease_lost" /\ pc' = "ended"
    /\ UNCHANGED <<server, signals, kind, restarts, supervisor, flags, thread,
                   durable, observed>>

FinalizeFailure ==
    /\ pc = "finalize" /\ outcome \in ErrorOutcomes \ {"lease_lost"}
    /\ pc' = "step"
    /\ RequestPhase(TerminalPhase)
    /\ UNCHANGED <<server, signals, kind, restarts, supervisor, flags, thread,
                   executor, commit, sandbox, terminalWrites>>

\* Mutant: cancel() goes on after a failed call as fail() does.
AfterCallGoingOn(ok, next) == next

\* cancel() stops at the first call that fails; fail() and fail_retryable()
\* note the failure and go on.
AfterCall(ok, next) == IF ok \/ outcome # "cancelled" THEN next ELSE "ended"

\* Reporter::step publishes an event, which the control plane refuses to a
\* worker that no longer holds the lease.
ReportStep ==
    /\ pc = "step"
    /\ \E ok \in BOOLEAN : (ok => lease = "held") /\ pc' = AfterCall(ok, "comment")
    /\ \/ UNCHANGED notes
       \/ lease = "lost" /\ notes' = notes \cup {"told_lost"}
    /\ UNCHANGED <<server, signals, kind, restarts, supervisor, flags, thread,
                   durable, terminalWrites>>

\* What one terminal call leaves in terminalWrites.
Write(applied, effect) ==
    terminalWrites' = IF applied THEN terminalWrites \cup {effect}
                      ELSE terminalWrites

\* A call that is reported as failed may have been applied, here and below.
ReportComment ==
    /\ pc = "comment"
    /\ \E applied, ok \in BOOLEAN :
          /\ ok => applied
          /\ pc' = AfterCall(ok, "set_ticket") /\ Write(applied, "comment")
    /\ UNCHANGED <<server, signals, kind, restarts, supervisor, flags, thread,
                   durable, notes>>

\* set_ticket_status reads the current ETag first, so it never loses a race.
SetTicketStatus ==
    /\ pc = "set_ticket"
    /\ \E applied, ok \in BOOLEAN :
          /\ ok => applied
          /\ pc' = AfterCall(ok, "update_run") /\ Write(applied, "ticket")
          /\ ticket' = IF applied THEN TerminalTicket ELSE ticket
    /\ UNCHANGED <<lease, runStatus, row, signals, kind, restarts, supervisor,
                   flags, thread, durable, notes>>

\* The control plane applies an update whose row version is current.
UpdateAccepted == lease = "held" /\ row = "current"

\* Reporter::update_run; a reply may be lost after the update was applied.
UpdateRun ==
    /\ pc = "update_run"
    /\ \E applied, ok \in BOOLEAN :
          /\ applied => UpdateAccepted
          /\ ok => applied
          /\ runStatus' = IF applied THEN TerminalStatus ELSE runStatus
          /\ Write(applied, "run")
          /\ row' = IF applied /\ ~ok THEN "stale" ELSE row
          /\ pc' = IF outcome # "succeeded" \/ handle = "none" THEN "ended"
                   ELSE IF ok THEN "destroy" ELSE "unwind"
    /\ UNCHANGED <<lease, ticket, signals, kind, restarts, supervisor, flags,
                   thread, durable, notes>>

\* A finalization or a cleanup that failed after success: the sandbox is
\* retained, and recorded as retained even when stopping it failed.
Unwind ==
    /\ pc = "unwind" /\ pc' = "ended"
    /\ IF handle = "held"
       THEN executor' = "retained" /\ sandbox' \in {sandbox, "stopped"}
       ELSE UNCHANGED <<executor, sandbox>>
    /\ UNCHANGED <<server, signals, kind, restarts, supervisor, flags, thread,
                   phase, commit, observed>>

DestroySandbox ==
    /\ pc = "destroy"
    /\ \/ sandbox' = "absent" /\ pc' = "record_destroyed"
       \/ pc' = "unwind" /\ UNCHANGED sandbox
    /\ UNCHANGED <<server, signals, kind, restarts, supervisor, flags, thread,
                   phase, executor, commit, observed>>

RecordDestroyed ==
    /\ pc = "record_destroyed" /\ pc' = "ended"
    /\ executor' = "destroyed"
    /\ UNCHANGED <<server, signals, kind, restarts, supervisor, flags, thread,
                   phase, commit, sandbox, observed>>

-----------------------------------------------------------------------------
\* Steps that wait for nothing but remote calls, which have timeouts, the
\* supervisor, and git and sbx commands, which end, fail or hang.
Bounded ==
    \/ OpenRun \/ PreparationFails
    \/ DirectOperation \/ TakeTicket \/ RecordExecutor
    \/ BeginSession \/ BeginGates \/ Commit \/ PublishCommit \/ Revalidate
    \/ AttachPullRequest \/ HandOver
    \/ ReadLost \/ ReadTimeout \/ RequestStop \/ Join \/ ResolveOutcome
    \/ RetainSandbox
    \/ FinalizeSuccess \/ FinalizeFails \/ FinalizeLeaseLost \/ FinalizeFailure
    \/ ReportStep \/ ReportComment \/ SetTicketStatus \/ UpdateRun
    \/ Unwind \/ DestroySandbox \/ RecordDestroyed

\* Steps that wait for a command or a service, and may wait for ever.
Waiting == \/ PrepareSandbox \/ EndSession \/ GatesPass \/ GatesFail
           \/ WorkflowsPass \/ WorkflowsFail

Execution == StartRun \/ Bounded \/ Waiting \/ WorkFails \/ WorkCancelled \/ Hang

Environment == LoseLease \/ Signal \/ Crash \/ Restart

\* The run ended, is no longer offered to this worker, or waits for ever.
Finished == pc \in {"idle", "ended", "hung_work", "hung_end"} /\ UNCHANGED vars

Next == Environment \/ Supervisor \/ Execution \/ Finished

Spec == Init /\ [][Next]_vars

\* Both threads are scheduled, and a wait that watches the running flag ends.
\* Nothing is assumed of sessions, gates, workflows or the environment, and no git
\* or sbx command is assumed to return: Hang takes the thread out of every action
\* that fairness is stated of.
FairSpec == Spec /\ WF_vars(Supervisor) /\ WF_vars(Bounded) /\ WF_vars(WorkCancelled)

-----------------------------------------------------------------------------
(***************************************************************************)
(* Properties.                                                             *)
(***************************************************************************)

\* When the supervisor gives the lease up while the execution closure is still
\* working, the run ends without a terminal comment, ticket or run update
\* (RunOutcome::resolve and finalize), whatever the closure returned.
LossDuringWorkSilencesRun == "loss_during_work" \in notes => terminalWrites = {}

\* Within the retention time, a sandbox whose executor the journal names
\* disappears, and is journaled as destroyed, only after the control plane
\* accepted the run as succeeded: not on failure, cancellation, a lost update, a
\* crash or an orphan sweep at a restart.
SandboxKeptUntilSuccess ==
    executor # "none" /\ (sandbox = "absent" \/ executor = "destroyed")
        => runStatus = "succeeded" \/ "expired" \in notes

\* A delegated run is closed as succeeded only with its ticket handed over for
\* review (the set_ticket_status of execute comes before finalize).
SuccessHandsOver == runStatus = "succeeded" /\ kind # "direct" => ticket = "awaiting_review"

\* A run is closed as cancelled only after its ticket was returned to todo:
\* cancel() stops at the first call that fails, so no partial failure strands
\* a ticket under a cancelled run.
CancelledRunFreesTicket == runStatus = "cancelled" => ticket = "todo"

\* While the outcome is resolved and reported the supervisor thread is gone: no
\* renewal takes the row version of the run under the terminal update.
SupervisionEndsFirst ==
    pc \in {"resolve"} \cup FinalSteps => sup \in {"off", "stopped"}

\* In an execution that no restart interrupted, every phase the runner asks for
\* is an edge of the lifecycle table, on the repair and re-validation paths too,
\* so no phase change is silently ignored by Reporter::set_phase.
UninterruptedPhases == restarts = 0 /\ kind # "direct" => "refused_phase" \notin notes

\* A lost lease, a shutdown or the run timeout ends the work, also when the control
\* plane never answers a renewal, unless the thread hangs in a git or sbx command
\* that nothing watches: the flag reaches every session, gate and polling loop.
InterruptedWorkStops ==
    Working /\ (lease = "lost" \/ signals \cap {"shutdown", "overdue"} # {})
        ~> ~Working \/ pc = "hung_work"

\* Work that has returned is resolved and reported: the join of the supervisor
\* never waits for ever, and of the calls of the finalization only the sbx command
\* that stops or removes the sandbox can block the thread.
FinishedWorkEnds ==
    pc \in ReadSteps \cup FinalSteps ~> pc \in {"ended", "down", "hung_end"}

-----------------------------------------------------------------------------
(***************************************************************************)
(* What the documentation promises and the code does not keep.             *)
(***************************************************************************)

\* Once the supervisor has marked the lease lost, no terminal effect is added
\* (docs/operations.md: "no terminal ticket or run update is attempted").
NoTerminalWriteAfterLoss ==
    [][ "lease_lost" \in flags => terminalWrites' \subseteq terminalWrites ]_vars

\* Once a reply has told the process that the lease is lost, it publishes no
\* terminal mutation (docs/worker-api-contract.md: "When ownership is lost ...
\* does not publish a terminal run or ticket mutation").
NoTerminalWriteAfterReply ==
    [][ "told_lost" \in notes /\ "lease_lost" \notin flags
            => terminalWrites' \subseteq terminalWrites ]_vars

\* Once supervision has given the lease up, the local work ends
\* (docs/worker-api-contract.md: "When ownership is lost or becomes uncertain, the
\* worker cancels local commands").
LossCancelsWork == Working /\ "lease_lost" \in flags ~> ~Working

\* The sandbox of a run that ended without success is retained, or the failure
\* to stop it is journaled (docs/architecture.md: "Failed, blocked, timed-out,
\* cancelled, or lease-lost executions stop and retain their Docker Sandbox").
UnsuccessfulRunRetained ==
    pc = "ended" /\ outcome \in ErrorOutcomes /\ executor # "none"
        => executor \in {"retained", "retain_failed"}

\* RunJournal::adopt_recovery takes over an unsuccessful terminal run whose
\* executor was retained.
Adoptable == phase \in TerminalPhases \ {"Succeeded"} /\ executor = "retained"

\* A run that ended without success and retained its sandbox can be resumed by a
\* later attempt (docs/architecture.md: "A later attempt can explicitly name the
\* failed run in run.metadata.resume_from_run_id").
RetainedRunCanBeResumed ==
    pc = "ended" /\ outcome \in ErrorOutcomes /\ executor = "retained" => Adoptable

=============================================================================
