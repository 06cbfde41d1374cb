----------------------------- MODULE Coordinator -----------------------------
(***************************************************************************)
(* The worker's coordinator (src/runner.rs: watch_impl, serve_impl,        *)
(* select_unstarted_assignments; src/coordinator.rs; src/shutdown.rs): it  *)
(* resumes the runs RustGrid already assigned to the worker, then polls    *)
(* for assignments, runs each in a thread of its own, and stops on a       *)
(* signal, after one poll (watch --once) or after one run                  *)
(* (serve --exit-after-run).                                               *)
(*                                                                         *)
(* A call is a step of its own, so signals, assignments and the ends of    *)
(* runs come between any two.  Calls fail only while api is "down".  What  *)
(* happens inside a run is RunSupervision's.                               *)
(***************************************************************************)
EXTENDS Naturals, FiniteSets

CONSTANTS
    Runs, Tickets,
    TicketOf,           \* the ticket of each run
    MaxConcurrency,
    Modes,              \* ways to start the worker: watch, watch --once,
                        \* serve --exit-after-run
    MaxRestarts         \* bound: processes after the first

ASSUME CoordinatorAssumption ==
    /\ IsFiniteSet(Runs)
    /\ TicketOf \in [Runs -> Tickets]
    /\ MaxConcurrency \in Nat \ {0}
    /\ Modes \subseteq {"watch", "once", "hosted"}
    /\ "once" \in Modes => MaxConcurrency = 1
    /\ MaxRestarts \in Nat

VARIABLES
    mode,       \* how this worker was started
    assigned,   \* runs RustGrid lists as running on this worker
    api,        \* "up", or "down" while calls to RustGrid fail
    signals,    \* SIGTERM and SIGINT received: DRAIN_REQUESTED, REQUESTED
    waited,     \* "late" once HOSTED_ASSIGNMENT_WAIT has elapsed
    pc,
    health,     \* CoordinatorState
    tasks,      \* thread of each run: "none", "running" or "finished"
    started,    \* started_run_ids
    slots,      \* available_slots of this round
    selected,   \* runs selected in this round and not yet started
    begun,      \* "none", or "some" if this round started a run
    outcome,    \* how the process ended
    abandoned,  \* runs whose threads ended with it
    restarts

world == <<mode, assigned, api, signals, waited>>
round == <<slots, selected, begun>>
process == <<pc, health, tasks, started, round>>
ending == <<outcome, abandoned, restarts>>
vars == <<world, process, ending>>

Locations == {"start", "resume", "replay", "round", "heartbeat", "list", "assign",
              "wait", "catchup", "join", "exited"}

InFlight == {r \in Runs : tasks[r] # "none"}
Running == {r \in Runs : tasks[r] = "running"}

TypeOK ==
    /\ mode \in Modes
    /\ assigned \in SUBSET Runs
    /\ api \in {"up", "down"}
    /\ signals \in SUBSET {"TERM", "INT"}
    /\ waited \in {"early", "late"}
    /\ pc \in Locations
    /\ health \in {"Starting", "Healthy", "Degraded", "Draining", "Stopped"}
    /\ tasks \in [Runs -> {"none", "running", "finished"}]
    /\ started \in SUBSET Runs
    /\ slots \in 0..MaxConcurrency
    /\ selected \in SUBSET Runs
    /\ begun \in {"none", "some"}
    /\ outcome \in {"none", "stopped", "unassigned", "error"}
    /\ abandoned \in SUBSET Runs
    /\ restarts \in 0..MaxRestarts

(***************************************************************************)
(* CoordinatorHealth.                                                      *)
(***************************************************************************)
Succeeded(h) == IF h \in {"Draining", "Stopped"} THEN h ELSE "Healthy"
Failed(h) == IF h \in {"Draining", "Stopped"} THEN h ELSE "Degraded"
Drained(h) == IF h = "Stopped" THEN h ELSE "Draining"

(***************************************************************************)
(* select_unstarted_assignments, for every order RustGrid may list the     *)
(* runs in: of the tickets that are free, one unstarted run each, as many  *)
(* as there are slots.                                                     *)
(***************************************************************************)
\* Mutant: tickets with an attempt in flight are not left out.
CandidatesOfAnyTicket(listed, busy) == listed \ started

Candidates(listed, busy) ==
    {r \in listed \ started : \A b \in busy : TicketOf[b] # TicketOf[r]}

Selections(listed, busy, n) ==
    LET free == Candidates(listed, busy)
    IN  {s \in SUBSET free :
            /\ \A r, q \in s : TicketOf[r] = TicketOf[q] => r = q
            /\ Cardinality(s) <= n
            /\ \/ Cardinality(s) = n
               \/ \A r \in free : \E q \in s : TicketOf[q] = TicketOf[r]}

\* The process returns; threads still running die with it.
Exit(how) ==
    /\ pc' = "exited"
    /\ outcome' = how
    /\ abandoned' = abandoned \cup Running
    /\ tasks' = [r \in Runs |-> "none"]
    /\ UNCHANGED <<health, started, round, restarts>>

Init ==
    /\ mode \in Modes
    /\ assigned \in SUBSET Runs
    /\ api = "up" /\ signals = {} /\ waited = "early"
    /\ pc = "start" /\ health = "Healthy"
    /\ tasks = [r \in Runs |-> "none"] /\ started = {}
    /\ slots = 0 /\ selected = {} /\ begun = "none"
    /\ outcome = "none" /\ abandoned = {} /\ restarts = 0

(***************************************************************************)
(* Startup: the runs already assigned are resumed before the loop.         *)
(***************************************************************************)
ListResumable ==
    /\ pc = "start"
    /\ selected' \in Selections(assigned, {}, MaxConcurrency)
    /\ pc' = "resume"
    /\ UNCHANGED <<world, health, tasks, started, slots, begun, ending>>

StartRun(r) ==
    /\ pc \in {"resume", "assign"} /\ r \in selected
    /\ tasks' = [tasks EXCEPT ![r] = "running"]
    /\ started' = started \cup {r}
    /\ selected' = selected \ {r}
    /\ begun' = IF pc = "assign" THEN "some" ELSE begun
    /\ UNCHANGED <<world, pc, health, slots, ending>>

\* The ticket could not be fetched; the run is left for a later round.
SkipRun(r) ==
    /\ pc \in {"resume", "assign"} /\ r \in selected
    /\ api = "down"
    /\ selected' = selected \ {r}
    /\ UNCHANGED <<world, pc, health, tasks, started, slots, begun, ending>>

EndResume ==
    /\ pc = "resume" /\ selected = {}
    /\ pc' = "replay"
    /\ UNCHANGED <<world, health, tasks, started, round, ending>>

Replay ==
    /\ pc = "replay"
    /\ pc' = "round"
    /\ UNCHANGED <<world, health, tasks, started, round, ending>>

(***************************************************************************)
(* One round of the loop.                                                  *)
(***************************************************************************)
\* Mutant: finished threads keep their slots.
NeverReaped == tasks
Reaped == [r \in Runs |-> IF tasks[r] = "running" THEN "running" ELSE "none"]
Idle == Running = {}

\* A round may begin: neither stopped, nor drained, nor done with a hosted run.
KeepsRunning ==
    /\ "INT" \notin signals
    /\ ~("TERM" \in signals /\ Idle)
    /\ ~(mode = "hosted" /\ Idle /\ (started # {} \/ waited = "late"))

BeginRound ==
    /\ pc = "round" /\ KeepsRunning
    /\ tasks' = Reaped
    /\ health' = IF "TERM" \in signals THEN Drained(health) ELSE health
    /\ pc' = "heartbeat"
    /\ UNCHANGED <<world, started, round, ending>>

\* Mutant: a drain ends the loop only if the process has not started a run.
LeaveLoopUnstarted ==
    /\ pc = "round"
    /\ \/ "INT" \in signals /\ UNCHANGED tasks
       \/ /\ "INT" \notin signals /\ Idle
          /\ ("TERM" \in signals /\ started = {}) \/ (mode = "hosted" /\ started # {})
          /\ tasks' = Reaped
    /\ pc' = "join"
    /\ UNCHANGED <<world, health, started, round, ending>>

LeaveLoop ==
    /\ pc = "round"
    /\ \/ "INT" \in signals /\ UNCHANGED tasks
       \/ /\ "INT" \notin signals /\ Idle
          /\ "TERM" \in signals \/ (mode = "hosted" /\ started # {})
          /\ tasks' = Reaped
    /\ pc' = "join"
    /\ UNCHANGED <<world, health, started, round, ending>>

\* Mutant: the wait is looked at only while RustGrid answers.
NoAssignmentWhileHealthy ==
    /\ pc = "round" /\ signals = {} /\ Idle /\ api = "up"
    /\ mode = "hosted" /\ started = {} /\ waited = "late"
    /\ Exit("unassigned")
    /\ UNCHANGED world

NoAssignment ==
    /\ pc = "round" /\ signals = {} /\ Idle
    /\ mode = "hosted" /\ started = {} /\ waited = "late"
    /\ Exit("unassigned")
    /\ UNCHANGED world

HeartbeatFails ==
    /\ pc = "heartbeat" /\ api = "down"
    /\ health' = Failed(health)
    /\ pc' = "round"
    /\ UNCHANGED <<world, tasks, started, round, ending>>

AvailableSlots ==
    IF "TERM" \in signals THEN 0 ELSE MaxConcurrency - Cardinality(InFlight)

Heartbeat ==
    /\ pc = "heartbeat"
    /\ health' = Succeeded(health)
    /\ slots' = AvailableSlots
    /\ pc' = "list"
    /\ UNCHANGED <<world, tasks, started, selected, begun, ending>>

ListAssigned ==
    /\ pc = "list"
    /\ selected' \in Selections(assigned, InFlight, slots)
    /\ begun' = "none"
    /\ pc' = "assign"
    /\ UNCHANGED <<world, health, tasks, started, slots, ending>>

EndRound ==
    /\ pc = "assign" /\ selected = {}
    /\ \/ mode = "once" /\ pc' = "join"
       \/ mode # "once" /\ (begun = "some" \/ "TERM" \in signals) /\ pc' = "round"
       \/ mode # "once" /\ begun = "none" /\ "TERM" \notin signals /\ pc' = "wait"
    /\ UNCHANGED <<world, health, tasks, started, round, ending>>

\* wait_for_queue_event returns: an event, the end of the interval, or an error.
QueueEvent ==
    /\ pc = "wait"
    /\ pc' = "catchup"
    /\ UNCHANGED <<world, health, tasks, started, round, ending>>

CatchUp ==
    /\ pc = "catchup"
    /\ pc' = "round"
    /\ UNCHANGED <<world, health, tasks, started, round, ending>>

\* The calls whose failure is propagated out of watch_impl.
CallFails ==
    /\ pc \in {"start", "replay", "list", "catchup"} /\ api = "down"
    /\ Exit("error")
    /\ UNCHANGED world

\* Mutant: the threads are detached.
ReturnWithoutJoining ==
    /\ pc = "join"
    /\ Exit("stopped")
    /\ UNCHANGED world

Join ==
    /\ pc = "join" /\ Idle
    /\ pc' = "exited" /\ health' = "Stopped" /\ outcome' = "stopped"
    /\ tasks' = [r \in Runs |-> "none"]
    /\ UNCHANGED <<world, started, round, abandoned, restarts>>

(***************************************************************************)
(* The threads, RustGrid, the host.                                        *)
(***************************************************************************)

\* execute_claimed returns; RustGrid may or may not have recorded the end.
TaskEnds(r) ==
    /\ tasks[r] = "running"
    /\ tasks' = [tasks EXCEPT ![r] = "finished"]
    /\ assigned' \in {assigned, assigned \ {r}}
    /\ UNCHANGED <<mode, api, signals, waited, pc, health, started, round, ending>>

Assign(r) ==
    /\ r \notin assigned
    /\ assigned' = assigned \cup {r}
    /\ UNCHANGED <<mode, api, signals, waited, process, ending>>

\* Cancelled, or its lease expired.
Unassign(r) ==
    /\ r \in assigned
    /\ assigned' = assigned \ {r}
    /\ UNCHANGED <<mode, api, signals, waited, process, ending>>

ApiChanges ==
    /\ api' = IF api = "up" THEN "down" ELSE "up"
    /\ UNCHANGED <<mode, assigned, signals, waited, process, ending>>

Signal(s) ==
    /\ pc # "exited" /\ s \notin signals
    /\ signals' = signals \cup {s}
    /\ UNCHANGED <<mode, assigned, api, waited, process, ending>>

WaitElapses ==
    /\ mode = "hosted" /\ waited = "early"
    /\ waited' = "late"
    /\ UNCHANGED <<mode, assigned, api, signals, process, ending>>

Crash ==
    /\ pc # "exited" /\ restarts < MaxRestarts
    /\ pc' = "exited" /\ outcome' = "error"
    /\ tasks' = [r \in Runs |-> "none"]
    /\ UNCHANGED <<world, health, started, round, abandoned, restarts>>

Restart ==
    /\ pc = "exited" /\ outcome = "error" /\ restarts < MaxRestarts
    /\ restarts' = restarts + 1
    /\ pc' = "start" /\ health' = "Healthy"
    /\ signals' = {} /\ waited' = "early"
    /\ started' = {} /\ slots' = 0 /\ selected' = {} /\ begun' = "none"
    /\ outcome' = "none"
    /\ UNCHANGED <<mode, assigned, api, tasks, abandoned>>

Loop ==
    \/ ListResumable \/ EndResume \/ Replay
    \/ \E r \in Runs : StartRun(r) \/ SkipRun(r)
    \/ BeginRound \/ LeaveLoop \/ NoAssignment
    \/ HeartbeatFails \/ Heartbeat \/ ListAssigned \/ EndRound
    \/ QueueEvent \/ CatchUp \/ CallFails \/ Join

Next ==
    \/ Loop
    \/ \E r \in Runs : TaskEnds(r) \/ Assign(r) \/ Unassign(r)
    \/ ApiChanges \/ WaitElapses \/ Crash \/ Restart
    \/ \E s \in {"TERM", "INT"} : Signal(s)

Spec == Init /\ [][Next]_vars

\* The coordinator's thread is never descheduled for ever, a run's thread ends
\* (RunSupervision: unless it hangs in a git or sbx command), and the hosted wait is
\* measured by a clock that advances.
LiveSpec ==
    /\ Spec
    /\ WF_vars(Loop)
    /\ \A r \in Runs : WF_vars(TaskEnds(r))
    /\ WF_vars(WaitElapses)

(***************************************************************************)
(* Properties.                                                             *)
(***************************************************************************)

(* What the coordinator promises of its runs: a run is begun once in a
   process, its ticket has no other run in flight (unreaped threads count),
   and a slot is free.  select_unstarted_assignments works on a list that was
   read earlier, and slots were counted before that. *)
FitsCapacity(busy) == Cardinality(busy) <= MaxConcurrency
Slots == INSTANCE WorkerSlots
           WITH busy <- InFlight, spent <- started, Fits <- FitsCapacity
SlotsSpec == Slots!Spec

(* Once the coordinator is draining it starts nothing and nothing makes it
   healthy again: not a heartbeat that succeeds late, not one that fails. *)
DrainingIsFinal ==
    [][health = "Draining" /\ outcome = "none" =>
         /\ started' = started
         /\ health' \in {"Draining", "Stopped"}]_vars

(* The process abandons a run only when a call failed: a drain, an interrupt,
   --once and --exit-after-run end it with no thread running, and a hosted
   worker gives up waiting only if it never had a run. *)
OnlyFailedCallsAbandon ==
    [][abandoned' # abandoned => outcome' = "error" /\ api = "down"]_vars

(* A run that stays assigned while RustGrid answers is started: neither a
   ticket that could not be fetched, nor an earlier attempt of its ticket,
   nor a full worker, nor a missed queue event loses it. *)
AssignedRunsStart ==
    \A r \in Runs :
        mode = "watch" /\ <>[](r \in assigned /\ api = "up" /\ signals = {} /\ pc # "exited")
            => <>[](r \in started)

(* SIGTERM and SIGINT end the process, also while RustGrid is unreachable. *)
SignalsEndTheProcess == (signals # {}) ~> (pc = "exited")

(* A hosted worker ends: after its run, or when none comes. *)
HostedWorkerEnds == mode = "hosted" => []<>(pc = "exited")

(* "SIGTERM requests a drain, stops new claims, and waits for active runs"
   (docs/operations.md). *)
DrainWaitsForRuns == "TERM" \in signals => abandoned = {}
=============================================================================
