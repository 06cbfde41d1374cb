----------------------- MODULE RunSupervision_proofs -----------------------
(***************************************************************************)
(* Proofs about RunSupervision, for every number of renewal rounds,        *)
(* repairs and restarts, and for delegated and direct runs alike.          *)
(***************************************************************************)
EXTENDS RunSupervision, TLAPS

-----------------------------------------------------------------------------
(***************************************************************************)
(* The inductive invariant, in parts.                                      *)
(***************************************************************************)

\* The supervisor thread lives only between its start and its join.
SupervisorLives ==
    sup \notin {"off", "stopped"}
        => pc \in WorkSteps \cup {"hung_work", "read_lost", "read_timeout", "join"}

\* Steps at which the run has not been finalized.
Unfinalized == {"manifest", "hung_work"} \cup WorkSteps \cup ReadSteps

\* A loss found during the work stays visible to every later step of the
\* finalization: in the flag, then in what was read of it, then in the outcome.
LossIsSeen ==
    /\ pc \in Unfinalized => terminalWrites = {}
    /\ "loss_during_work" \in notes =>
          /\ terminalWrites = {}
          /\ "lease_lost" \in flags
          /\ pc # "manifest"
          /\ pc \in {"read_timeout", "join", "resolve"} => "lease_lost" \in seen
          /\ pc \in FinalSteps =>
                pc \in {"retain", "finalize"} /\ outcome = "lease_lost"

\* The run stays open until the terminal update, and a sandbox is destroyed only
\* after it was accepted.
RunStaysOpen ==
    /\ pc \in Unfinalized \cup {"retain", "finalize", "step", "comment",
                                "set_ticket", "update_run"}
          => runStatus = "running"
    /\ pc \in {"destroy", "record_destroyed"} => runStatus = "succeeded"

\* A handle names a sandbox that exists, until the run has succeeded.
HandleIsLive ==
    /\ SandboxKeptUntilSuccess
    /\ handle = "held" /\ pc \in Unfinalized \cup FinalSteps
          => sandbox # "absent" \/ runStatus = "succeeded" \/ "expired" \in notes
    /\ pc \in {"record", "retain", "destroy"} => handle = "held"

\* A result that will be reported as a success or a cancellation has left the
\* ticket in the status that goes with it.
TicketFollowsOutcome ==
    /\ pc = "direct" => kind = "direct"
    /\ pc \in ReadSteps /\ result = "ok" /\ kind # "direct" => ticket = "awaiting_review"
    /\ pc \in FinalSteps /\ outcome = "succeeded" =>
          /\ pc \notin {"retain", "step", "comment", "set_ticket"}
          /\ kind = "direct" \/ ticket = "awaiting_review"
    /\ pc = "update_run" /\ outcome = "cancelled" => ticket = "todo"
    /\ SuccessHandsOver
    /\ CancelledRunFreesTicket

\* Which phase the journal is in at each step of an uninterrupted execution.
PhaseFollowsSteps ==
    restarts = 0 /\ kind # "direct" =>
       /\ "refused_phase" \notin notes
       /\ pc \in {"idle", "manifest", "ticket"} => phase = "Claimed"
       /\ pc \in {"sandbox", "record"} => phase = "Preparing"
       /\ pc \in {"idle", "manifest", "ticket", "sandbox", "record"}
             => commit = "none"
       /\ pc = "agent" => phase \in {"Preparing", "Publishing"}
       /\ pc = "session" => phase = "Executing"
       /\ pc = "verify" => phase \in {"Executing", "Publishing"}
       /\ pc = "gates" => phase = "Verifying"
       /\ pc \in {"commit", "publish", "workflows", "attach"}
             => phase = "Publishing"
       /\ pc = "handoff" => phase = "AwaitingReview"
       /\ pc \in ReadSteps \cup {"retain", "finalize"} =>
             /\ phase \in ActivePhases
             /\ pc \in ReadSteps /\ result = "ok" => phase = "AwaitingReview"
             /\ pc = "finalize" /\ outcome = "succeeded"
                   => phase = "AwaitingReview"

IInv == /\ SupervisorLives /\ LossIsSeen /\ RunStaysOpen /\ HandleIsLive
        /\ TicketFollowsOutcome

-----------------------------------------------------------------------------
\* Type correctness of every variable, the bounds of the counters included.
THEOREM TypeCorrect == Spec => []TypeOK
<1> USE SupervisionAssumption DEF SupervisionAssumption
<1>1. Init => TypeOK
  BY DEF Init, TypeOK, CountersOK, ServerOK, ThreadsOK, DurableOK, Steps,
        TicketStatuses, Phases, ActivePhases
<1>2. TypeOK /\ [Next]_vars => TypeOK'
  <2> SUFFICES ASSUME TypeOK, [Next]_vars
               PROVE  TypeOK'
    OBVIOUS
  <2>1. CASE LoseLease
    BY <2>1 DEF LoseLease, supervisor, thread, durable, observed, TypeOK,
        CountersOK, ServerOK, ThreadsOK, DurableOK, Steps, WorkSteps,
        ReadSteps, FinalSteps
  <2>2. CASE Signal
    BY <2>2 DEF Signal, Working, server, supervisor, thread, durable,
        observed, TypeOK, CountersOK, ServerOK, ThreadsOK, DurableOK, Steps,
        WorkSteps, ReadSteps, FinalSteps
  <2>3. CASE Crash
    BY <2>3 DEF Crash, server, thread, durable, observed, TypeOK, CountersOK,
        ServerOK, ThreadsOK, DurableOK, Steps, WorkSteps, ReadSteps,
        FinalSteps
  <2>4. CASE Restart
    BY <2>4 DEF Restart, Offered, server, supervisor, thread,
        TypeOK,
        CountersOK, ServerOK, ThreadsOK, DurableOK, Steps, WorkSteps,
        ReadSteps, FinalSteps
  <2>5. CASE SupervisorCheck
    <3>1. sup' \in {"renew", "stopped"}
      BY <2>5 DEF SupervisorCheck
    <3>2. flags' \subseteq {"stop", "lease_lost", "timed_out", "halted"}
      BY <2>5 DEF SupervisorCheck, Halting, TypeOK, ThreadsOK
    <3> QED
      BY <2>5, <3>1, <3>2 DEF SupervisorCheck, server, thread, durable, observed,
            TypeOK, CountersOK, ServerOK, ThreadsOK, DurableOK
  <2>6. CASE SupervisorRenew
    <3>1. reply' \in {"ok", "lost", "unavailable"} /\ row' \in {"current", "stale"}
      BY <2>6 DEF SupervisorRenew, TypeOK, ServerOK
    <3>2. notes' \subseteq {"told_lost", "loss_during_work", "refused_phase", "expired"}
      BY <2>6 DEF SupervisorRenew, TypeOK, DurableOK
    <3> QED
      BY <2>6, <3>1, <3>2 DEF SupervisorRenew, thread, durable, TypeOK,
            CountersOK, ServerOK, ThreadsOK, DurableOK
  <2>7. CASE SupervisorGivesUp
    BY <2>7 DEF SupervisorGivesUp, GivesUp, Working, server, thread, durable,
        TypeOK, CountersOK, ServerOK, ThreadsOK, DurableOK, Steps, WorkSteps,
        ReadSteps, FinalSteps
  <2>8. CASE SupervisorContinues
    BY <2>8 DEF SupervisorContinues, GivesUp, thread, durable, observed,
        TypeOK, CountersOK, ServerOK, ThreadsOK, DurableOK, Steps, WorkSteps,
        ReadSteps, FinalSteps
  <2>9. CASE SupervisorSleep
    BY <2>9 DEF SupervisorSleep, server, thread, durable, observed, TypeOK,
        CountersOK, ServerOK, ThreadsOK, DurableOK, Steps, WorkSteps,
        ReadSteps, FinalSteps
  <2>10. CASE StartRun
    BY <2>10 DEF StartRun, Offered, supervisor, durable, TypeOK, CountersOK, ServerOK,
        ThreadsOK, DurableOK, Steps, WorkSteps, ReadSteps, FinalSteps
  <2>11. CASE OpenRun
    BY <2>11 DEF OpenRun, server, thread, observed, TypeOK, CountersOK,
        ServerOK, ThreadsOK, DurableOK, Steps, SetPhase, Phases, ActivePhases,
        TerminalPhases, WorkSteps, ReadSteps, FinalSteps
  <2>12. CASE PreparationFails
    <3>1. /\ pc' \in Steps
          /\ outcome' \in {"none"} \cup Outcomes
      BY <2>12 DEF PreparationFails, Steps, FinalSteps, Outcomes, ErrorOutcomes
    <3>2. notes' \subseteq {"told_lost", "loss_during_work", "refused_phase", "expired"}
      BY <2>12 DEF PreparationFails, TypeOK, DurableOK
    <3> QED
      BY <2>12, <3>1, <3>2 DEF PreparationFails, server, supervisor, durable,
            TypeOK, CountersOK, ServerOK, ThreadsOK, DurableOK
  <2>13. CASE DirectOperation
    BY <2>13 DEF DirectOperation, TicketStatuses, supervisor, durable,
        observed, TypeOK, CountersOK, ServerOK, ThreadsOK, DurableOK, Steps,
        Results, ErrorOutcomes, WorkSteps, ReadSteps, FinalSteps
  <2>14. CASE TakeTicket
    BY <2>14 DEF TakeTicket, RequestPhase, supervisor, thread, TypeOK,
        CountersOK, ServerOK, ThreadsOK, DurableOK, Steps, SetPhase, Phases,
        ActivePhases, TerminalPhases, TicketStatuses, WorkSteps, ReadSteps,
        FinalSteps
  <2>15. CASE PrepareSandbox
    BY <2>15 DEF PrepareSandbox, server, supervisor, observed, TypeOK,
        CountersOK, ServerOK, ThreadsOK, DurableOK, Steps, WorkSteps,
        ReadSteps, FinalSteps
  <2>16. CASE RecordExecutor
    BY <2>16 DEF RecordExecutor, server, supervisor, thread, observed,
        TypeOK, CountersOK, ServerOK, ThreadsOK, DurableOK, Steps, WorkSteps,
        ReadSteps, FinalSteps
  <2>17. CASE BeginSession
    BY <2>17 DEF BeginSession, RequestPhase, WorkStep, server, supervisor,
        TypeOK, CountersOK, ServerOK, ThreadsOK, DurableOK, Steps, SetPhase,
        Phases, ActivePhases, TerminalPhases, WorkSteps, ReadSteps, FinalSteps
  <2>18. CASE EndSession
    BY <2>18 DEF EndSession, server, supervisor, thread, durable, observed,
        TypeOK, CountersOK, ServerOK, ThreadsOK, DurableOK, Steps, WorkSteps,
        ReadSteps, FinalSteps
  <2>19. CASE BeginGates
    BY <2>19 DEF BeginGates, RequestPhase, WorkStep, server, supervisor,
        TypeOK, CountersOK, ServerOK, ThreadsOK, DurableOK, Steps, SetPhase,
        Phases, ActivePhases, TerminalPhases, WorkSteps, ReadSteps, FinalSteps
  <2>20. CASE GatesPass
    BY <2>20 DEF GatesPass, RequestPhase, WorkStep, server, supervisor,
        TypeOK, CountersOK, ServerOK, ThreadsOK, DurableOK, Steps, SetPhase,
        Phases, ActivePhases, TerminalPhases, WorkSteps, ReadSteps, FinalSteps
  <2>21. CASE GatesFail
    BY <2>21 DEF GatesFail, RequestPhase, WorkStep, server, supervisor,
        TypeOK, CountersOK, ServerOK, ThreadsOK, DurableOK, Steps, SetPhase,
        Phases, ActivePhases, TerminalPhases, WorkSteps, ReadSteps, FinalSteps
  <2>22. CASE Commit
    BY <2>22 DEF Commit, RequestPhase, WorkStep, server, supervisor, TypeOK,
        CountersOK, ServerOK, ThreadsOK, DurableOK, Steps, SetPhase, Phases,
        ActivePhases, TerminalPhases, WorkSteps, ReadSteps, FinalSteps
  <2>23. CASE PublishCommit
    BY <2>23 DEF PublishCommit, RequestPhase, WorkStep, server, supervisor,
        TypeOK, CountersOK, ServerOK, ThreadsOK, DurableOK, Steps, SetPhase,
        Phases, ActivePhases, TerminalPhases, WorkSteps, ReadSteps, FinalSteps
  <2>24. CASE Revalidate
    BY <2>24 DEF Revalidate, RequestPhase, WorkStep, server, supervisor,
        TypeOK, CountersOK, ServerOK, ThreadsOK, DurableOK, Steps, SetPhase,
        Phases, ActivePhases, TerminalPhases, WorkSteps, ReadSteps, FinalSteps
  <2>25. CASE WorkflowsPass
    BY <2>25 DEF WorkflowsPass, server, supervisor, thread, durable,
        observed, TypeOK, CountersOK, ServerOK, ThreadsOK, DurableOK, Steps,
        WorkSteps, ReadSteps, FinalSteps
  <2>26. CASE WorkflowsFail
    BY <2>26 DEF WorkflowsFail, server, supervisor, durable, observed,
        TypeOK, CountersOK, ServerOK, ThreadsOK, DurableOK, Steps, WorkSteps,
        ReadSteps, FinalSteps
  <2>27. CASE AttachPullRequest
    BY <2>27 DEF AttachPullRequest, RequestPhase, WorkStep, server,
        supervisor, TypeOK, CountersOK, ServerOK, ThreadsOK, DurableOK, Steps,
        SetPhase, Phases, ActivePhases, TerminalPhases, WorkSteps, ReadSteps,
        FinalSteps
  <2>28. CASE HandOver
    BY <2>28 DEF HandOver, supervisor, durable, observed, TypeOK, CountersOK,
        ServerOK, ThreadsOK, DurableOK, Steps, Results, ErrorOutcomes,
        TicketStatuses, WorkSteps, ReadSteps, FinalSteps
  <2>29. CASE WorkFails
    BY <2>29 DEF WorkFails, LeftTicket, LeftSandbox, Working, TicketStatuses,
        supervisor, TypeOK, CountersOK, ServerOK, ThreadsOK, DurableOK, Steps,
        Results, ErrorOutcomes, WorkSteps, ReadSteps, FinalSteps
  <2>30. CASE WorkCancelled
    BY <2>30 DEF WorkCancelled, LeftSandbox, Cancellable, server, supervisor,
        observed, TypeOK, CountersOK, ServerOK, ThreadsOK, DurableOK, Steps,
        Results, ErrorOutcomes, WorkSteps, ReadSteps, FinalSteps
  <2>31. CASE ReadLost
    BY <2>31 DEF ReadLost, ReadFlag, server, supervisor, durable, observed,
        TypeOK, CountersOK, ServerOK, ThreadsOK, DurableOK, Steps, WorkSteps,
        ReadSteps, FinalSteps
  <2>32. CASE ReadTimeout
    BY <2>32 DEF ReadTimeout, ReadFlag, server, supervisor, durable,
        observed, TypeOK, CountersOK, ServerOK, ThreadsOK, DurableOK, Steps,
        WorkSteps, ReadSteps, FinalSteps
  <2>33. CASE RequestStop
    BY <2>33 DEF RequestStop, server, supervisor, thread, durable, observed,
        TypeOK, CountersOK, ServerOK, ThreadsOK, DurableOK, Steps, WorkSteps,
        ReadSteps, FinalSteps
  <2>34. CASE Join
    BY <2>34 DEF Join, server, supervisor, thread, durable, observed, TypeOK,
        CountersOK, ServerOK, ThreadsOK, DurableOK, Steps, WorkSteps,
        ReadSteps, FinalSteps
  <2>35. CASE ResolveOutcome
    <3>1. outcome' \in {"none"} \cup Outcomes
      <4>1. result \in {"none"} \cup Results
        BY DEF TypeOK, ThreadsOK
      <4> QED
        BY <2>35, <4>1 DEF ResolveOutcome, Resolve, Results, Outcomes, ErrorOutcomes
    <3>2. pc' \in Steps
      BY <2>35 DEF ResolveOutcome, Steps, FinalSteps
    <3> QED
      BY <2>35, <3>1, <3>2 DEF ResolveOutcome, server, supervisor, durable,
            observed, TypeOK, CountersOK, ServerOK, ThreadsOK, DurableOK
  <2>36. CASE RetainSandbox
    BY <2>36 DEF RetainSandbox, server, supervisor, thread, observed, TypeOK,
        CountersOK, ServerOK, ThreadsOK, DurableOK, Steps, WorkSteps,
        ReadSteps, FinalSteps
  <2>37. CASE FinalizeSuccess
    BY <2>37 DEF FinalizeSuccess, RequestPhase, server, supervisor, thread,
        TypeOK, CountersOK, ServerOK, ThreadsOK, DurableOK, Steps, SetPhase,
        Phases, ActivePhases, TerminalPhases, WorkSteps, ReadSteps, FinalSteps
  <2>38. CASE FinalizeFails
    BY <2>38 DEF FinalizeFails, server, supervisor, thread, durable,
        observed, TypeOK, CountersOK, ServerOK, ThreadsOK, DurableOK, Steps,
        WorkSteps, ReadSteps, FinalSteps
  <2>39. CASE FinalizeLeaseLost
    BY <2>39 DEF FinalizeLeaseLost, server, supervisor, thread, durable,
        observed, TypeOK, CountersOK, ServerOK, ThreadsOK, DurableOK, Steps,
        WorkSteps, ReadSteps, FinalSteps
  <2>40. CASE FinalizeFailure
    BY <2>40 DEF FinalizeFailure, RequestPhase, TerminalPhase, server,
        supervisor, thread, TypeOK, CountersOK, ServerOK, ThreadsOK,
        DurableOK, Steps, SetPhase, Phases, ActivePhases, TerminalPhases,
        WorkSteps, ReadSteps, FinalSteps
  <2>41. CASE ReportStep
    <3>1. pc' \in Steps
      BY <2>41 DEF ReportStep, AfterCall, Steps, FinalSteps
    <3>2. notes' \subseteq {"told_lost", "loss_during_work", "refused_phase", "expired"}
      BY <2>41 DEF ReportStep, TypeOK, DurableOK
    <3> QED
      BY <2>41, <3>1, <3>2 DEF ReportStep, server, supervisor, thread, durable,
            TypeOK, CountersOK, ServerOK, ThreadsOK, DurableOK
  <2>42. CASE ReportComment
    BY <2>42 DEF ReportComment, Write, AfterCall, server, supervisor, thread,
        durable, TypeOK, CountersOK, ServerOK, ThreadsOK, DurableOK, Steps,
        WorkSteps, ReadSteps, FinalSteps
  <2>43. CASE SetTicketStatus
    <3>1. pc' \in Steps
      BY <2>43 DEF SetTicketStatus, AfterCall, Steps, FinalSteps
    <3>2. /\ ticket' \in TicketStatuses
          /\ terminalWrites' \subseteq {"comment", "ticket", "run"}
      BY <2>43 DEF SetTicketStatus, Write, TerminalTicket, TicketStatuses, TypeOK,
            ServerOK, DurableOK
    <3> QED
      BY <2>43, <3>1, <3>2 DEF SetTicketStatus, supervisor, thread, durable,
            TypeOK, CountersOK, ServerOK, ThreadsOK, DurableOK
  <2>44. CASE UpdateRun
    BY <2>44 DEF UpdateRun, Write, UpdateAccepted, TerminalStatus,
        supervisor, thread, durable, TypeOK, CountersOK, ServerOK, ThreadsOK,
        DurableOK, Steps, WorkSteps, ReadSteps, FinalSteps
  <2>45. CASE Unwind
    BY <2>45 DEF Unwind, server, supervisor, thread, observed, TypeOK,
        CountersOK, ServerOK, ThreadsOK, DurableOK, Steps, WorkSteps,
        ReadSteps, FinalSteps
  <2>46. CASE DestroySandbox
    BY <2>46 DEF DestroySandbox, server, supervisor, thread, observed,
        TypeOK, CountersOK, ServerOK, ThreadsOK, DurableOK, Steps, WorkSteps,
        ReadSteps, FinalSteps
  <2>47. CASE RecordDestroyed
    BY <2>47 DEF RecordDestroyed, server, supervisor, thread, observed,
        TypeOK, CountersOK, ServerOK, ThreadsOK, DurableOK, Steps, WorkSteps,
        ReadSteps, FinalSteps
  <2>48. CASE UNCHANGED vars
    BY <2>48 DEF vars, server, supervisor, thread, durable, observed, TypeOK,
        CountersOK, ServerOK, ThreadsOK, DurableOK
  <2>49. CASE Hang
    BY <2>49 DEF Hang, Unwatched, LeftSandbox, Working, server, supervisor,
        thread, observed, TypeOK, CountersOK, ServerOK, ThreadsOK, DurableOK,
        Steps, WorkSteps, ReadSteps, FinalSteps
  <2> QED
    BY <2>1, <2>2, <2>3, <2>4, <2>5, <2>6, <2>7, <2>8, <2>9, <2>10, <2>11,
        <2>12, <2>13, <2>14, <2>15, <2>16, <2>17, <2>18, <2>19, <2>20, <2>21,
        <2>22, <2>23, <2>24, <2>25, <2>26, <2>27, <2>28, <2>29, <2>30, <2>31,
        <2>32, <2>33, <2>34, <2>35, <2>36, <2>37, <2>38, <2>39, <2>40, <2>41,
        <2>42, <2>43, <2>44, <2>45, <2>46, <2>47, <2>48, <2>49
        DEF Next, Environment,
        Supervisor, Execution, Bounded, Waiting, Finished
<1> QED
  BY <1>1, <1>2, PTL DEF Spec

-----------------------------------------------------------------------------
\* The parts of IInv hold together at every step of the run: what the threads
\* share, what the control plane holds and what the journal says.
THEOREM Inductive == Spec => []IInv
<1>1. Init => IInv
  BY DEF Init, IInv, SupervisorLives, LossIsSeen, RunStaysOpen, HandleIsLive,
        TicketFollowsOutcome, Unfinalized, SandboxKeptUntilSuccess,
        SuccessHandsOver, CancelledRunFreesTicket, WorkSteps, ReadSteps,
        FinalSteps
<1>2. TypeOK /\ IInv /\ [Next]_vars => IInv'
  <2> SUFFICES ASSUME TypeOK, IInv, [Next]_vars
               PROVE  IInv'
    OBVIOUS
  <2>1. CASE LoseLease
    BY <2>1 DEF LoseLease, supervisor, thread, durable, observed, IInv,
        SupervisorLives, LossIsSeen, RunStaysOpen, HandleIsLive,
        TicketFollowsOutcome, Unfinalized, SandboxKeptUntilSuccess,
        SuccessHandsOver, CancelledRunFreesTicket, WorkSteps, ReadSteps,
        FinalSteps
  <2>2. CASE Signal
    BY <2>2 DEF Signal, Working, server, supervisor, thread, durable,
        observed, IInv, SupervisorLives, LossIsSeen, RunStaysOpen,
        HandleIsLive, TicketFollowsOutcome, Unfinalized,
        SandboxKeptUntilSuccess, SuccessHandsOver, CancelledRunFreesTicket,
        WorkSteps, ReadSteps, FinalSteps
  <2>3. CASE Crash
    BY <2>3 DEF Crash, server, thread, durable, observed, IInv,
        SupervisorLives, LossIsSeen, RunStaysOpen, HandleIsLive,
        TicketFollowsOutcome, Unfinalized, SandboxKeptUntilSuccess,
        SuccessHandsOver, CancelledRunFreesTicket, WorkSteps, ReadSteps,
        FinalSteps
  <2>4. CASE Restart
    BY <2>4 DEF Restart, Offered, server, supervisor, thread,
        IInv,
        SupervisorLives, LossIsSeen, RunStaysOpen, HandleIsLive,
        TicketFollowsOutcome, Unfinalized, SandboxKeptUntilSuccess,
        SuccessHandsOver, CancelledRunFreesTicket, WorkSteps, ReadSteps,
        FinalSteps
  <2>5. CASE SupervisorCheck
    BY <2>5 DEF SupervisorCheck, StopNow, Halting, server, thread, durable,
        observed, IInv, SupervisorLives, LossIsSeen, RunStaysOpen,
        HandleIsLive, TicketFollowsOutcome, Unfinalized,
        SandboxKeptUntilSuccess, SuccessHandsOver, CancelledRunFreesTicket,
        WorkSteps, ReadSteps, FinalSteps
  <2>6. CASE SupervisorRenew
    BY <2>6 DEF SupervisorRenew, thread, durable, IInv, SupervisorLives,
        LossIsSeen, RunStaysOpen, HandleIsLive, TicketFollowsOutcome,
        Unfinalized, SandboxKeptUntilSuccess, SuccessHandsOver,
        CancelledRunFreesTicket, WorkSteps, ReadSteps, FinalSteps
  <2>7. CASE SupervisorGivesUp
    BY <2>7 DEF SupervisorGivesUp, GivesUp, Working, server, thread, durable,
        IInv, SupervisorLives, LossIsSeen, RunStaysOpen, HandleIsLive,
        TicketFollowsOutcome, Unfinalized, SandboxKeptUntilSuccess,
        SuccessHandsOver, CancelledRunFreesTicket, WorkSteps, ReadSteps,
        FinalSteps
  <2>8. CASE SupervisorContinues
    BY <2>8 DEF SupervisorContinues, GivesUp, thread, durable, observed,
        IInv, SupervisorLives, LossIsSeen, RunStaysOpen, HandleIsLive,
        TicketFollowsOutcome, Unfinalized, SandboxKeptUntilSuccess,
        SuccessHandsOver, CancelledRunFreesTicket, WorkSteps, ReadSteps,
        FinalSteps
  <2>9. CASE SupervisorSleep
    BY <2>9 DEF SupervisorSleep, server, thread, durable, observed, IInv,
        SupervisorLives, LossIsSeen, RunStaysOpen, HandleIsLive,
        TicketFollowsOutcome, Unfinalized, SandboxKeptUntilSuccess,
        SuccessHandsOver, CancelledRunFreesTicket, WorkSteps, ReadSteps,
        FinalSteps
  <2>10. CASE StartRun
    BY <2>10 DEF StartRun, Offered, supervisor, durable, IInv, SupervisorLives,
        LossIsSeen, RunStaysOpen, HandleIsLive, TicketFollowsOutcome,
        Unfinalized, SandboxKeptUntilSuccess, SuccessHandsOver,
        CancelledRunFreesTicket, WorkSteps, ReadSteps, FinalSteps
  <2>11. CASE OpenRun
    BY <2>11 DEF OpenRun, server, thread, observed, IInv, SupervisorLives,
        LossIsSeen, RunStaysOpen, HandleIsLive, TicketFollowsOutcome,
        Unfinalized, SandboxKeptUntilSuccess, SuccessHandsOver,
        CancelledRunFreesTicket, WorkSteps, ReadSteps, FinalSteps
  <2>12. CASE PreparationFails
    BY <2>12 DEF PreparationFails, server, supervisor, durable, IInv,
        SupervisorLives, LossIsSeen, RunStaysOpen, HandleIsLive,
        TicketFollowsOutcome, Unfinalized, SandboxKeptUntilSuccess,
        SuccessHandsOver, CancelledRunFreesTicket, WorkSteps, ReadSteps,
        FinalSteps
  <2>13. CASE DirectOperation
    BY <2>13 DEF DirectOperation, TicketStatuses, supervisor, durable,
        observed, IInv, SupervisorLives, LossIsSeen, RunStaysOpen,
        HandleIsLive, TicketFollowsOutcome, Unfinalized,
        SandboxKeptUntilSuccess, SuccessHandsOver, CancelledRunFreesTicket,
        WorkSteps, ReadSteps, FinalSteps
  <2>14. CASE TakeTicket
    BY <2>14 DEF TakeTicket, RequestPhase, supervisor, thread, IInv,
        SupervisorLives, LossIsSeen, RunStaysOpen, HandleIsLive,
        TicketFollowsOutcome, Unfinalized, SandboxKeptUntilSuccess,
        SuccessHandsOver, CancelledRunFreesTicket, WorkSteps, ReadSteps,
        FinalSteps
  <2>15. CASE PrepareSandbox
    BY <2>15 DEF PrepareSandbox, server, supervisor, observed, IInv,
        SupervisorLives, LossIsSeen, RunStaysOpen, HandleIsLive,
        TicketFollowsOutcome, Unfinalized, SandboxKeptUntilSuccess,
        SuccessHandsOver, CancelledRunFreesTicket, WorkSteps, ReadSteps,
        FinalSteps
  <2>16. CASE RecordExecutor
    BY <2>16 DEF RecordExecutor, server, supervisor, thread, observed, IInv,
        SupervisorLives, LossIsSeen, RunStaysOpen, HandleIsLive,
        TicketFollowsOutcome, Unfinalized, SandboxKeptUntilSuccess,
        SuccessHandsOver, CancelledRunFreesTicket, WorkSteps, ReadSteps,
        FinalSteps
  <2>17. CASE BeginSession
    BY <2>17 DEF BeginSession, RequestPhase, WorkStep, server, supervisor,
        IInv, SupervisorLives, LossIsSeen, RunStaysOpen, HandleIsLive,
        TicketFollowsOutcome, Unfinalized, SandboxKeptUntilSuccess,
        SuccessHandsOver, CancelledRunFreesTicket, WorkSteps, ReadSteps,
        FinalSteps
  <2>18. CASE EndSession
    BY <2>18 DEF EndSession, server, supervisor, thread, durable, observed,
        IInv, SupervisorLives, LossIsSeen, RunStaysOpen, HandleIsLive,
        TicketFollowsOutcome, Unfinalized, SandboxKeptUntilSuccess,
        SuccessHandsOver, CancelledRunFreesTicket, WorkSteps, ReadSteps,
        FinalSteps
  <2>19. CASE BeginGates
    BY <2>19 DEF BeginGates, RequestPhase, WorkStep, server, supervisor,
        IInv, SupervisorLives, LossIsSeen, RunStaysOpen, HandleIsLive,
        TicketFollowsOutcome, Unfinalized, SandboxKeptUntilSuccess,
        SuccessHandsOver, CancelledRunFreesTicket, WorkSteps, ReadSteps,
        FinalSteps
  <2>20. CASE GatesPass
    BY <2>20 DEF GatesPass, RequestPhase, WorkStep, server, supervisor, IInv,
        SupervisorLives, LossIsSeen, RunStaysOpen, HandleIsLive,
        TicketFollowsOutcome, Unfinalized, SandboxKeptUntilSuccess,
        SuccessHandsOver, CancelledRunFreesTicket, WorkSteps, ReadSteps,
        FinalSteps
  <2>21. CASE GatesFail
    BY <2>21 DEF GatesFail, RequestPhase, WorkStep, server, supervisor, IInv,
        SupervisorLives, LossIsSeen, RunStaysOpen, HandleIsLive,
        TicketFollowsOutcome, Unfinalized, SandboxKeptUntilSuccess,
        SuccessHandsOver, CancelledRunFreesTicket, WorkSteps, ReadSteps,
        FinalSteps
  <2>22. CASE Commit
    BY <2>22 DEF Commit, RequestPhase, WorkStep, server, supervisor, IInv,
        SupervisorLives, LossIsSeen, RunStaysOpen, HandleIsLive,
        TicketFollowsOutcome, Unfinalized, SandboxKeptUntilSuccess,
        SuccessHandsOver, CancelledRunFreesTicket, WorkSteps, ReadSteps,
        FinalSteps
  <2>23. CASE PublishCommit
    BY <2>23 DEF PublishCommit, RequestPhase, WorkStep, server, supervisor,
        IInv, SupervisorLives, LossIsSeen, RunStaysOpen, HandleIsLive,
        TicketFollowsOutcome, Unfinalized, SandboxKeptUntilSuccess,
        SuccessHandsOver, CancelledRunFreesTicket, WorkSteps, ReadSteps,
        FinalSteps
  <2>24. CASE Revalidate
    BY <2>24 DEF Revalidate, RequestPhase, WorkStep, server, supervisor,
        IInv, SupervisorLives, LossIsSeen, RunStaysOpen, HandleIsLive,
        TicketFollowsOutcome, Unfinalized, SandboxKeptUntilSuccess,
        SuccessHandsOver, CancelledRunFreesTicket, WorkSteps, ReadSteps,
        FinalSteps
  <2>25. CASE WorkflowsPass
    BY <2>25 DEF WorkflowsPass, server, supervisor, thread, durable,
        observed, IInv, SupervisorLives, LossIsSeen, RunStaysOpen,
        HandleIsLive, TicketFollowsOutcome, Unfinalized,
        SandboxKeptUntilSuccess, SuccessHandsOver, CancelledRunFreesTicket,
        WorkSteps, ReadSteps, FinalSteps
  <2>26. CASE WorkflowsFail
    BY <2>26 DEF WorkflowsFail, server, supervisor, durable, observed, IInv,
        SupervisorLives, LossIsSeen, RunStaysOpen, HandleIsLive,
        TicketFollowsOutcome, Unfinalized, SandboxKeptUntilSuccess,
        SuccessHandsOver, CancelledRunFreesTicket, WorkSteps, ReadSteps,
        FinalSteps
  <2>27. CASE AttachPullRequest
    BY <2>27 DEF AttachPullRequest, RequestPhase, WorkStep, server,
        supervisor, IInv, SupervisorLives, LossIsSeen, RunStaysOpen,
        HandleIsLive, TicketFollowsOutcome, Unfinalized,
        SandboxKeptUntilSuccess, SuccessHandsOver, CancelledRunFreesTicket,
        WorkSteps, ReadSteps, FinalSteps
  <2>28. CASE HandOver
    BY <2>28 DEF HandOver, supervisor, durable, observed, IInv,
        SupervisorLives, LossIsSeen, RunStaysOpen, HandleIsLive,
        TicketFollowsOutcome, Unfinalized, SandboxKeptUntilSuccess,
        SuccessHandsOver, CancelledRunFreesTicket, WorkSteps, ReadSteps,
        FinalSteps
  <2>29. CASE WorkFails
    BY <2>29 DEF WorkFails, LeftTicket, LeftSandbox, Working, TicketStatuses,
        supervisor, ErrorOutcomes, IInv, SupervisorLives, LossIsSeen,
        RunStaysOpen, HandleIsLive, TicketFollowsOutcome, Unfinalized,
        SandboxKeptUntilSuccess, SuccessHandsOver, CancelledRunFreesTicket,
        WorkSteps, ReadSteps, FinalSteps
  <2>30. CASE WorkCancelled
    BY <2>30 DEF WorkCancelled, LeftSandbox, Cancellable, server, supervisor,
        observed, IInv, SupervisorLives, LossIsSeen, RunStaysOpen,
        HandleIsLive, TicketFollowsOutcome, Unfinalized,
        SandboxKeptUntilSuccess, SuccessHandsOver, CancelledRunFreesTicket,
        WorkSteps, ReadSteps, FinalSteps
  <2>31. CASE ReadLost
    BY <2>31 DEF ReadLost, ReadFlag, server, supervisor, durable, observed,
        IInv, SupervisorLives, LossIsSeen, RunStaysOpen, HandleIsLive,
        TicketFollowsOutcome, Unfinalized, SandboxKeptUntilSuccess,
        SuccessHandsOver, CancelledRunFreesTicket, WorkSteps, ReadSteps,
        FinalSteps
  <2>32. CASE ReadTimeout
    BY <2>32 DEF ReadTimeout, ReadFlag, server, supervisor, durable,
        observed, IInv, SupervisorLives, LossIsSeen, RunStaysOpen,
        HandleIsLive, TicketFollowsOutcome, Unfinalized,
        SandboxKeptUntilSuccess, SuccessHandsOver, CancelledRunFreesTicket,
        WorkSteps, ReadSteps, FinalSteps
  <2>33. CASE RequestStop
    BY <2>33 DEF RequestStop, server, supervisor, thread, durable, observed,
        IInv, SupervisorLives, LossIsSeen, RunStaysOpen, HandleIsLive,
        TicketFollowsOutcome, Unfinalized, SandboxKeptUntilSuccess,
        SuccessHandsOver, CancelledRunFreesTicket, WorkSteps, ReadSteps,
        FinalSteps
  <2>34. CASE Join
    BY <2>34 DEF Join, server, supervisor, thread, durable, observed, IInv,
        SupervisorLives, LossIsSeen, RunStaysOpen, HandleIsLive,
        TicketFollowsOutcome, Unfinalized, SandboxKeptUntilSuccess,
        SuccessHandsOver, CancelledRunFreesTicket, WorkSteps, ReadSteps,
        FinalSteps
  <2>35. CASE ResolveOutcome
    <3>1. /\ pc = "resolve" /\ pc' \in {"retain", "finalize"}
          /\ pc' = "retain" => handle = "held" /\ outcome' # "succeeded"
      BY <2>35 DEF ResolveOutcome
    <3>2. /\ "lease_lost" \in seen => outcome' = "lease_lost"
          /\ outcome' = "succeeded" => result = "ok"
      BY <2>35 DEF ResolveOutcome, Resolve, TypeOK, ThreadsOK, Results, ErrorOutcomes
    <3>3. UNCHANGED <<kind, server, supervisor, flags, result, seen, handle,
                      durable, observed>>
      BY <2>35 DEF ResolveOutcome
    <3> QED
      BY <3>1, <3>2, <3>3 DEF server, supervisor, durable, observed, IInv,
            SupervisorLives, LossIsSeen, RunStaysOpen, HandleIsLive,
            TicketFollowsOutcome, Unfinalized, SandboxKeptUntilSuccess,
            SuccessHandsOver, CancelledRunFreesTicket, WorkSteps, ReadSteps,
            FinalSteps
  <2>36. CASE RetainSandbox
    BY <2>36 DEF RetainSandbox, server, supervisor, thread, observed, IInv,
        SupervisorLives, LossIsSeen, RunStaysOpen, HandleIsLive,
        TicketFollowsOutcome, Unfinalized, SandboxKeptUntilSuccess,
        SuccessHandsOver, CancelledRunFreesTicket, WorkSteps, ReadSteps,
        FinalSteps
  <2>37. CASE FinalizeSuccess
    BY <2>37 DEF FinalizeSuccess, RequestPhase, server, supervisor, thread,
        IInv, SupervisorLives, LossIsSeen, RunStaysOpen, HandleIsLive,
        TicketFollowsOutcome, Unfinalized, SandboxKeptUntilSuccess,
        SuccessHandsOver, CancelledRunFreesTicket, WorkSteps, ReadSteps,
        FinalSteps
  <2>38. CASE FinalizeFails
    BY <2>38 DEF FinalizeFails, server, supervisor, thread, durable,
        observed, IInv, SupervisorLives, LossIsSeen, RunStaysOpen,
        HandleIsLive, TicketFollowsOutcome, Unfinalized,
        SandboxKeptUntilSuccess, SuccessHandsOver, CancelledRunFreesTicket,
        WorkSteps, ReadSteps, FinalSteps
  <2>39. CASE FinalizeLeaseLost
    BY <2>39 DEF FinalizeLeaseLost, server, supervisor, thread, durable,
        observed, IInv, SupervisorLives, LossIsSeen, RunStaysOpen,
        HandleIsLive, TicketFollowsOutcome, Unfinalized,
        SandboxKeptUntilSuccess, SuccessHandsOver, CancelledRunFreesTicket,
        WorkSteps, ReadSteps, FinalSteps
  <2>40. CASE FinalizeFailure
    BY <2>40 DEF FinalizeFailure, RequestPhase, TerminalPhase, server,
        supervisor, thread, ErrorOutcomes, IInv, SupervisorLives, LossIsSeen,
        RunStaysOpen, HandleIsLive, TicketFollowsOutcome, Unfinalized,
        SandboxKeptUntilSuccess, SuccessHandsOver, CancelledRunFreesTicket,
        WorkSteps, ReadSteps, FinalSteps
  <2>41. CASE ReportStep
    BY <2>41 DEF ReportStep, AfterCall, server, supervisor, thread, durable,
        IInv, SupervisorLives, LossIsSeen, RunStaysOpen, HandleIsLive,
        TicketFollowsOutcome, Unfinalized, SandboxKeptUntilSuccess,
        SuccessHandsOver, CancelledRunFreesTicket, WorkSteps, ReadSteps,
        FinalSteps
  <2>42. CASE ReportComment
    BY <2>42 DEF ReportComment, Write, AfterCall, server, supervisor, thread,
        durable, IInv, SupervisorLives, LossIsSeen, RunStaysOpen,
        HandleIsLive, TicketFollowsOutcome, Unfinalized,
        SandboxKeptUntilSuccess, SuccessHandsOver, CancelledRunFreesTicket,
        WorkSteps, ReadSteps, FinalSteps
  <2>43. CASE SetTicketStatus
    BY <2>43 DEF SetTicketStatus, Write, AfterCall, TerminalTicket,
        supervisor, thread, durable, IInv, SupervisorLives, LossIsSeen,
        RunStaysOpen, HandleIsLive, TicketFollowsOutcome, Unfinalized,
        SandboxKeptUntilSuccess, SuccessHandsOver, CancelledRunFreesTicket,
        WorkSteps, ReadSteps, FinalSteps
  <2>44. CASE UpdateRun
    <3>1. SupervisorLives'
      BY <2>44 DEF UpdateRun, supervisor, IInv, SupervisorLives, WorkSteps,
            ReadSteps, FinalSteps
    <3>2. LossIsSeen'
      BY <2>44 DEF UpdateRun, Write, thread, IInv, LossIsSeen, Unfinalized, WorkSteps,
            ReadSteps, FinalSteps
    <3>3. /\ pc = "update_run" /\ pc' \in {"ended", "destroy", "unwind"}
          /\ runStatus' \in {runStatus, TerminalStatus}
          /\ pc' = "destroy" => runStatus' = TerminalStatus
          /\ pc' \in {"destroy", "unwind"} => outcome = "succeeded" /\ handle = "held"
      <4>1. PICK applied \in BOOLEAN, ok \in BOOLEAN :
               /\ ok => applied
               /\ runStatus' = IF applied THEN TerminalStatus ELSE runStatus
               /\ pc' = IF outcome # "succeeded" \/ handle = "none" THEN "ended"
                        ELSE IF ok THEN "destroy" ELSE "unwind"
        BY <2>44 DEF UpdateRun
      <4>2. pc' # "ended" => outcome = "succeeded" /\ handle = "held"
        BY <4>1 DEF TypeOK, ThreadsOK
      <4> QED
        BY <2>44, <4>1, <4>2 DEF UpdateRun
    <3>4. UNCHANGED <<kind, ticket, handle, outcome, result, executor, sandbox,
                      notes>>
      BY <2>44 DEF UpdateRun, thread, durable
    <3>5. RunStaysOpen'
      BY <3>3 DEF TerminalStatus, RunStaysOpen, Unfinalized, WorkSteps,
            ReadSteps, FinalSteps
    <3>6. HandleIsLive'
      BY <3>3, <3>4 DEF TerminalStatus, IInv, HandleIsLive, RunStaysOpen,
            SandboxKeptUntilSuccess, Unfinalized, WorkSteps,
            ReadSteps, FinalSteps
    <3>7. TicketFollowsOutcome'
      BY <3>3, <3>4 DEF TerminalStatus, IInv, TicketFollowsOutcome, RunStaysOpen,
            SuccessHandsOver, CancelledRunFreesTicket, Unfinalized, WorkSteps,
            ReadSteps, FinalSteps
    <3> QED
      BY <3>1, <3>2, <3>5, <3>6, <3>7 DEF IInv
  <2>45. CASE Unwind
    BY <2>45 DEF Unwind, server, supervisor, thread, observed, IInv,
        SupervisorLives, LossIsSeen, RunStaysOpen, HandleIsLive,
        TicketFollowsOutcome, Unfinalized, SandboxKeptUntilSuccess,
        SuccessHandsOver, CancelledRunFreesTicket, WorkSteps, ReadSteps,
        FinalSteps
  <2>46. CASE DestroySandbox
    BY <2>46 DEF DestroySandbox, server, supervisor, thread, observed, IInv,
        SupervisorLives, LossIsSeen, RunStaysOpen, HandleIsLive,
        TicketFollowsOutcome, Unfinalized, SandboxKeptUntilSuccess,
        SuccessHandsOver, CancelledRunFreesTicket, WorkSteps, ReadSteps,
        FinalSteps
  <2>47. CASE RecordDestroyed
    BY <2>47 DEF RecordDestroyed, server, supervisor, thread, observed, IInv,
        SupervisorLives, LossIsSeen, RunStaysOpen, HandleIsLive,
        TicketFollowsOutcome, Unfinalized, SandboxKeptUntilSuccess,
        SuccessHandsOver, CancelledRunFreesTicket, WorkSteps, ReadSteps,
        FinalSteps
  <2>48. CASE UNCHANGED vars
    BY <2>48 DEF vars, server, supervisor, thread, durable, observed, IInv,
        SupervisorLives, LossIsSeen, RunStaysOpen, HandleIsLive,
        TicketFollowsOutcome, Unfinalized, SandboxKeptUntilSuccess,
        SuccessHandsOver, CancelledRunFreesTicket, WorkSteps, ReadSteps,
        FinalSteps
  <2>49. CASE Hang
    BY <2>49 DEF Hang, Unwatched, LeftSandbox, Working, server, supervisor,
        thread, observed, IInv, SupervisorLives, LossIsSeen, RunStaysOpen,
        HandleIsLive, TicketFollowsOutcome, Unfinalized,
        SandboxKeptUntilSuccess, SuccessHandsOver, CancelledRunFreesTicket,
        WorkSteps, ReadSteps, FinalSteps
  <2> QED
    BY <2>1, <2>2, <2>3, <2>4, <2>5, <2>6, <2>7, <2>8, <2>9, <2>10, <2>11,
        <2>12, <2>13, <2>14, <2>15, <2>16, <2>17, <2>18, <2>19, <2>20, <2>21,
        <2>22, <2>23, <2>24, <2>25, <2>26, <2>27, <2>28, <2>29, <2>30, <2>31,
        <2>32, <2>33, <2>34, <2>35, <2>36, <2>37, <2>38, <2>39, <2>40, <2>41,
        <2>42, <2>43, <2>44, <2>45, <2>46, <2>47, <2>48, <2>49
        DEF Next, Environment,
        Supervisor, Execution, Bounded, Waiting, Finished
<1> QED
  BY <1>1, <1>2, TypeCorrect, PTL DEF Spec

\* No terminal effect follows a loss of the lease that supervision found while the
\* execution closure was working.
THEOREM LossSilences == Spec => []LossDuringWorkSilencesRun
<1>1. IInv => LossDuringWorkSilencesRun
  BY DEF IInv, LossIsSeen, LossDuringWorkSilencesRun
<1> QED
  BY <1>1, Inductive, PTL

\* Within the retention time a journaled sandbox goes only after the run was
\* accepted as succeeded, across crashes and the orphan sweep of a restart.
THEOREM SandboxKept == Spec => []SandboxKeptUntilSuccess
<1>1. IInv => SandboxKeptUntilSuccess
  BY DEF IInv, HandleIsLive
<1> QED
  BY <1>1, Inductive, PTL

\* A run closed as succeeded has handed its ticket over; a run closed as cancelled
\* has returned it.
THEOREM TicketMatchesRun == Spec => [](SuccessHandsOver /\ CancelledRunFreesTicket)
<1>1. IInv => SuccessHandsOver /\ CancelledRunFreesTicket
  BY DEF IInv, TicketFollowsOutcome
<1> QED
  BY <1>1, Inductive, PTL

\* A run closed as cancelled has returned its ticket, whatever the supervisor saw
\* and whenever the process crashed.
THEOREM CancelledTicketFreed == Spec => []CancelledRunFreesTicket
<1>1. SuccessHandsOver /\ CancelledRunFreesTicket => CancelledRunFreesTicket
  OBVIOUS
<1> QED
  BY <1>1, TicketMatchesRun, PTL

\* The supervisor thread is gone before the outcome is resolved and reported.
THEOREM SupervisorJoined == Spec => []SupervisionEndsFirst
<1>1. IInv => SupervisionEndsFirst
  BY DEF IInv, SupervisorLives, SupervisionEndsFirst, WorkSteps, FinalSteps
<1> QED
  BY <1>1, Inductive, PTL

-----------------------------------------------------------------------------
\* Without a restart the lifecycle table refuses no phase the runner asks for.
THEOREM PhasesAccepted == Spec => []UninterruptedPhases
<1>1. Init => PhaseFollowsSteps
  BY DEF Init, PhaseFollowsSteps, ReadSteps
<1>2. TypeOK /\ IInv /\ PhaseFollowsSteps /\ [Next]_vars => PhaseFollowsSteps'
  <2> SUFFICES ASSUME TypeOK, TicketFollowsOutcome, PhaseFollowsSteps, [Next]_vars
               PROVE  PhaseFollowsSteps'
    BY DEF IInv
  <2>1. CASE LoseLease
    BY <2>1 DEF LoseLease, supervisor, thread, durable, observed,
        PhaseFollowsSteps, TicketFollowsOutcome, WorkSteps, ReadSteps,
        FinalSteps
  <2>2. CASE Signal
    BY <2>2 DEF Signal, Working, server, supervisor, thread, durable,
        observed, PhaseFollowsSteps, TicketFollowsOutcome, WorkSteps,
        ReadSteps, FinalSteps
  <2>3. CASE Crash
    BY <2>3 DEF Crash, server, thread, durable, observed, PhaseFollowsSteps,
        TicketFollowsOutcome, WorkSteps, ReadSteps, FinalSteps
  <2>4. CASE Restart
    BY <2>4, SupervisionAssumption DEF Restart, Offered, server, supervisor, thread,
        PhaseFollowsSteps, TicketFollowsOutcome, TypeOK, CountersOK,
        SupervisionAssumption, WorkSteps, ReadSteps, FinalSteps
  <2>5. CASE SupervisorCheck
    BY <2>5 DEF SupervisorCheck, StopNow, Halting, server, thread, durable,
        observed, PhaseFollowsSteps, TicketFollowsOutcome, WorkSteps,
        ReadSteps, FinalSteps
  <2>6. CASE SupervisorRenew
    BY <2>6 DEF SupervisorRenew, thread, durable, PhaseFollowsSteps,
        TicketFollowsOutcome, WorkSteps, ReadSteps, FinalSteps
  <2>7. CASE SupervisorGivesUp
    BY <2>7 DEF SupervisorGivesUp, GivesUp, Working, server, thread, durable,
        PhaseFollowsSteps, TicketFollowsOutcome, WorkSteps, ReadSteps,
        FinalSteps
  <2>8. CASE SupervisorContinues
    BY <2>8 DEF SupervisorContinues, GivesUp, thread, durable, observed,
        PhaseFollowsSteps, TicketFollowsOutcome, WorkSteps, ReadSteps,
        FinalSteps
  <2>9. CASE SupervisorSleep
    BY <2>9 DEF SupervisorSleep, server, thread, durable, observed,
        PhaseFollowsSteps, TicketFollowsOutcome, WorkSteps, ReadSteps,
        FinalSteps
  <2>10. CASE StartRun
    BY <2>10 DEF StartRun, Offered, supervisor, durable, PhaseFollowsSteps,
        TicketFollowsOutcome, WorkSteps, ReadSteps, FinalSteps
  <2>11. CASE OpenRun
    BY <2>11 DEF OpenRun, server, thread, observed, PhaseFollowsSteps,
        TicketFollowsOutcome, IsTerminal, TerminalPhases, WorkSteps,
        ReadSteps, FinalSteps
  <2>12. CASE PreparationFails
    <3>1. pc = "manifest" /\ pc' \in {"ended", "finalize"}
      BY <2>12 DEF PreparationFails
    <3>2. outcome' # "succeeded" /\ UNCHANGED <<kind, restarts, phase, commit>>
      BY <2>12 DEF PreparationFails, durable
    <3>3. "refused_phase" \in notes' => "refused_phase" \in notes
      BY <2>12 DEF PreparationFails
    <3> QED
      BY <3>1, <3>2, <3>3 DEF PhaseFollowsSteps, ActivePhases, ReadSteps
  <2>13. CASE DirectOperation
    BY <2>13 DEF DirectOperation, TicketStatuses, supervisor, durable,
        observed, PhaseFollowsSteps, TicketFollowsOutcome, ActivePhases,
        WorkSteps, ReadSteps, FinalSteps
  <2>14. CASE TakeTicket
    BY <2>14 DEF TakeTicket, RequestPhase, supervisor, thread,
        PhaseFollowsSteps, TicketFollowsOutcome, SetPhase, CanTransition,
        IsTerminal, ForwardTransitions, ActivePhases, TerminalPhases,
        WorkSteps, ReadSteps, FinalSteps
  <2>15. CASE PrepareSandbox
    BY <2>15 DEF PrepareSandbox, server, supervisor, observed,
        PhaseFollowsSteps, TicketFollowsOutcome, WorkSteps, ReadSteps,
        FinalSteps
  <2>16. CASE RecordExecutor
    BY <2>16 DEF RecordExecutor, server, supervisor, thread, observed,
        PhaseFollowsSteps, TicketFollowsOutcome, WorkSteps, ReadSteps,
        FinalSteps
  <2>17. CASE BeginSession
    BY <2>17 DEF BeginSession, RequestPhase, WorkStep, server, supervisor,
        PhaseFollowsSteps, TicketFollowsOutcome, SetPhase, CanTransition,
        IsTerminal, ForwardTransitions, ActivePhases, TerminalPhases,
        WorkSteps, ReadSteps, FinalSteps
  <2>18. CASE EndSession
    BY <2>18 DEF EndSession, server, supervisor, thread, durable, observed,
        PhaseFollowsSteps, TicketFollowsOutcome, WorkSteps, ReadSteps,
        FinalSteps
  <2>19. CASE BeginGates
    BY <2>19 DEF BeginGates, RequestPhase, WorkStep, server, supervisor,
        PhaseFollowsSteps, TicketFollowsOutcome, SetPhase, CanTransition,
        IsTerminal, ForwardTransitions, ActivePhases, TerminalPhases,
        WorkSteps, ReadSteps, FinalSteps
  <2>20. CASE GatesPass
    BY <2>20 DEF GatesPass, RequestPhase, WorkStep, server, supervisor,
        PhaseFollowsSteps, TicketFollowsOutcome, SetPhase, CanTransition,
        IsTerminal, ForwardTransitions, ActivePhases, TerminalPhases,
        WorkSteps, ReadSteps, FinalSteps
  <2>21. CASE GatesFail
    BY <2>21 DEF GatesFail, RequestPhase, WorkStep, server, supervisor,
        PhaseFollowsSteps, TicketFollowsOutcome, SetPhase, CanTransition,
        IsTerminal, ForwardTransitions, ActivePhases, TerminalPhases,
        WorkSteps, ReadSteps, FinalSteps
  <2>22. CASE Commit
    BY <2>22 DEF Commit, RequestPhase, WorkStep, server, supervisor,
        PhaseFollowsSteps, TicketFollowsOutcome, SetPhase, CanTransition,
        IsTerminal, ForwardTransitions, ActivePhases, TerminalPhases,
        WorkSteps, ReadSteps, FinalSteps
  <2>23. CASE PublishCommit
    BY <2>23 DEF PublishCommit, RequestPhase, WorkStep, server, supervisor,
        PhaseFollowsSteps, TicketFollowsOutcome, SetPhase, CanTransition,
        IsTerminal, ForwardTransitions, ActivePhases, TerminalPhases,
        WorkSteps, ReadSteps, FinalSteps
  <2>24. CASE Revalidate
    BY <2>24 DEF Revalidate, RequestPhase, WorkStep, server, supervisor,
        PhaseFollowsSteps, TicketFollowsOutcome, SetPhase, CanTransition,
        IsTerminal, ForwardTransitions, ActivePhases, TerminalPhases,
        WorkSteps, ReadSteps, FinalSteps
  <2>25. CASE WorkflowsPass
    BY <2>25 DEF WorkflowsPass, server, supervisor, thread, durable,
        observed, PhaseFollowsSteps, TicketFollowsOutcome, WorkSteps,
        ReadSteps, FinalSteps
  <2>26. CASE WorkflowsFail
    BY <2>26 DEF WorkflowsFail, server, supervisor, durable, observed,
        PhaseFollowsSteps, TicketFollowsOutcome, WorkSteps, ReadSteps,
        FinalSteps
  <2>27. CASE AttachPullRequest
    BY <2>27 DEF AttachPullRequest, RequestPhase, WorkStep, server,
        supervisor, PhaseFollowsSteps, TicketFollowsOutcome, SetPhase,
        CanTransition, IsTerminal, ForwardTransitions, ActivePhases,
        TerminalPhases, WorkSteps, ReadSteps, FinalSteps
  <2>28. CASE HandOver
    BY <2>28 DEF HandOver, supervisor, durable, observed, PhaseFollowsSteps,
        TicketFollowsOutcome, ActivePhases, WorkSteps, ReadSteps, FinalSteps
  <2>29. CASE WorkFails
    BY <2>29 DEF WorkFails, LeftTicket, LeftSandbox, Working, TicketStatuses,
        supervisor, PhaseFollowsSteps, TicketFollowsOutcome, ErrorOutcomes,
        ActivePhases, WorkSteps, ReadSteps, FinalSteps
  <2>30. CASE WorkCancelled
    BY <2>30 DEF WorkCancelled, LeftSandbox, Cancellable, server, supervisor,
        observed, PhaseFollowsSteps, TicketFollowsOutcome, ActivePhases,
        WorkSteps, ReadSteps, FinalSteps
  <2>31. CASE ReadLost
    BY <2>31 DEF ReadLost, ReadFlag, server, supervisor, durable, observed,
        PhaseFollowsSteps, TicketFollowsOutcome, WorkSteps, ReadSteps,
        FinalSteps
  <2>32. CASE ReadTimeout
    BY <2>32 DEF ReadTimeout, ReadFlag, server, supervisor, durable,
        observed, PhaseFollowsSteps, TicketFollowsOutcome, WorkSteps,
        ReadSteps, FinalSteps
  <2>33. CASE RequestStop
    BY <2>33 DEF RequestStop, server, supervisor, thread, durable, observed,
        PhaseFollowsSteps, TicketFollowsOutcome, WorkSteps, ReadSteps,
        FinalSteps
  <2>34. CASE Join
    BY <2>34 DEF Join, server, supervisor, thread, durable, observed,
        PhaseFollowsSteps, TicketFollowsOutcome, WorkSteps, ReadSteps,
        FinalSteps
  <2>35. CASE ResolveOutcome
    <3>1. pc = "resolve" /\ pc' \in {"retain", "finalize"}
      BY <2>35 DEF ResolveOutcome
    <3>2. outcome' = "succeeded" => result = "ok"
      BY <2>35 DEF ResolveOutcome, Resolve, TypeOK, ThreadsOK, Results, ErrorOutcomes
    <3>3. UNCHANGED <<kind, restarts, phase, commit, notes>>
      BY <2>35 DEF ResolveOutcome, durable, observed
    <3> QED
      BY <3>1, <3>2, <3>3 DEF PhaseFollowsSteps, ReadSteps
  <2>36. CASE RetainSandbox
    BY <2>36 DEF RetainSandbox, server, supervisor, thread, observed,
        PhaseFollowsSteps, TicketFollowsOutcome, WorkSteps, ReadSteps,
        FinalSteps
  <2>37. CASE FinalizeSuccess
    BY <2>37 DEF FinalizeSuccess, RequestPhase, server, supervisor, thread,
        PhaseFollowsSteps, TicketFollowsOutcome, SetPhase, CanTransition,
        IsTerminal, ForwardTransitions, ActivePhases, TerminalPhases,
        WorkSteps, ReadSteps, FinalSteps
  <2>38. CASE FinalizeFails
    BY <2>38 DEF FinalizeFails, server, supervisor, thread, durable,
        observed, PhaseFollowsSteps, TicketFollowsOutcome, WorkSteps,
        ReadSteps, FinalSteps
  <2>39. CASE FinalizeLeaseLost
    BY <2>39 DEF FinalizeLeaseLost, server, supervisor, thread, durable,
        observed, PhaseFollowsSteps, TicketFollowsOutcome, WorkSteps,
        ReadSteps, FinalSteps
  <2>40. CASE FinalizeFailure
    BY <2>40 DEF FinalizeFailure, RequestPhase, TerminalPhase, server,
        supervisor, thread, PhaseFollowsSteps, TicketFollowsOutcome,
        ErrorOutcomes, SetPhase, CanTransition, IsTerminal,
        ForwardTransitions, ActivePhases, TerminalPhases, WorkSteps,
        ReadSteps, FinalSteps
  <2>41. CASE ReportStep
    BY <2>41 DEF ReportStep, AfterCall, server, supervisor, thread, durable,
        PhaseFollowsSteps, TicketFollowsOutcome, WorkSteps, ReadSteps,
        FinalSteps
  <2>42. CASE ReportComment
    BY <2>42 DEF ReportComment, Write, AfterCall, server, supervisor, thread,
        durable, PhaseFollowsSteps, TicketFollowsOutcome, WorkSteps,
        ReadSteps, FinalSteps
  <2>43. CASE SetTicketStatus
    BY <2>43 DEF SetTicketStatus, Write, AfterCall, TerminalTicket,
        supervisor, thread, durable, PhaseFollowsSteps, TicketFollowsOutcome,
        WorkSteps, ReadSteps, FinalSteps
  <2>44. CASE UpdateRun
    BY <2>44 DEF UpdateRun, Write, UpdateAccepted, TerminalStatus,
        supervisor, thread, durable, PhaseFollowsSteps, TicketFollowsOutcome,
        WorkSteps, ReadSteps, FinalSteps
  <2>45. CASE Unwind
    BY <2>45 DEF Unwind, server, supervisor, thread, observed,
        PhaseFollowsSteps, TicketFollowsOutcome, WorkSteps, ReadSteps,
        FinalSteps
  <2>46. CASE DestroySandbox
    BY <2>46 DEF DestroySandbox, server, supervisor, thread, observed,
        PhaseFollowsSteps, TicketFollowsOutcome, WorkSteps, ReadSteps,
        FinalSteps
  <2>47. CASE RecordDestroyed
    BY <2>47 DEF RecordDestroyed, server, supervisor, thread, observed,
        PhaseFollowsSteps, TicketFollowsOutcome, WorkSteps, ReadSteps,
        FinalSteps
  <2>48. CASE UNCHANGED vars
    BY <2>48 DEF vars, server, supervisor, thread, durable, observed,
        PhaseFollowsSteps
  <2>49. CASE Hang
    BY <2>49 DEF Hang, Working, server, supervisor, thread, observed,
        PhaseFollowsSteps, WorkSteps, ReadSteps, FinalSteps
  <2> QED
    BY <2>1, <2>2, <2>3, <2>4, <2>5, <2>6, <2>7, <2>8, <2>9, <2>10, <2>11,
        <2>12, <2>13, <2>14, <2>15, <2>16, <2>17, <2>18, <2>19, <2>20, <2>21,
        <2>22, <2>23, <2>24, <2>25, <2>26, <2>27, <2>28, <2>29, <2>30, <2>31,
        <2>32, <2>33, <2>34, <2>35, <2>36, <2>37, <2>38, <2>39, <2>40, <2>41,
        <2>42, <2>43, <2>44, <2>45, <2>46, <2>47, <2>48, <2>49
        DEF Next, Environment,
        Supervisor, Execution, Bounded, Waiting, Finished
<1>3. PhaseFollowsSteps => UninterruptedPhases
  BY DEF PhaseFollowsSteps, UninterruptedPhases
<1> QED
  BY <1>1, <1>2, <1>3, TypeCorrect, Inductive, PTL DEF Spec

=============================================================================
