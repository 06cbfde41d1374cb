------------------------------ MODULE RunPhase ------------------------------
(***************************************************************************)
(* The persisted run lifecycle of rustgrid-agent (src/lifecycle.rs): the   *)
(* phases of a run, the terminal ones, the transitions the table admits    *)
(* and the typed outcome a finished execution resolves to                  *)
(* (src/outcome.rs).                                                       *)
(***************************************************************************)

TerminalPhases == {"Succeeded", "Blocked", "Failed", "Cancelled", "TimedOut"}

ActivePhases == {"Claimed", "Preparing", "Executing", "Verifying",
                 "Publishing", "AwaitingReview"}

Phases == ActivePhases \cup TerminalPhases

IsTerminal(phase) == phase \in TerminalPhases

\* Mutant: no way back from publication to verification.
NoRevalidationEdge ==
    { <<"Claimed", "Preparing">>, <<"Preparing", "Executing">>,
      <<"Preparing", "Publishing">>, <<"Executing", "Verifying">>,
      <<"Verifying", "Executing">>, <<"Verifying", "Publishing">>,
      <<"Publishing", "Executing">>, <<"Publishing", "AwaitingReview">>,
      <<"AwaitingReview", "Succeeded">> }

\* The forward edges of the table; leaving for a failure is always allowed.
ForwardTransitions ==
    { <<"Claimed", "Preparing">>,
      <<"Preparing", "Executing">>,
      <<"Preparing", "Publishing">>,
      <<"Executing", "Verifying">>,
      <<"Verifying", "Executing">>,
      <<"Verifying", "Publishing">>,
      <<"Publishing", "Executing">>,
      <<"Publishing", "Verifying">>,
      <<"Publishing", "AwaitingReview">>,
      <<"AwaitingReview", "Succeeded">> }

CanTransition(phase, next) ==
    /\ ~IsTerminal(phase)
    /\ \/ <<phase, next>> \in ForwardTransitions
       \/ next \in TerminalPhases \ {"Succeeded"}

\* Reporter::set_phase: a transition the table refuses leaves the phase alone.
SetPhase(phase, next) == IF CanTransition(phase, next) THEN next ELSE phase

-----------------------------------------------------------------------------
\* What an execution closure can fail with, classified by terminal_outcome().
ErrorOutcomes == {"lease_lost", "cancelled", "timed_out", "blocked", "failed"}
Outcomes == {"succeeded"} \cup ErrorOutcomes
Results == {"ok"} \cup ErrorOutcomes

\* Mutant: the lease flag is not consulted.
ResolveIgnoringLoss(result, leaseLost, timedOut, running, stopping) ==
    IF timedOut THEN "timed_out"
    ELSE IF result = "ok" THEN "succeeded"
    ELSE IF stopping \/ ~running THEN "cancelled"
    ELSE result

(***************************************************************************)
(* RunOutcome::resolve: the supervisor's flags win over the result; an     *)
(* error while the worker stops or after supervision cleared the running   *)
(* flag is a cancellation whatever the error was.                          *)
(***************************************************************************)
Resolve(result, leaseLost, timedOut, running, stopping) ==
    IF leaseLost THEN "lease_lost"
    ELSE IF timedOut THEN "timed_out"
    ELSE IF result = "ok" THEN "succeeded"
    ELSE IF stopping \/ ~running THEN "cancelled"
    ELSE result

=============================================================================
