----------------------------- MODULE LeaseWindow -----------------------------
(***************************************************************************)
(* The clock of the lease supervisor (src/supervisor.rs, LeaseMonitor).    *)
(* The control plane grants the lease for Lease units from the moment it   *)
(* applies a renewal; the worker counts from the moment it hears of it,    *)
(* sleeps one heartbeat interval between rounds, and gives the lease up    *)
(* only when a round ends without an answer and the uncertainty limit has  *)
(* passed.  A round is two calls of the retrying client, so it may last    *)
(* long.  The question is whether a worker that executes still owns the    *)
(* lease.  Clocks are relative, so the state space is finite without a     *)
(* bound on time.                                                          *)
(***************************************************************************)
EXTENDS Integers

CONSTANTS
    Heartbeat,      \* heartbeat_interval_seconds
    Lease,          \* lease_seconds
    Lag,            \* the longest a renewal round takes, retries included
    StartLag        \* from the assignment of the run to supervision

\* config.rs: three heartbeats fit strictly inside a lease.
ASSUME WindowAssumption ==
    /\ Heartbeat \in Nat \ {0} /\ Lease \in Nat
    /\ Lag \in Nat /\ StartLag \in Nat
    /\ 3 * Heartbeat < Lease

VARIABLES
    step,           \* where the supervisor thread is
    elapsed,        \* for how long
    granted,        \* the control plane applied a renewal of this round
    age,            \* time since the lease was last granted
    unconfirmed     \* time since the worker last heard of a grant

vars == <<step, elapsed, granted, age, unconfirmed>>

\* Mutant: the uncertainty limit is the whole lease.
WholeLease == Lease

\* uncertainty_limit; saturating_sub and max have no effect under the assumption.
Limit == LET safe == IF 2 * Heartbeat <= Lease THEN Lease - 2 * Heartbeat ELSE 0
         IN  IF safe < Heartbeat THEN Heartbeat ELSE safe

StartLagOrLag == IF StartLag < Lag THEN Lag ELSE StartLag

TypeOK ==
    /\ step \in {"round", "sleep", "stopped"}
    /\ granted \in {"yes", "no"}
    /\ elapsed \in 0..(IF step = "round" THEN Lag ELSE Heartbeat)
    /\ age \in Nat /\ unconfirmed \in Nat

\* LeaseMonitor::new counts from the start of supervision.
Init ==
    /\ step = "round" /\ elapsed = 0 /\ granted = "no"
    /\ age \in 0..StartLag /\ unconfirmed = 0

-----------------------------------------------------------------------------
Tick ==
    /\ \/ step = "round" /\ elapsed < Lag
       \/ step = "sleep" /\ elapsed < Heartbeat
    /\ elapsed' = elapsed + 1 /\ age' = age + 1 /\ unconfirmed' = unconfirmed + 1
    /\ UNCHANGED <<step, granted>>

\* The control plane extends a lease that has not expired.
Grant ==
    /\ step = "round" /\ age < Lease
    /\ age' = 0 /\ granted' = "yes"
    /\ UNCHANGED <<step, elapsed, unconfirmed>>

RoundEnds(next) == /\ step = "round" /\ step' = next
                   /\ elapsed' = 0 /\ granted' = "no" /\ UNCHANGED age

\* observe, Ok: the clock restarts when the answer is heard.
Confirm == /\ granted = "yes" /\ RoundEnds("sleep")
           /\ unconfirmed' = 0

\* Mutant: an unavailable answer is always tolerated.
TolerateAlways == /\ RoundEnds("sleep")
                  /\ UNCHANGED unconfirmed

\* observe, Unavailable inside the limit.
Tolerate == /\ unconfirmed < Limit /\ RoundEnds("sleep")
            /\ UNCHANGED unconfirmed

\* observe, Unavailable beyond the limit, or Lost: execution is cancelled.
GiveUp == /\ unconfirmed >= Limit \/ age >= Lease
          /\ RoundEnds("stopped")
          /\ UNCHANGED unconfirmed

\* The sleep of one heartbeat interval ends and the next round begins.
WakeUp == /\ step = "sleep" /\ elapsed = Heartbeat
          /\ step' = "round" /\ elapsed' = 0
          /\ UNCHANGED <<granted, age, unconfirmed>>

Stopped == step = "stopped" /\ UNCHANGED vars

Next == Tick \/ Grant \/ Confirm \/ Tolerate \/ GiveUp \/ WakeUp \/ Stopped

Spec == Init /\ [][Next]_vars

-----------------------------------------------------------------------------
\* A worker that hears of no grant stops executing before this much time has
\* passed: the limit, one heartbeat interval and the round that notices it
\* (LeaseMonitor::observe is asked only at the end of a round).
UncertaintyBounded == step # "stopped" => unconfirmed < Limit + Heartbeat + Lag

\* The worker executes only while it owns the lease
\* (docs/worker-api-contract.md: "Transient failures are tolerated only while
\* the last confirmed lease remains safely inside its expiry window").
WithinLease == step # "stopped" => age <= Lease

\* The condition on the network under which the limit the code chose keeps it:
\* rounds and start-up together fit in a heartbeat interval.
RoundsAreShort == Lag + StartLagOrLag <= Heartbeat + 1

\* Under that condition the uncertainty limit of LeaseMonitor::new stops a worker
\* that hears nothing before another worker can be granted its lease.
WithinLeaseIfShort == RoundsAreShort => WithinLease

=============================================================================
