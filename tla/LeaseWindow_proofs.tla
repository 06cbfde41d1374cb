-------------------------- MODULE LeaseWindow_proofs --------------------------
(***************************************************************************)
(* How long a worker of LeaseWindow may execute without hearing of its     *)
(* lease, and when that is inside the lease, for every heartbeat interval, *)
(* lease and network delay.                                                *)
(***************************************************************************)
EXTENDS LeaseWindow, TLAPS

-----------------------------------------------------------------------------
\* The control plane granted the lease no earlier than the round began.
GrantIsRecent == granted = "yes" => step = "round" /\ age <= elapsed

\* The worker hears of a grant at most one round (or the start-up) late.
ClocksAgree == age <= unconfirmed + StartLagOrLag

\* A worker goes to sleep only with less than the limit unconfirmed, and time
\* passes by at most a sleep and a round before it is asked again.
AskedInTime ==
    /\ step = "sleep" => unconfirmed < Limit + elapsed
    /\ step = "round" => unconfirmed < Limit + Heartbeat + elapsed

IInv == TypeOK /\ GrantIsRecent /\ ClocksAgree /\ AskedInTime

\* Under the assumption on the configuration (config.rs) the saturating
\* subtraction and the maximum in LeaseMonitor::new have no effect.
LEMMA LimitValue == Limit = Lease - 2 * Heartbeat /\ Limit > Heartbeat
  BY WindowAssumption, SMT DEF WindowAssumption, Limit

\* The lag that bounds the distance of the two clocks covers both of its causes.
LEMMA LagValue == StartLagOrLag \in Nat /\ Lag <= StartLagOrLag /\ StartLag <= StartLagOrLag
  BY WindowAssumption, SMT DEF WindowAssumption, StartLagOrLag

\* Supervision starts with the two clocks as far apart as the start-up lag.
LEMMA InitIInv == Init => IInv
  <1> USE WindowAssumption DEF WindowAssumption
  <1> QED
    BY LimitValue, LagValue, SMT
    DEF Init, IInv, TypeOK, GrantIsRecent, ClocksAgree, AskedInTime

\* Every step of the clock, the control plane and the supervisor keeps the
\* distance of the clocks and the age of the last confirmation bounded.
LEMMA NextIInv == IInv /\ [Next]_vars => IInv'
  <1> USE WindowAssumption DEF WindowAssumption
  <1> SUFFICES ASSUME IInv, [Next]_vars PROVE IInv'
    OBVIOUS
  <1> USE LimitValue, LagValue
          DEF IInv, TypeOK, GrantIsRecent, ClocksAgree, AskedInTime
  <1> HIDE DEF Limit, StartLagOrLag
  <1>1. CASE Tick
    BY <1>1, SMT DEF Tick
  <1>2. CASE Grant
    BY <1>2, SMT DEF Grant
  <1>3. CASE Confirm
    BY <1>3, SMT DEF Confirm, RoundEnds
  <1>4. CASE Tolerate
    BY <1>4, SMT DEF Tolerate, RoundEnds
  <1>5. CASE GiveUp
    BY <1>5, SMT DEF GiveUp, RoundEnds
  <1>6. CASE WakeUp
    BY <1>6, SMT DEF WakeUp
  <1>7. CASE UNCHANGED vars
    BY <1>7, SMT DEF vars
  <1>8. QED
    BY <1>1, <1>2, <1>3, <1>4, <1>5, <1>6, <1>7 DEF Next, Stopped

\* The two clocks and the age of the last confirmation stay related in every
\* behaviour of the supervisor.
THEOREM ClocksRelated == Spec => []IInv
  BY InitIInv, NextIInv, PTL DEF Spec

\* Type correctness of the supervisor's clocks.
THEOREM TypeCorrect == Spec => []TypeOK
  <1>1. IInv => TypeOK
    BY DEF IInv
  <1>2. QED
    BY <1>1, ClocksRelated, PTL

\* For every configuration, a worker that hears of no renewal stops executing
\* within the limit, one heartbeat interval and one round.
THEOREM StopsInTime == Spec => []UncertaintyBounded
  <1>1. IInv => UncertaintyBounded
    BY WindowAssumption, LimitValue, SMT
    DEF IInv, TypeOK, AskedInTime, UncertaintyBounded, WindowAssumption
  <1>2. QED
    BY <1>1, ClocksRelated, PTL

\* For every configuration whose rounds and start-up together fit in a heartbeat
\* interval, a worker that still executes still owns its lease.
THEOREM OwnsLease == Spec => []WithinLeaseIfShort
  <1>1. IInv => WithinLeaseIfShort
    BY WindowAssumption, LimitValue, LagValue, SMT
    DEF IInv, TypeOK, AskedInTime, ClocksAgree, WithinLeaseIfShort, WithinLease,
        RoundsAreShort, WindowAssumption
  <1>2. QED
    BY <1>1, ClocksRelated, PTL

=============================================================================
