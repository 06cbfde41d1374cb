-------------------------- MODULE TerminalDelivery ---------------------------
(* The callback that tells the backend the result of an attempt: a journal   *)
(* of its own, from which the next step is derived.  A worker decides on the *)
(* copy it has loaded, calls the backend, and appends what it observed; the  *)
(* journal refuses what does not fit (src/src/execution_protocol/            *)
(* terminal_delivery.rs).  Transport and store are external: a call may be   *)
(* lost or answered late, workers overlap, and one may die.                  *)
EXTENDS Naturals, FiniteSets

CONSTANTS
    Couriers,           \* workers that drive the delivery
    MaxAttempts,        \* max_attempts
    MaxReconciliations  \* max_reconciliation_observations_per_attempt

ASSUME LimitsAssumption ==
    /\ IsFiniteSet(Couriers) /\ Couriers # {}
    /\ MaxAttempts \in Nat \ {0} /\ MaxReconciliations \in Nat \ {0}

VARIABLES
    journal,    \* attempt, observations of it and the last of them
    courier,    \* what each worker does, and the event it will append
    backend     \* the last attempt that was sent, and what is true: the result
                \* was "Accepted", a call nobody waits for may land "Late", an
                \* attempt was "Repeated"

vars == <<journal, courier, backend>>

Observations == {"Acknowledged", "Retryable", "Permanent", "Indeterminate"}
Empty == [attempt |-> 0, observations |-> 0, last |-> "None"]
Journals == [attempt : 0 .. MaxAttempts, observations : 0 .. MaxReconciliations + 1,
             last : Observations \cup {"None"}]

\* An event of an attempt: its intent has index 0, its observations follow.
Events == [attempt : 0 .. MaxAttempts, index : 0 .. MaxReconciliations + 1,
           observation : Observations \cup {"None"}]
Event(a, i, o) == [attempt |-> a, index |-> i, observation |-> o]
NoEvent == Event(0, 0, "None")

\* Type invariant of the delivery.
TypeOK ==
    /\ journal \in Journals
    /\ courier \in [Couriers -> [at : {"Idle", "Sending", "Reconciling", "Appending", "Dead"},
                                 event : Events]]
    /\ backend \in [sent : 0 .. MaxAttempts, facts : SUBSET {"Accepted", "Late", "Repeated"}]

Init ==
    /\ journal = Empty
    /\ courier = [c \in Couriers |-> [at |-> "Idle", event |-> NoEvent]]
    /\ backend = [sent |-> 0, facts |-> {}]
-----------------------------------------------------------------------------
(* The projection.                                                           *)

\* Mutant: an attempt nobody knows the outcome of is one that failed.
StatusOfSilence ==
    IF journal.attempt = 0 THEN "Pending"
    ELSE IF journal.observations = 0 THEN "ReadyToSend"
    ELSE
      CASE journal.last = "Acknowledged" -> "Acknowledged"
        [] journal.last = "Permanent" -> "DefinitelyFailed"
        [] OTHER -> IF journal.attempt >= MaxAttempts THEN "RetryExhausted" ELSE "RetryReady"

Status ==
    IF journal.attempt = 0 THEN "Pending"
    ELSE IF journal.observations = 0 THEN "ReadyToSend"
    ELSE
      CASE journal.last = "Acknowledged" -> "Acknowledged"
        [] journal.last = "Permanent" -> "DefinitelyFailed"
        [] journal.last = "Retryable" ->
             IF journal.attempt >= MaxAttempts THEN "RetryExhausted" ELSE "RetryReady"
        [] journal.last = "Indeterminate" ->
             IF journal.observations - 1 >= MaxReconciliations
             THEN "ReconciliationExhausted" ELSE "ReconciliationRequired"

\* The event that may come next, but for what is observed.
Fits(e) ==
    \/ /\ Status \in {"Pending", "RetryReady"}
       /\ e.index = 0 /\ e.attempt = journal.attempt + 1
    \/ /\ Status \in {"ReadyToSend", "ReconciliationRequired"}
       /\ e.attempt = journal.attempt /\ e.index = journal.observations + 1

\* An event with the identity of one that is there changes nothing, whether it
\* is the same or refused as a conflict; so does one out of sequence.
Extended(e) ==
    IF Fits(e)
    THEN [attempt |-> e.attempt, observations |-> e.index, last |-> e.observation]
    ELSE journal
-----------------------------------------------------------------------------
(* A worker.                                                                 *)

Does(c, place, e) == courier' = [courier EXCEPT ![c] = [at |-> place, event |-> e]]
In(c, place) == courier[c].at = place

Accepted == "Accepted" \in backend.facts
Late == "Late" \in backend.facts

IntentDecided(c) ==
    /\ In(c, "Idle") /\ Status \in {"Pending", "RetryReady"}
    /\ Does(c, "Appending", Event(journal.attempt + 1, 0, "None"))
    /\ UNCHANGED <<journal, backend>>

\* No send without its intent in the journal; but until its observation is
\* there too, every worker that looks is told to send.
SendDecided(c) ==
    /\ In(c, "Idle") /\ Status = "ReadyToSend"
    /\ Does(c, "Sending", Event(journal.attempt, 1, "None"))
    /\ backend' = [backend EXCEPT !.sent = journal.attempt,
                      !.facts = IF backend.sent = journal.attempt
                                THEN @ \cup {"Repeated"} ELSE @]
    /\ UNCHANGED journal

\* Nothing but a look at what became of the attempt, if that is not known.
ReconcileDecided(c) ==
    /\ In(c, "Idle") /\ Status = "ReconciliationRequired"
    /\ Does(c, "Reconciling", Event(journal.attempt, journal.observations + 1, "None"))
    /\ UNCHANGED <<journal, backend>>

Observed(c, o) ==
    Does(c, "Appending", [courier[c].event EXCEPT !.observation = o])

Appended(c) ==
    /\ In(c, "Appending")
    /\ journal' = Extended(courier[c].event)
    /\ Does(c, "Idle", NoEvent)
    /\ UNCHANGED backend
-----------------------------------------------------------------------------
(* The backend: it takes the result once, by the idempotency key.            *)

\* What becomes of a call nobody waits for any more.
LeftBehind == [backend EXCEPT !.facts = IF Accepted THEN @ ELSE @ \cup {"Late"}]

Answered(c) ==
    /\ In(c, "Sending")
    /\ \/ Accepted /\ Observed(c, "Acknowledged") /\ UNCHANGED backend
       \/ /\ ~Accepted
          /\ \E o \in {"Retryable", "Permanent"} : Observed(c, o)
          /\ UNCHANGED backend
       \/ Observed(c, "Indeterminate") /\ backend' = LeftBehind
    /\ UNCHANGED journal

\* An attempt has definitely failed when no call for it can land any more.
Reconciled(c) ==
    /\ In(c, "Reconciling")
    /\ \/ Accepted /\ Observed(c, "Acknowledged")
       \/ /\ ~Accepted /\ ~Late
          /\ \A d \in Couriers : ~In(d, "Sending")
          /\ \E o \in {"Retryable", "Permanent"} : Observed(c, o)
       \/ Observed(c, "Indeterminate")
    /\ UNCHANGED <<journal, backend>>

CallLands ==
    /\ ~Accepted
    /\ Late \/ \E c \in Couriers : In(c, "Sending")
    /\ backend' = [backend EXCEPT !.facts = (@ \ {"Late"}) \cup {"Accepted"}]
    /\ UNCHANGED <<journal, courier>>

CallLost ==
    /\ Late /\ backend' = [backend EXCEPT !.facts = @ \ {"Late"}]
    /\ UNCHANGED <<journal, courier>>

\* One of the workers is left.
Dies(c) ==
    /\ \E d \in Couriers \ {c} : ~In(d, "Dead")
    /\ ~In(c, "Dead")
    /\ Does(c, "Dead", NoEvent)
    /\ backend' = IF In(c, "Sending") THEN LeftBehind ELSE backend
    /\ UNCHANGED journal
-----------------------------------------------------------------------------
Courier(c) ==
    \/ IntentDecided(c) \/ SendDecided(c) \/ ReconcileDecided(c)
    \/ Answered(c) \/ Reconciled(c) \/ Appended(c)

Next ==
    \/ \E c \in Couriers : Courier(c) \/ Dies(c)
    \/ CallLands \/ CallLost

Spec == Init /\ [][Next]_vars

FairSpec ==
    Spec /\ \A c \in Couriers : WF_vars(Courier(c))
-----------------------------------------------------------------------------
Verdict ==
    CASE Status = "Acknowledged" -> "Acknowledged"
      [] Status \in {"DefinitelyFailed", "RetryExhausted"} -> "Failed"
      [] Status = "ReconciliationExhausted" -> "Unknown"
      [] Status \in {"Pending", "ReadyToSend", "RetryReady", "ReconciliationRequired"} ->
           "Owed"

\* With workers that overlap, die and lose answers, the journal's order of
\* intent, call and observation tells the backend the result once, never calls
\* failed what may still arrive unless an attempt was sent twice, and never asks
\* for ever (decide, observe, append and derive_status in terminal_delivery.rs).
Once == INSTANCE CallbackOnce
          WITH facts <- backend.facts \ {"Late"}, verdict <- Verdict
CallbackSpec == Once!Spec

\* All of it but that the delivery settles.
CallbackSafety == Once!Init /\ [][Once!Next]_(Once!vars)
=============================================================================
