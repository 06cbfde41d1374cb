----------------------- MODULE TerminalDelivery_proofs ------------------------
(* The delivery of a terminal result keeps the safety of CallbackOnce, for   *)
(* any workers and any limits of attempts and reconciliations.               *)
EXTENDS TerminalDelivery, TLAPS

-----------------------------------------------------------------------------
(* The invariant.                                                            *)

Negative == {"Retryable", "Permanent"}

\* The backend does not have the result, and no call can still bring it.
Quiet == /\ ~Accepted /\ ~Late
         /\ \A c \in Couriers : ~In(c, "Sending")

\* Event e is of the attempt the journal is at.
Current(e) == e.attempt = journal.attempt /\ e.index >= 1

\* Only attempts in the journal are sent, and observed only once sent; what is
\* about to be appended is not ahead of the journal by more than one.
Counted ==
    /\ journal.observations = 0 <=> journal.last = "None"
    /\ journal.attempt = 0 => journal.observations = 0
    /\ backend.sent <= journal.attempt
    /\ journal.observations >= 1 => backend.sent = journal.attempt

Ordered(c) == LET e == courier[c].event IN
    /\ In(c, "Sending") => e.index = 1
    /\ In(c, "Reconciling") => e.index >= 2
    /\ In(c, "Appending") => (e.index = 0 <=> e.observation = "None")
    /\ e.index >= 1 => e.attempt <= backend.sent
    /\ Current(e) => e.index <= journal.observations + 1

InOrder == Counted /\ \A c \in Couriers : Ordered(c)

\* An acknowledgement is one of the backend.
Truthful ==
    /\ journal.last = "Acknowledged" => Accepted
    /\ \A c \in Couriers :
         In(c, "Appending") /\ courier[c].event.observation = "Acknowledged"
           => Accepted

\* Nothing is on the way before an attempt is sent and after one has failed.
FailedIsOver ==
    /\ journal.attempt = 0 \/ backend.sent # journal.attempt => Quiet
    /\ journal.last \in Negative => Quiet
    /\ \A c \in Couriers : LET e == courier[c].event IN
         /\ In(c, "Appending") /\ e.observation \in Negative
         /\ Current(e) /\ e.index = journal.observations + 1
         => Quiet

\* An attempt that is being sent is the only call there is.
OneCall ==
    \A c \in Couriers : In(c, "Sending") =>
      /\ journal.observations = 0 /\ courier[c].event.attempt = journal.attempt
      /\ ~Late
      /\ \A d \in Couriers \ {c} :
           /\ ~In(d, "Sending")
           /\ ~(In(d, "Appending") /\ Current(courier[d].event))

IInv == /\ TypeOK /\ InOrder /\ Truthful
        /\ "Repeated" \notin backend.facts => FailedIsOver /\ OneCall

-----------------------------------------------------------------------------
(* The projection.                                                           *)

Open == {"Pending", "ReadyToSend", "RetryReady", "ReconciliationRequired"}

\* What the status says of the journal (derive_status).
LEMMA StatusMeans ==
    ASSUME TypeOK, InOrder
    PROVE  /\ Status \in Open \cup {"Acknowledged", "DefinitelyFailed", "RetryExhausted",
                                     "ReconciliationExhausted"}
           /\ Status = "Pending" <=> journal.attempt = 0
           /\ Status = "ReadyToSend" <=> journal.attempt # 0 /\ journal.observations = 0
           /\ Status = "RetryReady" <=>
                journal.last = "Retryable" /\ journal.attempt < MaxAttempts
           /\ Status = "ReconciliationRequired" <=>
                journal.last = "Indeterminate" /\ journal.observations <= MaxReconciliations
           /\ Status = "Acknowledged" <=> journal.last = "Acknowledged"
           /\ Status = "DefinitelyFailed" <=> journal.last = "Permanent"
           /\ Status = "RetryExhausted" <=>
                journal.last = "Retryable" /\ journal.attempt >= MaxAttempts
           /\ Status = "ReconciliationExhausted" <=>
                journal.last = "Indeterminate" /\ journal.observations > MaxReconciliations
<1>1. /\ journal.attempt \in Nat /\ journal.observations \in Nat
      /\ journal.last \in Observations \cup {"None"}
      /\ MaxAttempts \in Nat /\ MaxReconciliations \in Nat
  BY LimitsAssumption DEF LimitsAssumption, TypeOK, Journals
<1>2. /\ journal.observations = 0 <=> journal.last = "None"
      /\ journal.attempt = 0 => journal.observations = 0
  BY DEF InOrder, Counted
<1>3. CASE journal.attempt = 0
  <2>1. Status = "Pending" BY <1>3 DEF Status
  <2> QED BY <1>1, <1>2, <1>3, <2>1 DEF Open
<1>4. CASE journal.attempt # 0 /\ journal.observations = 0
  <2>1. Status = "ReadyToSend" BY <1>4 DEF Status
  <2> QED BY <1>1, <1>2, <1>4, <2>1 DEF Open
<1>5. CASE journal.attempt # 0 /\ journal.observations # 0
  <2>1. journal.last \in Observations BY <1>1, <1>2, <1>5
  <2>2. CASE journal.last = "Acknowledged"
    <3>1. Status = "Acknowledged" BY <1>5, <2>2 DEF Status
    <3> QED BY <1>1, <1>5, <2>2, <3>1 DEF Open
  <2>3. CASE journal.last = "Permanent"
    <3>1. Status = "DefinitelyFailed" BY <1>5, <2>3 DEF Status
    <3> QED BY <1>1, <1>5, <2>3, <3>1 DEF Open
  <2>4. CASE journal.last = "Retryable"
    <3>1. Status = IF journal.attempt >= MaxAttempts THEN "RetryExhausted" ELSE "RetryReady"
      BY <1>5, <2>4 DEF Status
    <3> QED BY <1>1, <1>5, <2>4, <3>1 DEF Open
  <2>5. CASE journal.last = "Indeterminate"
    <3>1. Status = IF journal.observations - 1 >= MaxReconciliations
                   THEN "ReconciliationExhausted" ELSE "ReconciliationRequired"
      BY <1>5, <2>5 DEF Status
    <3> QED BY <1>1, <1>5, <2>5, <3>1 DEF Open
  <2> QED BY <2>1, <2>2, <2>3, <2>4, <2>5 DEF Observations
<1> QED BY <1>3, <1>4, <1>5

-----------------------------------------------------------------------------
(* The invariant is inductive.                                               *)

\* A delivery begins with nothing sent.
LEMMA InitIInv == Init => IInv
<1> SUFFICES ASSUME Init PROVE IInv
  OBVIOUS
<1>1. TypeOK
  BY LimitsAssumption DEF LimitsAssumption, Init, TypeOK, Journals, Events, Empty, NoEvent, Event
<1>2. InOrder /\ Truthful
  BY DEF Init, InOrder, Counted, Ordered, Truthful, Accepted, Empty, NoEvent, Event, In, Current
<1>3. FailedIsOver /\ OneCall
  BY DEF Init, FailedIsOver, OneCall, Quiet, Accepted, Late, Empty, NoEvent, Event, In, Current, Negative
<1> QED BY <1>1, <1>2, <1>3 DEF IInv

\* Every step keeps the types.
LEMMA NextTypeOK == ASSUME TypeOK, InOrder, [Next]_vars PROVE TypeOK'
<1> USE LimitsAssumption DEF LimitsAssumption, TypeOK, Journals, Events
<1>1. ASSUME NEW c \in Couriers, IntentDecided(c) PROVE TypeOK'
  <2>1. journal.attempt + 1 \in 0 .. MaxAttempts
    BY <1>1, StatusMeans, SMT DEF IntentDecided
  <2> QED BY <1>1, <2>1 DEF IntentDecided, Does, Event, Observations
<1>2. ASSUME NEW c \in Couriers, SendDecided(c) PROVE TypeOK'
  <2>1. 1 \in 0 .. MaxReconciliations + 1 OBVIOUS
  <2>2. courier' = [courier EXCEPT ![c] = [at |-> "Sending", event |->
                      [attempt |-> journal.attempt, index |-> 1, observation |-> "None"]]]
        /\ UNCHANGED journal
    BY <1>2 DEF SendDecided, Does, Event
  <2>3. backend'.facts \subseteq {"Accepted", "Late", "Repeated"}
    BY <1>2 DEF SendDecided
  <2>4. backend' \in [sent : 0 .. MaxAttempts, facts : SUBSET {"Accepted", "Late", "Repeated"}]
    BY <1>2, <2>3 DEF SendDecided
  <2> QED BY <2>1, <2>2, <2>4
<1>3. ASSUME NEW c \in Couriers, ReconcileDecided(c) PROVE TypeOK'
  <2>1. journal.observations + 1 \in 0 .. MaxReconciliations + 1
    BY <1>3, StatusMeans, SMT DEF ReconcileDecided
  <2> QED BY <1>3, <2>1 DEF ReconcileDecided, Does, Event
<1>4. ASSUME NEW c \in Couriers, Answered(c) \/ Reconciled(c) PROVE TypeOK'
  BY <1>4, SMT DEF Answered, Reconciled, Observed, LeftBehind, Does, Observations
<1>5. ASSUME NEW c \in Couriers, Appended(c) PROVE TypeOK'
  BY <1>5, SMT DEF Appended, Extended, Does, NoEvent, Event
<1>6. ASSUME NEW c \in Couriers, Dies(c) PROVE TypeOK'
  BY <1>6, SMT DEF Dies, LeftBehind, Does, NoEvent, Event
<1>7. CASE CallLands \/ CallLost
  BY <1>7, SMT DEF CallLands, CallLost
<1>8. CASE UNCHANGED vars
  BY <1>8 DEF vars
<1> QED
  BY <1>1, <1>2, <1>3, <1>4, <1>5, <1>6, <1>7, <1>8 DEF Next, Courier

\* What the fields of the variables are.
LEMMA Fields ==
    ASSUME TypeOK
    PROVE  /\ journal.attempt \in Nat /\ journal.observations \in Nat
           /\ backend.sent \in Nat
           /\ \A c \in Couriers :
                /\ courier[c].event.attempt \in Nat /\ courier[c].event.index \in Nat
                /\ courier[c].event.observation \in Observations \cup {"None"}
BY LimitsAssumption DEF LimitsAssumption, TypeOK, Journals, Events

\* A step of one courier leaves the others in order.
LEMMA OthersOrdered ==
    ASSUME TypeOK, InOrder, NEW d \in Couriers, courier'[d] = courier[d],
           backend'.sent \in Nat, backend.sent <= backend'.sent,
           \/ /\ journal'.attempt = journal.attempt
              /\ journal'.observations \in Nat /\ journal.observations <= journal'.observations
           \/ journal'.attempt \in Nat /\ journal'.attempt > backend.sent
    PROVE  Ordered(d)'
BY Fields, SMT DEF InOrder, Ordered, Current, In

\* What an answer makes of a courier, and of the rest.
LEMMA AnswerMeans ==
    ASSUME TypeOK, NEW c \in Couriers, Answered(c) \/ Reconciled(c)
    PROVE  \E o \in Observations :
             /\ courier'[c].at = "Appending"
             /\ courier'[c].event.attempt = courier[c].event.attempt
             /\ courier'[c].event.index = courier[c].event.index
             /\ courier'[c].event.observation = o
             /\ \A d \in Couriers \ {c} : courier'[d] = courier[d]
             /\ UNCHANGED journal /\ backend'.sent = backend.sent
             /\ o = "Acknowledged" => Accepted
             /\ o \in Negative => ~Accepted /\ UNCHANGED backend
             /\ o \in Negative /\ Reconciled(c) => Quiet
<1>1. PICK o \in Observations :
        /\ Observed(c, o)
        /\ o = "Acknowledged" => Accepted
        /\ o \in Negative => ~Accepted /\ UNCHANGED backend
        /\ o \in Negative /\ Reconciled(c) => Quiet
  <2>1. CASE Answered(c)
    <3>1. ~Reconciled(c) BY <2>1 DEF Answered, Reconciled, In
    <3> QED BY <2>1, <3>1 DEF Answered, Observations, Negative
  <2>2. CASE Reconciled(c)
    BY <2>2 DEF Reconciled, Observations, Negative, Quiet
  <2> QED BY <2>1, <2>2
<1>2. courier' = [courier EXCEPT ![c] =
        [at |-> "Appending", event |-> [courier[c].event EXCEPT !.observation = o]]]
  BY <1>1 DEF Observed, Does
<1>3. courier[c].event \in Events /\ courier \in [Couriers -> [at : {"Idle", "Sending",
        "Reconciling", "Appending", "Dead"}, event : Events]]
  BY DEF TypeOK
<1>4. /\ courier'[c] = [at |-> "Appending", event |-> [courier[c].event EXCEPT !.observation = o]]
      /\ \A d \in Couriers \ {c} : courier'[d] = courier[d]
  BY <1>2, <1>3
<1>5. UNCHANGED journal /\ backend'.sent = backend.sent
  BY DEF Answered, Reconciled, LeftBehind, TypeOK
<1> QED BY <1>1, <1>3, <1>4, <1>5 DEF Events

\* What the step of a courier does to the events of all.
LEMMA DoesMeans ==
    ASSUME TypeOK, NEW c \in Couriers, NEW place, NEW e, Does(c, place, e)
    PROVE  /\ courier'[c].at = place /\ courier'[c].event = e
           /\ \A d \in Couriers \ {c} : courier'[d] = courier[d]
BY DEF TypeOK, Does

\* Attempts and observations stay in order.
LEMMA NextInOrder == ASSUME TypeOK, InOrder, [Next]_vars PROVE InOrder'
<1> USE Fields
<1>0. Counted /\ \A c \in Couriers : Ordered(c)
  BY DEF InOrder
<1>1. ASSUME NEW c \in Couriers, IntentDecided(c) PROVE InOrder'
  <2>1. /\ courier'[c].at = "Appending" /\ courier'[c].event = Event(journal.attempt + 1, 0, "None")
        /\ \A d \in Couriers \ {c} : courier'[d] = courier[d]
        /\ UNCHANGED <<journal, backend>>
    BY <1>1, DoesMeans DEF IntentDecided
  <2>2. Counted' BY <1>0, <2>1 DEF Counted
  <2>3. Ordered(c)' BY <2>1 DEF Ordered, In, Current, Event
  <2> QED BY <2>1, <2>2, <2>3, OthersOrdered DEF InOrder
<1>2. ASSUME NEW c \in Couriers, SendDecided(c) PROVE InOrder'
  <2>1. journal.attempt # 0 /\ journal.observations = 0
    BY <1>2, StatusMeans DEF SendDecided
  <2>2. backend'.sent = journal.attempt /\ UNCHANGED journal
    BY <1>2 DEF SendDecided, TypeOK
  <2>3. /\ courier'[c].at = "Sending" /\ courier'[c].event = Event(journal.attempt, 1, "None")
        /\ \A d \in Couriers \ {c} : courier'[d] = courier[d]
    BY <1>2, DoesMeans DEF SendDecided
  <2>4. Counted' BY <1>0, <2>1, <2>2 DEF Counted
  <2>5. Ordered(c)' BY <2>1, <2>2, <2>3 DEF Ordered, In, Current, Event
  <2>6. backend.sent <= backend'.sent BY <1>0, <2>2 DEF Counted
  <2> QED BY <2>2, <2>3, <2>4, <2>5, <2>6, OthersOrdered DEF InOrder
<1>3. ASSUME NEW c \in Couriers, ReconcileDecided(c) PROVE InOrder'
  <2>1. journal.observations >= 1
    BY <1>0, <1>3, StatusMeans DEF ReconcileDecided, Counted
  <2>2. /\ courier'[c].at = "Reconciling"
        /\ courier'[c].event = Event(journal.attempt, journal.observations + 1, "None")
        /\ \A d \in Couriers \ {c} : courier'[d] = courier[d]
        /\ UNCHANGED <<journal, backend>>
    BY <1>3, DoesMeans DEF ReconcileDecided
  <2>3. Counted' BY <1>0, <2>2 DEF Counted
  <2>4. Ordered(c)' BY <1>0, <2>1, <2>2 DEF Counted, Ordered, In, Current, Event
  <2> QED BY <2>2, <2>3, <2>4, OthersOrdered DEF InOrder
<1>4. ASSUME NEW c \in Couriers, Answered(c) \/ Reconciled(c) PROVE InOrder'
  <2>1. PICK o \in Observations :
             /\ courier'[c].at = "Appending"
             /\ courier'[c].event.attempt = courier[c].event.attempt
             /\ courier'[c].event.index = courier[c].event.index
             /\ courier'[c].event.observation = o
             /\ \A d \in Couriers \ {c} : courier'[d] = courier[d]
             /\ UNCHANGED journal /\ backend'.sent = backend.sent
    BY <1>4, AnswerMeans
  <2>2. courier[c].event.index >= 1
    BY <1>0, <1>4 DEF Answered, Reconciled, Ordered
  <2>3. Counted' BY <1>0, <2>1 DEF Counted
  <2>4. Ordered(c)' BY <1>0, <2>1, <2>2 DEF Ordered, In, Current, Observations
  <2> QED BY <2>1, <2>3, <2>4, OthersOrdered DEF InOrder
<1>5. ASSUME NEW c \in Couriers, Appended(c) PROVE InOrder'
  <2> DEFINE e == courier[c].event
  <2>1. /\ courier'[c].at = "Idle" /\ courier'[c].event = NoEvent
        /\ \A d \in Couriers \ {c} : courier'[d] = courier[d]
        /\ UNCHANGED backend
    BY <1>5, DoesMeans DEF Appended
  <2>2. Ordered(c)' BY <2>1 DEF Ordered, In, Current, NoEvent, Event
  <2>3. CASE ~Fits(e)
    <3>1. UNCHANGED journal BY <1>5, <2>3 DEF Appended, Extended
    <3>2. Counted' BY <1>0, <2>1, <3>1 DEF Counted
    <3> QED BY <2>1, <2>2, <3>1, <3>2, OthersOrdered DEF InOrder
  <2>4. CASE Fits(e) /\ e.index = 0
    <3>1. journal' = [attempt |-> journal.attempt + 1, observations |-> 0, last |-> "None"]
      BY <1>0, <1>5, <2>4 DEF Appended, Extended, Fits, Ordered
    <3>2. Counted' BY <1>0, <2>1, <3>1 DEF Counted
    <3>3. journal'.attempt > backend.sent BY <1>0, <3>1 DEF Counted
    <3> QED BY <2>1, <2>2, <3>1, <3>2, <3>3, OthersOrdered DEF InOrder
  <2>5. CASE Fits(e) /\ e.index # 0
    <3>1. /\ e.attempt = journal.attempt /\ e.index = journal.observations + 1
          /\ journal' = [attempt |-> journal.attempt, observations |-> journal.observations + 1,
                         last |-> e.observation]
      BY <1>5, <2>5 DEF Appended, Extended, Fits
    <3>2. e.observation # "None" /\ backend.sent = journal.attempt
      BY <1>0, <1>5, <2>5, <3>1 DEF Appended, Ordered, Counted
    <3>3. journal.attempt # 0
      BY <2>5, StatusMeans DEF Fits, InOrder, Counted
    <3>4. Counted' BY <1>0, <2>1, <3>1, <3>2, <3>3 DEF Counted
    <3> QED BY <2>1, <2>2, <3>1, <3>4, OthersOrdered DEF InOrder
  <2> QED BY <2>3, <2>4, <2>5
<1>6. ASSUME NEW c \in Couriers, Dies(c) PROVE InOrder'
  <2>1. UNCHANGED journal /\ backend'.sent = backend.sent
    BY <1>6 DEF Dies, LeftBehind, TypeOK
  <2>2. /\ courier'[c].at = "Dead" /\ courier'[c].event = NoEvent
        /\ \A d \in Couriers \ {c} : courier'[d] = courier[d]
    BY <1>6, DoesMeans DEF Dies
  <2>3. Counted' BY <1>0, <2>1 DEF Counted
  <2>4. Ordered(c)' BY <2>2 DEF Ordered, In, Current, NoEvent, Event
  <2> QED BY <2>1, <2>2, <2>3, <2>4, OthersOrdered DEF InOrder
<1>7. CASE CallLands \/ CallLost
  <2>1. UNCHANGED <<journal, courier>> /\ backend'.sent = backend.sent
    BY <1>7 DEF CallLands, CallLost, TypeOK
  <2> QED BY <1>0, <2>1 DEF InOrder, Counted, Ordered, In, Current
<1>8. CASE UNCHANGED vars
  BY <1>0, <1>8 DEF vars, InOrder, Counted, Ordered, In, Current
<1> QED
  BY <1>1, <1>2, <1>3, <1>4, <1>5, <1>6, <1>7, <1>8 DEF Next, Courier

\* What is true of the backend stays true.
LEMMA FactsStay ==
    ASSUME TypeOK, [Next]_vars
    PROVE  /\ Accepted => Accepted'
           /\ "Repeated" \in backend.facts => "Repeated" \in backend'.facts
<1>1. \A f : (LeftBehind.facts = f) => backend.facts \subseteq f
  BY DEF LeftBehind, TypeOK
<1>2. ASSUME NEW c \in Couriers, Courier(c) PROVE backend.facts \subseteq backend'.facts
  <2>1. CASE SendDecided(c)
    BY <2>1 DEF SendDecided, TypeOK
  <2>2. CASE Answered(c)
    BY <1>1, <2>2 DEF Answered
  <2> QED
    BY <1>2, <2>1, <2>2 DEF Courier, IntentDecided, ReconcileDecided, Reconciled, Appended
<1>3. ASSUME NEW c \in Couriers, Dies(c) PROVE backend.facts \subseteq backend'.facts
  BY <1>1, <1>3 DEF Dies
<1>4. CASE CallLands \/ CallLost
  <2>1. backend.facts \ {"Late"} \subseteq backend'.facts
    BY <1>4 DEF CallLands, CallLost, TypeOK
  <2> QED BY <2>1 DEF Accepted
<1>5. CASE UNCHANGED vars
  BY <1>5 DEF vars, Accepted
<1> QED BY <1>2, <1>3, <1>4, <1>5 DEF Next, Accepted

\* Nobody says the backend has what it has not.
LEMMA NextTruthful == ASSUME TypeOK, Truthful, [Next]_vars PROVE Truthful'
<1>0. Accepted => Accepted'
  BY FactsStay
<1>1. ASSUME NEW c \in Couriers, IntentDecided(c) \/ SendDecided(c) \/ ReconcileDecided(c)
      PROVE  Truthful'
  <2>1. /\ courier'[c].at # "Appending" \/ courier'[c].event.observation = "None"
        /\ \A d \in Couriers \ {c} : courier'[d] = courier[d]
        /\ UNCHANGED journal
    BY <1>1, DoesMeans DEF IntentDecided, SendDecided, ReconcileDecided, Event
  <2> QED BY <1>0, <2>1 DEF Truthful, In
<1>2. ASSUME NEW c \in Couriers, Answered(c) \/ Reconciled(c) PROVE Truthful'
  <2>1. /\ courier'[c].event.observation = "Acknowledged" => Accepted
        /\ \A d \in Couriers \ {c} : courier'[d] = courier[d]
        /\ UNCHANGED journal
    BY <1>2, AnswerMeans
  <2> QED BY <1>0, <2>1 DEF Truthful, In
<1>3. ASSUME NEW c \in Couriers, Appended(c) PROVE Truthful'
  <2>1. /\ courier'[c].at = "Idle"
        /\ \A d \in Couriers \ {c} : courier'[d] = courier[d]
    BY <1>3, DoesMeans DEF Appended
  <2>2. journal'.last = journal.last \/ journal'.last = courier[c].event.observation
    BY <1>3 DEF Appended, Extended
  <2> QED BY <1>0, <1>3, <2>1, <2>2 DEF Truthful, In, Appended
<1>4. ASSUME NEW c \in Couriers, Dies(c) PROVE Truthful'
  <2>1. /\ courier'[c].at = "Dead"
        /\ \A d \in Couriers \ {c} : courier'[d] = courier[d]
        /\ UNCHANGED journal
    BY <1>4, DoesMeans DEF Dies
  <2> QED BY <1>0, <2>1 DEF Truthful, In
<1>5. CASE CallLands \/ CallLost \/ UNCHANGED vars
  <2>1. UNCHANGED <<journal, courier>> BY <1>5 DEF CallLands, CallLost, vars
  <2> QED BY <1>0, <2>1 DEF Truthful, In
<1> QED BY <1>1, <1>2, <1>3, <1>4, <1>5 DEF Next, Courier

\* As long as no attempt is sent twice there is one call at a time, and none
\* after the attempt has failed.
LEMMA NextUnrepeated ==
    ASSUME TypeOK, InOrder, FailedIsOver, OneCall, [Next]_vars,
           "Repeated" \notin backend'.facts
    PROVE  FailedIsOver' /\ OneCall'
<1> USE Fields
<1>0. Counted /\ \A c \in Couriers : Ordered(c)
  BY DEF InOrder
<1>1. ASSUME NEW c \in Couriers, IntentDecided(c) \/ ReconcileDecided(c)
      PROVE  FailedIsOver' /\ OneCall'
  <2>1. /\ ~In(c, "Sending") /\ courier'[c].at # "Sending"
        /\ courier'[c].at = "Appending" => courier'[c].event.index = 0
        /\ \A d \in Couriers \ {c} : courier'[d] = courier[d]
        /\ UNCHANGED <<journal, backend>>
    BY <1>1, DoesMeans DEF IntentDecided, ReconcileDecided, In, Event
  <2>2. Quiet => Quiet' BY <2>1 DEF Quiet, In, Accepted, Late
  <2>3. FailedIsOver' BY <2>1, <2>2 DEF FailedIsOver, In, Current
  <2>4. OneCall' BY <2>1 DEF OneCall, In, Current, Late
  <2> QED BY <2>3, <2>4
<1>2. ASSUME NEW c \in Couriers, SendDecided(c) PROVE FailedIsOver' /\ OneCall'
  <2>1. journal.attempt # 0 /\ journal.observations = 0 /\ journal.last = "None"
    BY <1>0, <1>2, StatusMeans DEF SendDecided, Counted
  <2>2. backend.sent # journal.attempt
    BY <1>2 DEF SendDecided, TypeOK
  <2>3. backend'.sent = journal.attempt /\ backend'.facts = backend.facts /\ UNCHANGED journal
    BY <1>2, <2>2 DEF SendDecided, TypeOK
  <2>4. /\ courier'[c].at = "Sending" /\ courier'[c].event = Event(journal.attempt, 1, "None")
        /\ \A d \in Couriers \ {c} : courier'[d] = courier[d]
    BY <1>2, DoesMeans DEF SendDecided
  <2>5. Quiet BY <2>2 DEF FailedIsOver
  <2>6. ASSUME NEW d \in Couriers PROVE ~Current(courier[d].event)
    BY <1>0, <2>2 DEF Counted, Ordered, Current
  <2>7. ASSUME NEW d \in Couriers \ {c} PROVE ~Current(courier[d].event)'
    BY <2>3, <2>4, <2>6 DEF Current
  <2>8. FailedIsOver'
    <3>1. ~(journal'.attempt = 0 \/ backend'.sent # journal'.attempt) BY <2>1, <2>3
    <3>2. journal'.last \notin Negative BY <2>1, <2>3 DEF Negative
    <3> QED BY <2>4, <2>7, <3>1, <3>2 DEF FailedIsOver, In
  <2>9. OneCall'
    <3>1. \A d \in Couriers \ {c} : ~In(d, "Sending")' BY <2>4, <2>5 DEF Quiet, In
    <3>2. ~Late' BY <2>3, <2>5 DEF Quiet, Late
    <3> QED BY <2>1, <2>3, <2>4, <2>7, <3>1, <3>2 DEF OneCall, In, Event
  <2> QED BY <2>8, <2>9
<1>3. ASSUME NEW c \in Couriers, Answered(c) PROVE FailedIsOver' /\ OneCall'
  <2>1. In(c, "Sending") /\ ~Quiet BY <1>3 DEF Answered, Quiet
  <2>2. PICK o \in Observations :
             /\ courier'[c].at = "Appending"
             /\ courier'[c].event.observation = o
             /\ \A d \in Couriers \ {c} : courier'[d] = courier[d]
             /\ UNCHANGED journal /\ backend'.sent = backend.sent
             /\ o \in Negative => ~Accepted /\ UNCHANGED backend
    BY <1>3, AnswerMeans
  <2>3. ~Late /\ \A d \in Couriers \ {c} : ~In(d, "Sending")
    BY <2>1 DEF OneCall
  <2>4. \A d \in Couriers : ~In(d, "Sending")'
    BY <2>2, <2>3 DEF In
  <2>5. o \in Negative => Quiet' BY <2>2, <2>3, <2>4 DEF Quiet, Accepted, Late
  <2>6. FailedIsOver' BY <2>1, <2>2, <2>5 DEF FailedIsOver, In, Current
  <2> QED BY <2>4, <2>6 DEF OneCall
<1>4. ASSUME NEW c \in Couriers, Reconciled(c) PROVE FailedIsOver' /\ OneCall'
  <2>1. UNCHANGED backend /\ In(c, "Reconciling") BY <1>4 DEF Reconciled
  <2>2. PICK o \in Observations :
             /\ courier'[c].at = "Appending"
             /\ courier'[c].event.attempt = courier[c].event.attempt
             /\ courier'[c].event.index = courier[c].event.index
             /\ courier'[c].event.observation = o
             /\ \A d \in Couriers \ {c} : courier'[d] = courier[d]
             /\ UNCHANGED journal
             /\ o \in Negative => Quiet
    BY <1>4, AnswerMeans
  <2>3. Quiet => Quiet' BY <2>1, <2>2 DEF Quiet, In, Accepted, Late
  <2>4. FailedIsOver' BY <2>1, <2>2, <2>3 DEF FailedIsOver, In, Current
  <2>5. courier'[c].event.index >= 2
    BY <1>0, <2>1, <2>2 DEF Ordered
  <2>6. journal.observations = 0 => ~Current(courier[c].event)'
    BY <1>0, <2>2, <2>5 DEF Ordered, Current
  <2>7. OneCall' BY <2>1, <2>2, <2>6 DEF OneCall, In, Current, Late
  <2> QED BY <2>4, <2>7
<1>5. ASSUME NEW c \in Couriers, Appended(c) PROVE FailedIsOver' /\ OneCall'
  <2> DEFINE e == courier[c].event
  <2>1. /\ courier'[c].at = "Idle" /\ courier'[c].event = NoEvent
        /\ \A d \in Couriers \ {c} : courier'[d] = courier[d]
        /\ UNCHANGED backend /\ In(c, "Appending")
    BY <1>5, DoesMeans DEF Appended
  <2>2. Quiet => Quiet' BY <2>1 DEF Quiet, In, Accepted, Late
  <2>3. CASE ~Fits(e)
    <3>1. UNCHANGED journal BY <1>5, <2>3 DEF Appended, Extended
    <3>2. FailedIsOver' BY <2>1, <2>2, <3>1 DEF FailedIsOver, In, Current
    <3>3. OneCall' BY <2>1, <3>1 DEF OneCall, In, Current, Late
    <3> QED BY <3>2, <3>3
  <2>4. CASE Fits(e) /\ e.index = 0
    <3>1. journal.attempt = 0 \/ journal.last = "Retryable"
      BY <2>4, StatusMeans DEF Fits
    <3>2. Quiet BY <3>1 DEF FailedIsOver, Negative
    <3>3. Quiet' BY <2>2, <3>2
    <3>4. FailedIsOver' BY <3>3 DEF FailedIsOver
    <3>5. OneCall' BY <3>3 DEF OneCall, Quiet
    <3> QED BY <3>4, <3>5
  <2>5. CASE Fits(e) /\ e.index # 0
    <3>1. /\ e.attempt = journal.attempt /\ e.index = journal.observations + 1
          /\ journal' = [attempt |-> journal.attempt, observations |-> journal.observations + 1,
                         last |-> e.observation]
      BY <1>5, <2>5 DEF Appended, Extended, Fits
    <3>2. Current(e) BY <2>5, <3>1 DEF Current
    <3>3. \A d \in Couriers : ~In(d, "Sending")
      BY <2>1, <3>2 DEF OneCall, In
    <3>4. OneCall' BY <2>1, <3>3 DEF OneCall, In
    <3>5. ASSUME NEW d \in Couriers, In(d, "Appending")', Current(courier[d].event)',
                 (courier[d].event.index = journal.observations + 1)'
          PROVE  FALSE
      <4>1. d # c BY <2>1, <3>5 DEF In
      <4> QED BY <1>0, <2>1, <3>1, <3>5, <4>1 DEF Ordered, Current
    <3>6. journal'.last \in Negative => Quiet'
      BY <2>1, <2>2, <3>1, <3>2 DEF FailedIsOver
    <3>7. journal'.attempt = 0 \/ backend'.sent # journal'.attempt => Quiet'
      BY <2>1, <2>2, <3>1 DEF FailedIsOver
    <3>8. FailedIsOver' BY <3>5, <3>6, <3>7 DEF FailedIsOver
    <3> QED BY <3>4, <3>8
  <2> QED BY <2>3, <2>4, <2>5
<1>6. ASSUME NEW c \in Couriers, Dies(c) PROVE FailedIsOver' /\ OneCall'
  <2>1. /\ courier'[c].at = "Dead"
        /\ \A d \in Couriers \ {c} : courier'[d] = courier[d]
        /\ UNCHANGED journal
    BY <1>6, DoesMeans DEF Dies
  <2>2. backend'.sent = backend.sent
    BY <1>6 DEF Dies, LeftBehind, TypeOK
  <2>3. CASE In(c, "Sending")
    <3>1. ~Quiet BY <2>3 DEF Quiet
    <3>2. FailedIsOver' BY <2>1, <2>2, <3>1 DEF FailedIsOver, In, Current
    <3>3. OneCall' BY <2>1, <2>3 DEF OneCall, In
    <3> QED BY <3>2, <3>3
  <2>4. CASE ~In(c, "Sending")
    <3>1. UNCHANGED backend BY <1>6, <2>4 DEF Dies
    <3>2. Quiet => Quiet' BY <2>1, <2>4, <3>1 DEF Quiet, In, Accepted, Late
    <3>3. FailedIsOver' BY <2>1, <3>1, <3>2 DEF FailedIsOver, In, Current
    <3>4. OneCall' BY <2>1, <3>1 DEF OneCall, In, Current, Late
    <3> QED BY <3>3, <3>4
  <2> QED BY <2>3, <2>4
<1>7. CASE CallLands \/ CallLost
  <2>1. UNCHANGED <<journal, courier>> /\ backend'.sent = backend.sent
    BY <1>7 DEF CallLands, CallLost, TypeOK
  <2>2. ~Quiet BY <1>7 DEF CallLands, CallLost, Quiet
  <2>3. FailedIsOver' BY <2>1, <2>2 DEF FailedIsOver, In, Current
  <2>4. ~Late' BY <1>7 DEF CallLands, CallLost, Late, TypeOK
  <2>5. OneCall' BY <2>1, <2>4 DEF OneCall, In, Current
  <2> QED BY <2>3, <2>5
<1>8. CASE UNCHANGED vars
  BY <1>8 DEF vars, FailedIsOver, OneCall, Quiet, In, Current, Accepted, Late
<1> QED
  BY <1>1, <1>2, <1>3, <1>4, <1>5, <1>6, <1>7, <1>8 DEF Next, Courier

\* Every step keeps the invariant.
LEMMA NextIInv == IInv /\ [Next]_vars => IInv'
<1> SUFFICES ASSUME IInv, [Next]_vars PROVE IInv'
  OBVIOUS
<1>1. TypeOK /\ InOrder /\ Truthful BY DEF IInv
<1>2. TypeOK' /\ InOrder' /\ Truthful'
  BY <1>1, NextTypeOK, NextInOrder, NextTruthful
<1>3. "Repeated" \notin backend'.facts => FailedIsOver' /\ OneCall'
  BY <1>1, FactsStay, NextUnrepeated DEF IInv
<1> QED BY <1>2, <1>3 DEF IInv

\* An attempt that is sent once is the only call there is, and is over once it
\* has failed (decide and append in terminal_delivery.rs).
THEOREM Invariant == Spec => []IInv
BY InitIInv, NextIInv, PTL DEF Spec

\* The attempts and observations of a delivery stay within their limits, for
\* any limits (derive_status in terminal_delivery.rs).
THEOREM TypeCorrect == Spec => []TypeOK
<1>1. IInv => TypeOK BY DEF IInv
<1> QED BY <1>1, Invariant, PTL

-----------------------------------------------------------------------------
(* The refinement.                                                           *)

VerdictFits ==
    /\ Verdict \in {"Owed", "Unknown", "Acknowledged", "Failed"}
    /\ Verdict = "Acknowledged" => journal.last = "Acknowledged"
    /\ Verdict = "Failed" => journal.last \in Negative
    /\ Status \in Open => Verdict = "Owed"

\* What the verdict says of the journal.
LEMMA VerdictMeans == TypeOK /\ InOrder => VerdictFits
<1> SUFFICES ASSUME TypeOK, InOrder PROVE VerdictFits
  OBVIOUS
<1>1. CASE Status = "Acknowledged"
  BY <1>1, StatusMeans DEF Verdict, VerdictFits, Open
<1>2. CASE Status \in {"DefinitelyFailed", "RetryExhausted"}
  BY <1>2, StatusMeans DEF Verdict, Negative, VerdictFits, Open
<1>3. CASE Status = "ReconciliationExhausted"
  BY <1>3, StatusMeans DEF Verdict, VerdictFits, Open
<1>4. CASE Status \in Open
  BY <1>4 DEF Verdict, VerdictFits, Open
<1> QED BY <1>1, <1>2, <1>3, <1>4, StatusMeans

\* Until an attempt is sent twice, a delivery that failed has not arrived.
FailedHasNotArrived ==
    Verdict = "Failed" /\ "Repeated" \notin backend.facts => Quiet

LEMMA FailedMeans == IInv => FailedHasNotArrived
BY VerdictMeans DEF IInv, FailedIsOver, VerdictFits, FailedHasNotArrived

\* Every step is one of CallbackOnce, or none.
LEMMA StepOnce ==
    ASSUME IInv, [Next]_vars, IInv' PROVE [Once!Next]_(Once!vars)
<1> DEFINE facts == backend.facts \ {"Late"}
<1>1. TypeOK /\ InOrder BY DEF IInv
<1>2. CASE UNCHANGED <<journal, facts>>
  <2>1. UNCHANGED Verdict BY <1>2 DEF Verdict, Status
  <2> QED BY <1>2, <2>1 DEF Once!vars
<1>3. ASSUME NEW c \in Couriers, SendDecided(c) PROVE [Once!Next]_(Once!vars)
  <2>1. UNCHANGED journal BY <1>3 DEF SendDecided
  <2>2. UNCHANGED Verdict BY <2>1 DEF Verdict, Status
  <2>3. Verdict = "Owed" BY <1>1, <1>3, VerdictMeans DEF SendDecided, VerdictFits, Open
  <2>4. facts' = facts \/ ("Repeated" \notin facts /\ facts' = facts \cup {"Repeated"})
    BY <1>1, <1>3 DEF SendDecided, TypeOK
  <2> QED BY <1>2, <2>1, <2>2, <2>3, <2>4 DEF Once!Next, Once!Repeat, Once!Becomes
<1>4. CASE CallLands
  <2>1. UNCHANGED journal BY <1>4 DEF CallLands
  <2>2. UNCHANGED Verdict BY <2>1 DEF Verdict, Status
  <2>3. ~Quiet BY <1>4 DEF CallLands, Quiet
  <2>4. Verdict = "Failed" => "Repeated" \in facts BY <2>3, FailedMeans DEF FailedHasNotArrived
  <2>5. "Accepted" \notin facts /\ facts' = facts \cup {"Accepted"}
    BY <1>1, <1>4 DEF CallLands, Accepted, TypeOK
  <2> QED BY <2>2, <2>4, <2>5 DEF Once!Next, Once!Accept, Once!Becomes
<1>5. ASSUME NEW c \in Couriers, Appended(c) PROVE [Once!Next]_(Once!vars)
  <2>1. UNCHANGED facts BY <1>5 DEF Appended
  <2>2. CASE ~Fits(courier[c].event)
    BY <1>2, <1>5, <2>1, <2>2 DEF Appended, Extended
  <2>3. CASE Fits(courier[c].event)
    <3>1. Verdict = "Owed" BY <1>1, <2>3, VerdictMeans, StatusMeans DEF Fits, VerdictFits, Open
    <3>2. VerdictFits'
      <4>1. TypeOK' /\ InOrder' BY DEF IInv
      <4> QED BY <4>1, VerdictMeans, PTL
    <3>3. Verdict' = "Acknowledged" => "Accepted" \in facts
      BY <2>1, <3>2 DEF IInv, Truthful, Accepted, VerdictFits
    <3>4. FailedHasNotArrived'
      BY FailedMeans, PTL
    <3>5. Verdict' = "Failed" /\ "Accepted" \in facts => "Repeated" \in facts
      BY <2>1, <3>4 DEF Quiet, Accepted, FailedHasNotArrived
    <3>6. CASE Verdict' = "Owed"
      BY <2>1, <3>1, <3>6 DEF Once!vars
    <3>7. CASE Verdict' # "Owed"
      BY <2>1, <3>1, <3>2, <3>3, <3>5, <3>7 DEF Once!Next, Once!Settle, VerdictFits
    <3> QED BY <3>6, <3>7
  <2> QED BY <2>2, <2>3
<1>6. ASSUME NEW c \in Couriers,
             IntentDecided(c) \/ ReconcileDecided(c) \/ Answered(c) \/ Reconciled(c) \/ Dies(c)
      PROVE  UNCHANGED <<journal, facts>>
  BY <1>1, <1>6 DEF IntentDecided, ReconcileDecided, Answered, Reconciled, Dies, LeftBehind, TypeOK
<1>7. CASE CallLost
  BY <1>1, <1>2, <1>7 DEF CallLost, TypeOK
<1>8. CASE UNCHANGED vars
  BY <1>2, <1>8 DEF vars
<1> QED BY <1>2, <1>3, <1>4, <1>5, <1>6, <1>7, <1>8 DEF Next, Courier

\* The journal's order of intent, call and observation tells the backend the
\* result once, and never calls failed what may still arrive unless an attempt was
\* sent twice, for any workers and limits (decide, observe, append in
\* terminal_delivery.rs).
THEOREM DeliversOnce == Spec => CallbackSafety
<1>1. Init => Once!Init
  <2> SUFFICES ASSUME Init PROVE Once!Init
    OBVIOUS
  <2>1. TypeOK /\ InOrder BY InitIInv DEF IInv
  <2>2. Status = "Pending" BY DEF Init, Status, Empty
  <2>3. Verdict = "Owed" BY <2>1, <2>2, VerdictMeans DEF VerdictFits, Open
  <2> QED BY <2>3 DEF Init, Once!Init
<1>2. IInv /\ [Next]_vars /\ IInv' => [Once!Next]_(Once!vars)
  BY StepOnce
<1> QED BY <1>1, <1>2, Invariant, PTL DEF Spec, CallbackSafety

=============================================================================
