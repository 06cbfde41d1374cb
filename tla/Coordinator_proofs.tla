------------------------- MODULE Coordinator_proofs -------------------------
(***************************************************************************)
(* For any set of runs and tickets, any capacity and any number of         *)
(* restarts, the coordinator implements WorkerSlots.  The argument is that *)
(* what was selected stays startable until it is started: a selected run   *)
(* has not been started, shares its ticket neither with another selected   *)
(* run nor with one in flight, and the selected runs fit into the slots    *)
(* that are left, although the slots were counted one call earlier.        *)
(***************************************************************************)
EXTENDS Coordinator, FiniteSetTheorems, TLAPS

SelectedStartable ==
    /\ selected \cap started = {}
    /\ \A r, q \in selected : TicketOf[r] = TicketOf[q] => r = q
    /\ \A r \in selected, b \in InFlight : TicketOf[b] # TicketOf[r]

SelectedFits == Cardinality(InFlight) + Cardinality(selected) <= MaxConcurrency

SlotsCounted == pc = "list" => slots + Cardinality(InFlight) <= MaxConcurrency

NothingInFlight == pc \in {"start", "exited"} => InFlight = {}

OneAttemptPerTicket ==
    \A r, q \in InFlight : TicketOf[r] = TicketOf[q] => r = q

IInv ==
    /\ TypeOK /\ SelectedStartable /\ SelectedFits /\ SlotsCounted
    /\ NothingInFlight /\ OneAttemptPerTicket

USE CoordinatorAssumption

(* Sets of runs are finite and have a natural number of elements. *)
LEMMA FiniteRuns ==
    ASSUME NEW S, S \subseteq Runs
    PROVE  IsFiniteSet(S) /\ Cardinality(S) \in Nat
BY FS_Subset, FS_CardinalityType

(* The runs in flight depend on tasks alone. *)
LEMMA InFlightIsOfTasks == tasks' = tasks => InFlight' = InFlight
BY DEF InFlight

(* A process that ends leaves nothing in flight. *)
LEMMA ExitEndsAll ==
    ASSUME tasks' = [r \in Runs |-> "none"]
    PROVE  InFlight' = {}
BY DEF InFlight

(* Reaping frees slots and takes none. *)
LEMMA ReapingFrees == 
    ASSUME TypeOK, tasks' \in {tasks, Reaped}
    PROVE  /\ InFlight' \subseteq InFlight
           /\ Cardinality(InFlight') <= Cardinality(InFlight)
<1>1. InFlight' \subseteq InFlight
  BY DEF InFlight, Reaped, TypeOK
<1>2. IsFiniteSet(InFlight)
  BY FiniteRuns DEF InFlight
<1> QED BY <1>1, <1>2, FS_Subset

(* What select_unstarted_assignments returns. *)
LEMMA SelectionsAreStartable ==
    ASSUME NEW listed \in SUBSET Runs, NEW busy \in SUBSET Runs, NEW n \in Nat,
           NEW s \in Selections(listed, busy, n)
    PROVE  /\ s \subseteq Runs /\ s \cap started = {}
           /\ Cardinality(s) <= n
           /\ \A r, q \in s : TicketOf[r] = TicketOf[q] => r = q
           /\ \A r \in s, b \in busy : TicketOf[b] # TicketOf[r]
BY DEF Selections, Candidates

(* The run that is started occupies one more slot and is no longer selected. *)
LEMMA StartMovesARun ==
    ASSUME IInv, NEW r \in Runs, StartRun(r)
    PROVE  /\ r \notin InFlight
           /\ InFlight' = InFlight \cup {r}
           /\ Cardinality(InFlight') = Cardinality(InFlight) + 1
           /\ Cardinality(selected') = Cardinality(selected) - 1
           /\ Cardinality(selected) >= 1
<1>1. r \in selected /\ selected \subseteq Runs /\ tasks \in [Runs -> {"none", "running", "finished"}]
  BY DEF IInv, TypeOK, StartRun
<1>2. r \notin InFlight
  BY <1>1 DEF IInv, SelectedStartable
<1>3. InFlight' = InFlight \cup {r}
  BY <1>1 DEF StartRun, InFlight
<1>4. IsFiniteSet(InFlight) /\ IsFiniteSet(selected)
  BY <1>1, FiniteRuns DEF InFlight
<1>5. Cardinality(InFlight') = Cardinality(InFlight) + 1
  BY <1>2, <1>3, <1>4, FS_AddElement
<1>6. Cardinality(selected \ {r}) = Cardinality(selected) - 1
  BY <1>1, <1>4, FS_RemoveElement
<1>7. Cardinality(selected) \in Nat /\ Cardinality(selected \ {r}) \in Nat
  BY <1>1, FiniteRuns
<1>8. selected' = selected \ {r}
  BY DEF StartRun
<1> QED BY <1>2, <1>3, <1>5, <1>6, <1>7, <1>8

-----------------------------------------------------------------------------
LEMMA InitEstablishes == Init => IInv
<1> SUFFICES ASSUME Init PROVE IInv
  OBVIOUS
<1>1. InFlight = {} /\ selected = {}
  BY DEF Init, InFlight
<1>2. TypeOK
  BY DEF Init, TypeOK, Locations
<1> QED BY <1>1, <1>2, FS_EmptySet DEF IInv, SelectedStartable, SelectedFits,
             SlotsCounted, NothingInFlight, OneAttemptPerTicket, Init

(* Every step keeps the types. *)
LEMMA TypeKept == IInv /\ [Next]_vars => TypeOK'
<1> SUFFICES ASSUME IInv, [Next]_vars PROVE TypeOK'
  OBVIOUS
<1> USE DEF TypeOK, Locations, world, process, round, ending
<1>t. TypeOK
  BY DEF IInv
<1>n. Cardinality(InFlight) \in 0..MaxConcurrency
  BY FiniteRuns, <1>t DEF IInv, SelectedFits, InFlight
<1>1. CASE ListResumable
  BY <1>1, <1>t, SelectionsAreStartable DEF ListResumable
<1>2. CASE \E r \in Runs : StartRun(r)
  BY <1>2, <1>t DEF StartRun
<1>3. CASE \E r \in Runs : SkipRun(r)
  BY <1>3, <1>t DEF SkipRun
<1>4. CASE EndResume \/ Replay
  BY <1>4, <1>t DEF EndResume, Replay
<1>5. CASE BeginRound
  BY <1>5, <1>t DEF BeginRound, Reaped, Drained
<1>6. CASE LeaveLoop
  BY <1>6, <1>t DEF LeaveLoop, Reaped
<1>7. CASE NoAssignment \/ CallFails
  BY <1>7, <1>t DEF NoAssignment, CallFails, Exit, Running
<1>8. CASE HeartbeatFails
  BY <1>8, <1>t DEF HeartbeatFails, Failed
<1>9. CASE Heartbeat
  <2>1. AvailableSlots \in 0..MaxConcurrency
    BY <1>n DEF AvailableSlots
  <2> QED BY <1>9, <1>t, <2>1 DEF Heartbeat, Succeeded
<1>10. CASE ListAssigned
  <2>1. slots \in Nat /\ InFlight \in SUBSET Runs
    BY <1>t DEF InFlight
  <2> QED BY <1>10, <1>t, <2>1, SelectionsAreStartable DEF ListAssigned
<1>11. CASE EndRound
  BY <1>11, <1>t DEF EndRound
<1>12. CASE QueueEvent \/ CatchUp
  BY <1>12, <1>t DEF QueueEvent, CatchUp
<1>13. CASE Join
  BY <1>13, <1>t DEF Join
<1>14. ASSUME NEW r \in Runs, TaskEnds(r) PROVE TypeOK'
  BY <1>14, <1>t DEF TaskEnds
<1>15. ASSUME NEW r \in Runs, Assign(r) \/ Unassign(r) PROVE TypeOK'
  <2>1. assigned' \in SUBSET Runs /\ UNCHANGED <<mode, api, signals, waited, process, ending>>
    BY <1>15, <1>t DEF Assign, Unassign
  <2> QED BY <2>1, <1>t
<1>16. ASSUME NEW s \in {"TERM", "INT"}, Signal(s) PROVE TypeOK'
  BY <1>16, <1>t DEF Signal
<1>17. CASE ApiChanges \/ WaitElapses
  <2>1. /\ api' \in {"up", "down"} /\ waited' \in {"early", "late"}
        /\ UNCHANGED <<mode, assigned, signals, process, ending>>
    BY <1>17, <1>t DEF ApiChanges, WaitElapses
  <2> QED BY <2>1, <1>t
<1>18. CASE Crash
  BY <1>18, <1>t DEF Crash
<1>19. CASE Restart
  BY <1>19, <1>t DEF Restart
<1>20. CASE UNCHANGED vars
  BY <1>20, <1>t DEF vars
<1> QED BY <1>1, <1>2, <1>3, <1>4, <1>5, <1>6, <1>7, <1>8, <1>9, <1>10, <1>11,
             <1>12, <1>13, <1>14, <1>15, <1>16, <1>17, <1>18, <1>19, <1>20
         DEF Next, Loop

(* What each kind of step does to the runs in flight and the selected ones:
   nothing, frees slots, empties both, starts a run or selects anew. *)
LEMMA StepKinds ==
    ASSUME IInv, [Next]_vars
    PROVE  \/ UNCHANGED <<InFlight, selected, started>> /\ pc' \notin {"list", "start"}
                /\ (pc' = "exited" => pc = "exited")
           \/ UNCHANGED <<InFlight, selected, started, slots, pc>>
           \/ UNCHANGED <<InFlight, selected, started>> /\ Heartbeat
           \/ /\ UNCHANGED <<selected, started>> /\ InFlight' \subseteq InFlight
              /\ Cardinality(InFlight') <= Cardinality(InFlight)
              /\ pc' \notin {"list", "start", "exited"}
           \/ InFlight' = {} /\ UNCHANGED <<selected, started>> /\ pc' = "exited"
           \/ Restart
           \/ \E r \in Runs : StartRun(r)
           \/ \E r \in Runs : SkipRun(r)
           \/ ListResumable
           \/ ListAssigned
<1> USE DEF world, process, round, ending
<1>t. TypeOK
  BY DEF IInv
<1>1. CASE EndResume \/ Replay \/ HeartbeatFails \/ EndRound \/ QueueEvent \/ CatchUp
  BY <1>1, InFlightIsOfTasks
     DEF EndResume, Replay, HeartbeatFails, EndRound, QueueEvent, CatchUp
<1>2. CASE BeginRound
  BY <1>2, <1>t, ReapingFrees DEF BeginRound
<1>3. CASE LeaveLoop
  BY <1>3, <1>t, ReapingFrees DEF LeaveLoop
<1>4. CASE NoAssignment \/ CallFails
  BY <1>4, ExitEndsAll DEF NoAssignment, CallFails, Exit
<1>5. CASE Join
  BY <1>5, ExitEndsAll DEF Join
<1>6. CASE Crash
  BY <1>6, ExitEndsAll DEF Crash
<1>7. CASE Heartbeat
  BY <1>7, InFlightIsOfTasks DEF Heartbeat
<1>8. ASSUME NEW r \in Runs, TaskEnds(r)
      PROVE  UNCHANGED <<InFlight, selected, started, slots, pc>>
  BY <1>8, <1>t DEF TaskEnds, InFlight, TypeOK
<1>9. ASSUME NEW r \in Runs, Assign(r) \/ Unassign(r)
      PROVE  UNCHANGED <<InFlight, selected, started, slots, pc>>
  BY <1>9, InFlightIsOfTasks DEF Assign, Unassign
<1>10. CASE ApiChanges \/ WaitElapses \/ \E s \in {"TERM", "INT"} : Signal(s)
  BY <1>10, InFlightIsOfTasks DEF ApiChanges, WaitElapses, Signal
<1>11. CASE UNCHANGED vars
  BY <1>11, InFlightIsOfTasks DEF vars
<1> QED BY <1>1, <1>2, <1>3, <1>4, <1>5, <1>6, <1>7, <1>8, <1>9, <1>10, <1>11
         DEF Next, Loop

(* Every step keeps the invariant. *)
LEMMA StepKeeps == IInv /\ [Next]_vars => IInv'
<1> SUFFICES ASSUME IInv, [Next]_vars PROVE IInv'
  OBVIOUS
<1> DEFINE Rest == SelectedStartable /\ SelectedFits /\ SlotsCounted
                   /\ NothingInFlight /\ OneAttemptPerTicket
<1>t. TypeOK /\ TypeOK'
  BY TypeKept DEF IInv
<1>c. /\ Cardinality(InFlight) \in Nat /\ Cardinality(selected) \in Nat
      /\ Cardinality(InFlight') \in Nat /\ Cardinality(selected') \in Nat
      /\ InFlight \subseteq Runs /\ InFlight' \subseteq Runs
      /\ slots \in Nat /\ slots' \in Nat /\ MaxConcurrency \in Nat
  BY <1>t, FiniteRuns DEF InFlight, TypeOK
<1> SUFFICES Rest'
  BY <1>t DEF IInv
<1> USE DEF SelectedStartable, SelectedFits, SlotsCounted, NothingInFlight,
            OneAttemptPerTicket
<1>1. CASE UNCHANGED <<InFlight, selected, started>> /\ pc' \notin {"list", "start"}
           /\ (pc' = "exited" => pc = "exited")
  BY <1>1 DEF IInv
<1>2. CASE UNCHANGED <<InFlight, selected, started, slots, pc>>
  BY <1>2 DEF IInv
<1>3. CASE UNCHANGED <<InFlight, selected, started>> /\ Heartbeat
  <2>1. slots' + Cardinality(InFlight') <= MaxConcurrency /\ pc' = "list"
    BY <1>3, <1>c DEF Heartbeat, AvailableSlots, IInv
  <2> QED BY <1>3, <2>1 DEF IInv
<1>4. CASE /\ UNCHANGED <<selected, started>> /\ InFlight' \subseteq InFlight
           /\ Cardinality(InFlight') <= Cardinality(InFlight)
           /\ pc' \notin {"list", "start", "exited"}
  BY <1>4, <1>c DEF IInv
<1>5. CASE InFlight' = {} /\ UNCHANGED <<selected, started>> /\ pc' = "exited"
  BY <1>5, <1>c, FS_EmptySet DEF IInv
<1>6. CASE Restart
  <2>1. InFlight = {}
    BY <1>6, <1>t DEF IInv, Restart
  <2> QED BY <1>6, <2>1, InFlightIsOfTasks, FS_EmptySet, <1>c DEF Restart
<1>7. ASSUME NEW r \in Runs, StartRun(r) PROVE Rest'
  <2>1. /\ InFlight' = InFlight \cup {r}
        /\ Cardinality(InFlight') + Cardinality(selected') <= MaxConcurrency
    BY <1>7, <1>c, StartMovesARun DEF IInv
  <2>2. /\ r \in selected /\ selected' = selected \ {r} /\ started' = started \cup {r}
        /\ pc' \in {"resume", "assign"}
    BY <1>7 DEF StartRun
  <2> QED BY <2>1, <2>2 DEF IInv
<1>8. ASSUME NEW r \in Runs, SkipRun(r) PROVE Rest'
  <2>1. selected' = selected \ {r} /\ started' = started /\ pc' \in {"resume", "assign"}
    BY <1>8 DEF SkipRun
  <2>2. InFlight' = InFlight
    BY <1>8, InFlightIsOfTasks DEF SkipRun
  <2>3. Cardinality(selected') <= Cardinality(selected)
    BY <2>1, <1>t, FiniteRuns, FS_Subset DEF TypeOK
  <2> QED BY <2>1, <2>2, <2>3, <1>c DEF IInv
<1>9. CASE ListResumable
  <2>1. InFlight' = {} /\ pc' = "resume" /\ started' = started
    BY <1>9, InFlightIsOfTasks DEF ListResumable, IInv
  <2>2. selected' \in Selections(assigned, {}, MaxConcurrency)
    BY <1>9 DEF ListResumable
  <2> QED BY <2>1, <2>2, <1>t, <1>c, SelectionsAreStartable, FS_EmptySet DEF TypeOK
<1>10. CASE ListAssigned
  <2>1. InFlight' = InFlight /\ pc' = "assign" /\ started' = started
    BY <1>10, InFlightIsOfTasks DEF ListAssigned
  <2>2. selected' \in Selections(assigned, InFlight, slots) /\ pc = "list"
    BY <1>10 DEF ListAssigned
  <2>3. /\ selected' \cap started = {} /\ Cardinality(selected') <= slots
        /\ \A r, q \in selected' : TicketOf[r] = TicketOf[q] => r = q
        /\ \A r \in selected', b \in InFlight : TicketOf[b] # TicketOf[r]
    BY <2>2, <1>t, <1>c, SelectionsAreStartable DEF TypeOK
  <2> QED BY <2>1, <2>2, <2>3, <1>c DEF IInv
<1> HIDE DEF Rest
<1> QED BY <1>1, <1>2, <1>3, <1>4, <1>5, <1>6, <1>7, <1>8, <1>9, <1>10, StepKinds

(* The invariant holds in every reachable state. *)
THEOREM Inductive == Spec => []IInv
BY InitEstablishes, StepKeeps, PTL DEF Spec

(* Every variable keeps its type; slots are never negative. *)
THEOREM TypeCorrect == Spec => []TypeOK
<1>1. IInv => TypeOK
  BY DEF IInv
<1> QED BY <1>1, Inductive, PTL

(* Two attempts of one ticket are never in flight together, whatever RustGrid
   assigns and in whatever order it lists it. *)
THEOREM NoTicketTwice == Spec => []OneAttemptPerTicket
<1>1. IInv => OneAttemptPerTicket
  BY DEF IInv
<1> QED BY <1>1, Inductive, PTL

-----------------------------------------------------------------------------
(* A step of the coordinator is a step of WorkerSlots or changes nothing. *)
LEMMA StepRefines ==
    ASSUME IInv, [Next]_vars
    PROVE  [Slots!Next]_(Slots!slots)
<1> USE DEF Slots!Next, Slots!slots, Slots!Begin, Slots!End, Slots!NewProcess
<1>t. TypeOK
  BY DEF IInv
<1>r. InFlight \in SUBSET Runs
  BY DEF InFlight
<1>1. CASE UNCHANGED <<InFlight, started>>
  BY <1>1
<1>2. CASE UNCHANGED started /\ InFlight' \subseteq InFlight
  <2>1. InFlight \ InFlight' \in SUBSET Runs
    BY <1>r
  <2>2. InFlight' = InFlight \ (InFlight \ InFlight')
    BY <1>2
  <2>3. Slots!End(InFlight \ InFlight')
    BY <1>2, <2>2
  <2> QED BY <2>1, <2>3
<1>3. CASE Restart
  <2>1. InFlight' = {} /\ started' = {}
    BY <1>3, <1>t, InFlightIsOfTasks DEF Restart, IInv, NothingInFlight
  <2> QED BY <2>1
<1>4. ASSUME NEW r \in Runs, StartRun(r) PROVE Slots!Begin(r)
  <2>1. /\ InFlight' = InFlight \cup {r} /\ Cardinality(selected) >= 1
        /\ Cardinality(InFlight') = Cardinality(InFlight) + 1
        /\ Cardinality(selected) \in Nat /\ Cardinality(InFlight) \in Nat
    BY <1>4, <1>r, <1>t, StartMovesARun, FiniteRuns DEF TypeOK
  <2>2. r \in selected /\ started' = started \cup {r}
    BY <1>4 DEF StartRun
  <2>3. FitsCapacity(InFlight \cup {r})
    <3>1. Cardinality(InFlight \cup {r}) = Cardinality(InFlight) + 1
      BY <2>1
    <3>2. Cardinality(InFlight) + Cardinality(selected) <= MaxConcurrency
      BY DEF IInv, SelectedFits
    <3> QED BY <2>1, <3>1, <3>2 DEF FitsCapacity
  <2> QED BY <2>1, <2>2, <2>3 DEF IInv, SelectedStartable
<1>5. CASE ListResumable \/ ListAssigned \/ \E r \in Runs : SkipRun(r)
  BY <1>5, InFlightIsOfTasks DEF ListResumable, ListAssigned, SkipRun
<1>6. CASE InFlight' = {} /\ UNCHANGED <<selected, started>> /\ pc' = "exited"
  BY <1>6, <1>2
<1> QED BY <1>1, <1>2, <1>3, <1>4, <1>5, <1>6, StepKinds

(* The coordinator implements WorkerSlots: a run is begun once in a process,
   while no other attempt of its ticket holds a slot and a slot is free. *)
THEOREM ImplementsSlots == Spec => SlotsSpec
<1>1. Init => Slots!Init
  BY DEF Init, Slots!Init, InFlight
<1>2. IInv /\ [Next]_vars => [Slots!Next]_(Slots!slots)
  BY StepRefines
<1> QED BY <1>1, <1>2, Inductive, PTL DEF Spec, SlotsSpec, Slots!Spec

-----------------------------------------------------------------------------
(* The process abandons a run only when a call failed: a drain, an interrupt,
   --once and --exit-after-run end it with no thread running, and a hosted
   worker gives up waiting only if it has no run (watch_impl). *)
THEOREM AbandonsOnFailure == Spec => OnlyFailedCallsAbandon
<1>1. ASSUME [Next]_vars, abandoned' # abandoned
      PROVE  outcome' = "error" /\ api = "down"
  <2> USE DEF world, process, round, ending
  <2>1. CASE NoAssignment
    BY <1>1, <2>1 DEF NoAssignment, Exit, Idle
  <2>2. CASE CallFails
    BY <2>2 DEF CallFails, Exit
  <2>3. ASSUME Loop, ~NoAssignment, ~CallFails PROVE UNCHANGED abandoned
    BY <2>3 DEF Loop, ListResumable, StartRun, SkipRun, EndResume, Replay, BeginRound,
                LeaveLoop, HeartbeatFails, Heartbeat, ListAssigned, EndRound,
                QueueEvent, CatchUp, Join
  <2>4. CASE ~Loop
    BY <1>1, <2>4 DEF Next, vars, TaskEnds, Assign, Unassign, ApiChanges, WaitElapses,
                      Crash, Restart, Signal
  <2> QED BY <1>1, <2>1, <2>2, <2>3, <2>4
<1>2. [Next]_vars => (abandoned' # abandoned => outcome' = "error" /\ api = "down")
  BY <1>1
<1> QED BY <1>2, PTL DEF Spec, OnlyFailedCallsAbandon

-----------------------------------------------------------------------------
(* A drain: it begins between two rounds, when nothing is selected, and from
   then on a round counts no slots, so the next list selects nothing. *)
Selecting == {"resume", "assign", "exited"}

DrainFollows ==
    /\ pc \notin Selecting => selected = {}
    /\ health = "Draining" =>
         /\ "TERM" \in signals
         /\ pc \notin {"start", "resume"}
         /\ pc = "list" => slots = 0
         /\ outcome = "none" => selected = {}

(* With no slot left nothing is selected. *)
LEMMA NoSlotNoSelection ==
    ASSUME NEW listed \in SUBSET Runs, NEW busy \in SUBSET Runs,
           NEW s \in Selections(listed, busy, 0)
    PROVE  s = {}
<1>1. s \subseteq Runs /\ Cardinality(s) <= 0
  BY SelectionsAreStartable
<1>2. IsFiniteSet(s) /\ Cardinality(s) \in Nat
  BY <1>1, FiniteRuns
<1>3. Cardinality(s) = 0
  BY <1>1, <1>2
<1> QED BY <1>2, <1>3, FS_EmptySet

LEMMA DrainKept ==
    ASSUME TypeOK, DrainFollows, [Next]_vars
    PROVE  /\ DrainFollows'
           /\ health = "Draining" /\ outcome = "none" =>
                started' = started /\ health' \in {"Draining", "Stopped"}
<1> DEFINE Goal == /\ DrainFollows'
                   /\ health = "Draining" /\ outcome = "none" =>
                        started' = started /\ health' \in {"Draining", "Stopped"}
<1> USE DEF DrainFollows, Selecting, world, process, round, ending
<1>1. CASE ListResumable
  BY <1>1 DEF ListResumable
<1>2. ASSUME NEW r \in Runs, StartRun(r) \/ SkipRun(r) PROVE Goal
  BY <1>2 DEF StartRun, SkipRun
<1>3. CASE EndResume \/ Replay \/ EndRound \/ QueueEvent \/ CatchUp
  BY <1>3 DEF EndResume, Replay, EndRound, QueueEvent, CatchUp
<1>4. CASE BeginRound
  BY <1>4 DEF BeginRound, Drained
<1>5. CASE LeaveLoop
  BY <1>5 DEF LeaveLoop
<1>6. CASE NoAssignment
  BY <1>6 DEF NoAssignment, Exit
<1>7. CASE CallFails
  BY <1>7 DEF CallFails, Exit
<1>8. CASE HeartbeatFails
  BY <1>8 DEF HeartbeatFails, Failed
<1>9. CASE Heartbeat
  BY <1>9 DEF Heartbeat, Succeeded, AvailableSlots
<1>10. CASE ListAssigned
  <2>1. InFlight \in SUBSET Runs /\ assigned \in SUBSET Runs
    BY DEF InFlight, TypeOK
  <2>2. health = "Draining" => selected' = {}
    BY <1>10, <2>1, NoSlotNoSelection DEF ListAssigned
  <2> QED BY <1>10, <2>2 DEF ListAssigned
<1>11. CASE Join
  BY <1>11 DEF Join
<1>12. ASSUME NEW r \in Runs, TaskEnds(r) \/ Assign(r) \/ Unassign(r) PROVE Goal
  BY <1>12 DEF TaskEnds, Assign, Unassign
<1>13. CASE ApiChanges \/ WaitElapses
  BY <1>13 DEF ApiChanges, WaitElapses
<1>14. ASSUME NEW s \in {"TERM", "INT"}, Signal(s) PROVE Goal
  BY <1>14 DEF Signal
<1>15. CASE Crash
  BY <1>15 DEF Crash
<1>16. CASE Restart
  BY <1>16 DEF Restart
<1>17. CASE UNCHANGED vars
  BY <1>17 DEF vars
<1> QED BY <1>1, <1>2, <1>3, <1>4, <1>5, <1>6, <1>7, <1>8, <1>9, <1>10, <1>11,
           <1>12, <1>13, <1>14, <1>15, <1>16, <1>17 DEF Next, Loop

(* Once the coordinator is draining it starts nothing and nothing makes it
   healthy again: not a heartbeat that succeeds late, not one that fails, not a
   list that was asked for before (watch_impl, CoordinatorHealth). *)
THEOREM DrainsForGood == Spec => DrainingIsFinal
<1>1. Init => DrainFollows
  BY DEF Init, DrainFollows
<1>2. TypeOK /\ DrainFollows /\ [Next]_vars => DrainFollows'
  BY DrainKept
<1>3. TypeOK /\ DrainFollows /\ [Next]_vars =>
        (health = "Draining" /\ outcome = "none" =>
           started' = started /\ health' \in {"Draining", "Stopped"})
  BY DrainKept
<1> QED BY <1>1, <1>2, <1>3, TypeCorrect, PTL DEF Spec, DrainingIsFinal

=============================================================================
