----------------------------- MODULE WorkerSlots -----------------------------
(***************************************************************************)
(* What the coordinator promises about the runs of one worker, whatever    *)
(* RustGrid assigns: a process begins a run at most once, never two runs   *)
(* of a ticket at a time, and never more runs than fit the worker.         *)
(***************************************************************************)
CONSTANTS
    Runs, TicketOf,
    Fits(_)     \* the worker has the capacity for a set of runs

VARIABLES
    busy,       \* runs that occupy a slot
    spent       \* runs this process has begun

slots == <<busy, spent>>

Init == busy = {} /\ spent = {}

Begin(r) ==
    /\ r \notin spent
    /\ \A b \in busy : TicketOf[b] # TicketOf[r]
    /\ Fits(busy \cup {r})
    /\ busy' = busy \cup {r}
    /\ spent' = spent \cup {r}

End(ended) ==
    /\ busy' = busy \ ended
    /\ UNCHANGED spent

NewProcess == busy' = {} /\ spent' = {}

Next ==
    \/ \E r \in Runs : Begin(r)
    \/ \E ended \in SUBSET Runs : End(ended)
    \/ NewProcess

Spec == Init /\ [][Next]_slots
=============================================================================
