------------------------------- MODULE GateRun -------------------------------
(* What the run of one gate is to the protocol: a process that is scheduled, *)
(* started and exited, or was given up on the way, and evidence that only an *)
(* exit can become.  Nothing recorded of it is taken back.                   *)
VARIABLES
    run,            \* as in ProtocolValidation
    evidence

vars == <<run, evidence>>

Init == run = "Scheduled" /\ evidence = "None"

Start ==
    /\ run = "Scheduled"
    /\ run' = "Started"
    /\ UNCHANGED evidence

Complete ==
    /\ \/ run = "Started" /\ run' \in {"Exited", "Canceled", "Infrastructure"}
       \/ run = "Scheduled" /\ run' \in {"Canceled", "Infrastructure"}
    /\ UNCHANGED evidence

Judge ==
    /\ run = "Exited" /\ evidence = "None"
    /\ evidence' \in {"Passed", "Failed"}
    /\ UNCHANGED run

Next == Start \/ Complete \/ Judge

Spec == Init /\ [][Next]_vars
=============================================================================
