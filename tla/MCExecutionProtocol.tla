------------------------ MODULE MCExecutionProtocol --------------------------
(* An instance of ExecutionProtocol: two targets that do not depend on       *)
(* each other, three gates on two nodes, calls enough for three repairs.     *)
EXTENDS ExecutionProtocol, TLC

CONSTANTS t1, t2, p1, new, c1, n1, n2, fmt, lint, build

MCTargetsBefore == [t \in Targets |-> {}]

\* One target changes the file that is found, the other creates one.
Change == [path |-> p1, operation |-> "Modify", criteria |-> {c1},
           evidence |-> {p1}, after |-> {}, sound |-> TRUE]
Creation == [Change EXCEPT !.path = new, !.operation = "Create"]
MCProposals ==
    {ProposalOf("Changes", (t1 :> Change) @@ (t2 :> b)) :
        b \in {Creation, [Creation EXCEPT !.sound = FALSE]}}
    \cup {ProposalOf(d, <<>>) : d \in {"NoOp", "EvidenceGap"}}

MCGateOrder == <<fmt, lint, build>>
MCGateNode == [g \in Gates |-> IF g = fmt THEN n1 ELSE n2]

MCCallLimit == [o \in Owners |-> CASE o = "Mission" -> 8
                                   [] o \in {"Planning"} \cup Repairs -> 1
                                   [] OTHER -> 2]
MCCostLimit == [o \in Owners |-> 9]
=============================================================================
