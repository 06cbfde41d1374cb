------------------------- MODULE MCProtocolGrounding -------------------------
(* An instance of ProtocolGrounding: two files and one to create, two        *)
(* criteria, a second target that waits for the first.                       *)
EXTENDS ProtocolGrounding, TLC

CONSTANTS t1, t2, p1, p2, new, c1, c2

MCTargetsBefore == [t \in Targets |-> IF t = t2 THEN {t1} ELSE {}]

TargetOf(path, operation, criteria, evidence, after) ==
    [path |-> path, operation |-> operation, criteria |-> criteria,
     evidence |-> evidence, after |-> after, sound |-> TRUE]

\* What the first target may be, and what the second, which may be missing,
\* faulty or awaited by the first.
First ==
    {TargetOf(f[1], f[2], cs, {e}, {}) :
        f \in {<<p1, "Modify">>, <<p2, "Modify">>, <<new, "Create">>},
        cs \in {{c1}, {c1, c2}}, e \in {p1, p2}}
    \cup {TargetOf(p1, "Create", {c1}, {p1}, {})}
Second ==
    {TargetOf(f[1], f[2], {c2}, {f[3]}, {t1}) :
        f \in {<<p2, "Modify", p2>>, <<new, "Create", p1>>, <<new, "Create", p2>>}}
Plan(a, b) == ProposalOf("Changes", (t1 :> a) @@ (t2 :> b))

MCProposals ==
    {Plan(a, b) : a \in First, b \in Second}
    \cup {Plan([a EXCEPT !.after = {t2}], b) : a \in {f \in First : f.path = p1}, b \in Second}
    \cup {ProposalOf("Changes", (t2 :> b)) : b \in Second}
    \cup {ProposalOf(d, <<>>) : d \in Decisions}

MCCallLimit == [o \in Owners |-> CASE o = "Discovery" -> 5
                                   [] o = "Planning" -> 2
                                   [] o = "Mission" -> 9
                                   [] OTHER -> 1]
MCCostLimit == [o \in Owners |-> CASE o = "Discovery" -> 4
                                   [] o = "Planning" -> 3
                                   [] o = "Mission" -> 6
                                   [] OTHER -> 1]
=============================================================================
