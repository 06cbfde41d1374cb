---------------------------- MODULE MCCoordinator ----------------------------
(* Three runs, two of them attempts of one ticket. *)
EXTENDS Coordinator

MCRuns == {"r1", "r2", "r3"}
MCTickets == {"t1", "t2"}
MCTicketOf == [r \in MCRuns |-> IF r = "r3" THEN "t2" ELSE "t1"]
=============================================================================
