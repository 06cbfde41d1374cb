---------------------------- MODULE CallbackOnce -----------------------------
(* What the delivery of a terminal result promises: the backend takes the    *)
(* result once; it is called acknowledged only when the backend has it, and  *)
(* failed only when the backend neither has it nor will have it, unless an   *)
(* attempt was sent twice; and there is an answer in the end, which may be   *)
(* that nobody knows.                                                        *)
VARIABLES
    facts,          \* "Accepted": the backend has taken the result;
                    \* "Repeated": the same attempt was sent twice
    verdict         \* of the delivery

vars == <<facts, verdict>>

Init == facts = {} /\ verdict = "Owed"

Becomes(fact) ==
    /\ fact \notin facts /\ facts' = facts \cup {fact}
    /\ UNCHANGED verdict

Accept == Becomes("Accepted") /\ (verdict = "Failed" => "Repeated" \in facts)

Repeat == verdict = "Owed" /\ Becomes("Repeated")

Settle ==
    /\ verdict = "Owed"
    /\ \/ verdict' = "Unknown"
       \/ verdict' = "Acknowledged" /\ "Accepted" \in facts
       \/ verdict' = "Failed" /\ ("Accepted" \in facts => "Repeated" \in facts)
    /\ UNCHANGED facts

Next == Accept \/ Repeat \/ Settle

Spec == Init /\ [][Next]_vars /\ WF_vars(Settle)
=============================================================================
