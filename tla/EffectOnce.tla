----------------------------- MODULE EffectOnce -----------------------------
(***************************************************************************)
(* What the transaction runner promises of an execution attempt            *)
(* (src/execution_protocol/runner.rs), whoever runs it and however often:  *)
(* effects are intended, performed and observed one after the other, each  *)
(* at most once and in this order, and none after the canonical result.    *)
(***************************************************************************)
EXTENDS Naturals

VARIABLES
    intended, performed, observed,  \* how many effects so far
    result                          \* "none" or "recorded"

counts == <<intended, performed, observed, result>>

Init == intended = 0 /\ performed = 0 /\ observed = 0 /\ result = "none"

Intend ==
    /\ result = "none" /\ intended = observed
    /\ intended' = intended + 1
    /\ UNCHANGED <<performed, observed, result>>

Perform ==
    /\ performed < intended
    /\ performed' = performed + 1
    /\ UNCHANGED <<intended, observed, result>>

Observe ==
    /\ observed < performed
    /\ observed' = observed + 1
    /\ UNCHANGED <<intended, performed, result>>

RecordResult ==
    /\ result = "none" /\ intended = observed
    /\ result' = "recorded"
    /\ UNCHANGED <<intended, performed, observed>>

Next == Intend \/ Perform \/ Observe \/ RecordResult

Spec == Init /\ [][Next]_counts
=============================================================================
