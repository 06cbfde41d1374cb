-------------------------- MODULE ReviewedDelivery ---------------------------
(* What an execution attempt promises, whatever its stages do: only content  *)
(* that passed every gate is approved, approved content is changed no more,  *)
(* it is published by three operations in order and once each, and the       *)
(* attempt is reported as delivered exactly if the last of them took effect, *)
(* as complete or for review according to what it opened.                    *)
EXTENDS Naturals

CONSTANTS
    Complete,       \* the outcome that says the content was published
    ForReview,      \* the one that says it was published as a draft
    Abandoned       \* the others; all of these differ, and "None" is none

VARIABLES
    content,        \* a number for every state of the files
    checked,        \* whether that state passed every gate
    approved,       \* whether it may be published
    published,      \* operations of the publication that took effect
    draft,          \* whether it was published as a draft
    outcome

vars == <<content, checked, approved, published, draft, outcome>>

Init ==
    /\ content = 0 /\ published = 0
    /\ checked = FALSE /\ approved = FALSE /\ draft = FALSE
    /\ outcome = "None"

Running == outcome = "None"

Change ==
    /\ Running /\ ~approved
    /\ content' = content + 1
    /\ checked' = FALSE
    /\ UNCHANGED <<approved, published, draft, outcome>>

Check ==
    /\ Running /\ ~checked
    /\ checked' = TRUE
    /\ UNCHANGED <<content, approved, published, draft, outcome>>

Approve ==
    /\ Running /\ checked /\ ~approved
    /\ approved' = TRUE
    /\ UNCHANGED <<content, checked, published, draft, outcome>>

Publish ==
    /\ Running /\ approved /\ published < 3
    /\ published' = published + 1
    /\ draft' \in IF published' = 3 THEN BOOLEAN ELSE {draft}
    /\ UNCHANGED <<content, checked, approved, outcome>>

Report ==
    /\ Running
    /\ outcome' \in IF published < 3 THEN Abandoned
                    ELSE IF draft THEN {ForReview} ELSE {Complete}
    /\ UNCHANGED <<content, checked, approved, published, draft>>

Next == Change \/ Check \/ Approve \/ Publish \/ Report

Spec == Init /\ [][Next]_vars
=============================================================================
