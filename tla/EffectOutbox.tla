---------------------------- MODULE EffectOutbox ----------------------------
(***************************************************************************)
(* The transaction runner of the execution protocol                        *)
(* (src/execution_protocol/runner.rs): run_once loads the event stream     *)
(* with the unresolved effect intent and the authority fence, decides, and *)
(* advances the stream by one event or carries one effect through the      *)
(* outbox: persist the intent, perform, commit the observation.            *)
(*                                                                         *)
(* The store and the effect adapter are traits; they do here what their    *)
(* contracts demand and no more.  An answer may be lost, and the request   *)
(* it was for may still take effect later, after the lease went to another *)
(* worker, after a cancellation, after the worker died.                    *)
(*                                                                         *)
(* An intent is identified by the revision it was persisted at and the     *)
(* lease epoch of its fence.  The reducer is abstract: what it decides     *)
(* next may depend on everything committed.                                *)
(***************************************************************************)
EXTENDS Naturals

CONSTANTS
    Workers,
    MaxRevision,    \* bound: events of the execution attempt
    MaxEpoch        \* bound: lease epochs

ASSUME OutboxAssumption == MaxRevision \in Nat \ {0, 1} /\ MaxEpoch \in Nat \ {0}

VARIABLES
    \* the store
    revision,       \* events committed
    decision,       \* what the reducer decides of them
    intent,         \* the unresolved effect intent, or NoIntent
    observed,       \* observations committed (history)
    result,         \* whether CanonicalResultRecorded is committed
    late,           \* writes whose answer was lost and that may still land
    \* the control plane
    holder, epoch,  \* the lease
    cancel,         \* the cancellation; "requested" stands for confirmed, too
    \* the outside world
    wire,           \* effect requests that may still be performed
    done,           \* revisions whose effect was performed
    performed,      \* effects performed (history)
    \* the runners
    pc, view,       \* what a worker does, and the snapshot it loaded
    reports         \* "finished" was returned; "corrupt": OutboxInvariant was

store == <<revision, decision, intent, observed, result>>
authority == <<holder, epoch, cancel>>
effects == <<wire, done, performed>>
runners == <<pc, view>>
vars == <<store, late, authority, effects, runners, reports>>

Decisions == {"profile", "emit", "perform", "wait", "finish"}
NoIntent == [revision |-> 0, epoch |-> 0]
Intents == [revision : 0..MaxRevision, epoch : 0..MaxEpoch]
Views == [revision : 0..MaxRevision, decision : Decisions, epoch : 0..MaxEpoch,
          intent : Intents]
NoView == [revision |-> 0, decision |-> "profile", epoch |-> 0, intent |-> NoIntent]
Writes == [op : {"append", "persist", "commit"}, view : Views]

TypeOK ==
    /\ revision \in 0..MaxRevision /\ decision \in Decisions
    /\ intent \in Intents
    /\ observed \in Nat /\ result \in {"none", "recorded"}
    /\ late \subseteq Writes
    /\ holder \in Workers /\ epoch \in 1..MaxEpoch
    /\ cancel \in {"active", "requested"}
    /\ wire \subseteq Intents /\ done \subseteq 0..MaxRevision
    /\ performed \in Nat
    /\ pc \in [Workers -> {"idle", "append", "persist", "reconcile", "perform",
                           "sent", "commit"}]
    /\ view \in [Workers -> Views]
    /\ reports \subseteq {"finished", "corrupt"}

Init ==
    /\ revision = 0 /\ decision = "profile" /\ intent = NoIntent
    /\ observed = 0 /\ result = "none" /\ late = {}
    /\ holder \in Workers /\ epoch = 1 /\ cancel = "active"
    /\ wire = {} /\ done = {} /\ performed = 0
    /\ pc = [w \in Workers |-> "idle"]
    /\ view = [w \in Workers |-> NoView]
    /\ reports = {}

-----------------------------------------------------------------------------
(***************************************************************************)
(* The store.  A write carries the revision and the fence its worker       *)
(* loaded; a fence names the lease epoch and an active cancellation.       *)
(***************************************************************************)

\* The compare-and-swap of revision and fence.
Owns(v) == v.revision = revision /\ v.epoch = epoch /\ cancel = "active"

\* The reducer goes on from the new event; the last event is the result.
Advance ==
    /\ revision' = revision + 1
    /\ decision' \in IF revision' >= MaxRevision - 1 \/ result' = "recorded"
                     THEN {"finish"}
                     ELSE Decisions \ {"profile"}

\* append_event_cas: nothing but the observation is appended to an open intent.
Appends(v) ==
    /\ Owns(v) /\ intent = NoIntent /\ revision < MaxRevision
    /\ result' = IF v.decision = "finish" THEN "recorded" ELSE result
    /\ Advance
    /\ UNCHANGED <<intent, observed>>

NewIntent(v) == [revision |-> v.revision, epoch |-> v.epoch]

\* persist_effect_intent_cas, Inserted.
Inserts(v) ==
    /\ Owns(v) /\ intent = NoIntent
    /\ intent' = NewIntent(v)
    /\ UNCHANGED <<revision, decision, observed, result>>

\* commit_effect_observation_cas: the event and the resolution are one write.
Resolves(v) ==
    /\ Owns(v) /\ intent = v.intent /\ intent # NoIntent
    /\ intent' = NoIntent /\ observed' = observed + 1 /\ UNCHANGED result
    /\ Advance

Lands(m) == CASE m.op = "append"  -> Appends(m.view)
              [] m.op = "persist" -> Inserts(m.view)
              [] m.op = "commit"  -> Resolves(m.view)

LateWrite ==
    \E m \in late :
        /\ Lands(m) \/ UNCHANGED store
        /\ late' = late \ {m}
        /\ UNCHANGED <<authority, effects, runners, reports>>

-----------------------------------------------------------------------------
(***************************************************************************)
(* The control plane and the world.                                        *)
(***************************************************************************)

\* The lease goes to another worker, or is granted to the same one anew.
Rotate ==
    /\ epoch < MaxEpoch /\ epoch' = epoch + 1
    /\ holder' \in Workers
    /\ UNCHANGED <<store, late, cancel, effects, runners, reports>>

Cancel ==
    /\ cancel = "active" /\ cancel' = "requested"
    /\ UNCHANGED <<store, late, holder, epoch, effects, runners, reports>>

\* The adapter enforces the current authority at its side-effect boundary.
Authorised(e) == e = epoch /\ cancel = "active"

EffectLands ==
    \E m \in wire :
        /\ Authorised(m.epoch)
        /\ wire' = wire \ {m}
        /\ done' = done \cup {m.revision} /\ performed' = performed + 1
        /\ UNCHANGED <<store, late, authority, runners, reports>>

\* A request is refused at the boundary or gets lost.
EffectDrops ==
    \E m \in wire :
        /\ wire' = wire \ {m}
        /\ UNCHANGED <<store, late, authority, done, performed, runners, reports>>

GoTo(w, step) == pc' = [pc EXCEPT ![w] = step] /\ UNCHANGED view

\* A call ends, and the snapshot it loaded with it.
Returns(w) == pc' = [pc EXCEPT ![w] = "idle"] /\ view' = [view EXCEPT ![w] = NoView]

\* The worker dies.
Crash(w) ==
    /\ pc[w] # "idle" /\ Returns(w)
    /\ UNCHANGED <<store, late, authority, effects, reports>>

-----------------------------------------------------------------------------
(***************************************************************************)
(* run_once.                                                               *)
(***************************************************************************)

\* suppression_for_authority: the fence a worker without the lease is served
\* says ConfirmedLost.
Suppressed(w) == holder # w \/ cancel # "active"

\* Mutant: an unresolved intent must carry the fence it is resumed under.
BelongsToEpoch == intent.epoch = epoch

\* validate_pending_intent: the intent is for what the reducer decides now; its
\* fence may be an earlier one of this execution attempt.
MatchesState == decision = "perform" /\ intent.revision = revision

\* Mutant: an effect whose outcome is unknown is performed again.
Blindly == "perform"

\* reconcile_or_resume comes before any new attempt.
Recover == "reconcile"

\* Mutant: a finished execution is reported before its result is recorded.
ReportsAtOnce == decision = "finish"

\* persist_finish_decision reports only a result it loaded as committed.
Reports == decision = "finish" /\ result = "recorded"

\* Where one call goes after its load.
Resumed ==
    IF intent # NoIntent THEN Recover
    ELSE IF decision = "perform" THEN "persist" ELSE "append"

\* load_event_stream and what run_once makes of it; initialize_strict_profile
\* loads a pristine stream the same way.
Load(w) ==
    /\ pc[w] = "idle" /\ ~Suppressed(w)
    /\ intent = NoIntent => decision # "wait" /\ ~Reports
    /\ IF intent # NoIntent /\ ~MatchesState
       THEN reports' = reports \cup {"corrupt"} /\ UNCHANGED runners
       ELSE /\ view' = [view EXCEPT ![w] = [revision |-> revision, decision |-> decision,
                                           epoch |-> epoch, intent |-> intent]]
            /\ pc' = [pc EXCEPT ![w] = Resumed]
            /\ UNCHANGED reports
    /\ UNCHANGED <<store, late, authority, effects>>

ReportFinish(w) ==
    /\ pc[w] = "idle" /\ ~Suppressed(w) /\ intent = NoIntent /\ Reports
    /\ reports' = reports \cup {"finished"}
    /\ UNCHANGED <<store, late, authority, effects, runners>>

\* run_once returns WriteSuppressed or Waiting.
Declines(w) ==
    /\ pc[w] = "idle"
    /\ Suppressed(w) \/ (intent = NoIntent /\ decision = "wait")
    /\ UNCHANGED vars

\* An answer that ends the call: Conflict, AuthorityRejected, a definite error
\* of the store, or no answer to a write that may still land.
WriteEnds(w, op) ==
    /\ Returns(w)
    /\ \/ UNCHANGED late
       \/ late' = late \cup {[op |-> op, view |-> view[w]]}
    /\ UNCHANGED <<store, authority, effects, reports>>

Append(w) ==
    /\ pc[w] = "append"
    /\ \/ Appends(view[w]) /\ Returns(w)
          /\ UNCHANGED <<late, authority, effects, reports>>
       \/ WriteEnds(w, "append")

\* Only Inserted allows the worker to perform at once.
Persist(w) ==
    /\ pc[w] = "persist"
    /\ \/ /\ Inserts(view[w])
          /\ pc' = [pc EXCEPT ![w] = "perform"]
          /\ view' = [view EXCEPT ![w].intent = NewIntent(view[w])]
          /\ UNCHANGED <<late, authority, effects, reports>>
       \/ WriteEnds(w, "persist")

\* Existing: the intent in the store is the one this worker would insert.
PersistExisting(w) ==
    /\ pc[w] = "persist" /\ Owns(view[w]) /\ intent # NoIntent
    /\ IF intent = NewIntent(view[w])
       THEN /\ pc' = [pc EXCEPT ![w] = Recover] /\ UNCHANGED reports
            /\ view' = [view EXCEPT ![w].intent = intent]
       ELSE Returns(w) /\ reports' = reports \cup {"corrupt"}
    /\ UNCHANGED <<store, late, authority, effects>>

\* Errors of the adapter, AuthorityRejected and lost answers end the call.
EffectEnds(w) ==
    /\ pc[w] \in {"reconcile", "perform", "sent"}
    /\ Returns(w)
    /\ UNCHANGED <<store, late, authority, effects, reports>>

\* EffectExecutor::reconcile: an authoritative observation, or the proof that the
\* effect was not performed and no request for it is left.
Reconcile(w) ==
    /\ pc[w] = "reconcile" /\ Authorised(view[w].epoch)
    /\ \/ view[w].intent.revision \in done /\ GoTo(w, "commit")
       \/ /\ view[w].intent.revision \notin done
          /\ \A m \in wire : m.epoch # epoch
          /\ GoTo(w, "perform")
    /\ UNCHANGED <<store, late, authority, effects, reports>>

\* Mutant: the request carries the fence the intent was created under.
AuthorityOfIntent(v) == v.intent.epoch

\* perform is called with the fence that was loaded, not with the intent's.
AuthorityOfRequest(v) == v.epoch

\* EffectExecutor::perform: the request leaves the worker.
Send(w) ==
    /\ pc[w] = "perform" /\ Authorised(AuthorityOfRequest(view[w]))
    /\ wire' = wire \cup {[revision |-> view[w].intent.revision, epoch |-> AuthorityOfRequest(view[w])]}
    /\ GoTo(w, "sent")
    /\ UNCHANGED <<store, late, authority, done, performed, reports>>

\* A definite observation, success or domain failure.
Observe(w) ==
    /\ pc[w] = "sent" /\ view[w].intent.revision \in done
    /\ GoTo(w, "commit")
    /\ UNCHANGED <<store, late, authority, effects, reports>>

\* commit_observation.
Commit(w) ==
    /\ pc[w] = "commit"
    /\ \/ Resolves(view[w]) /\ Returns(w)
          /\ UNCHANGED <<late, authority, effects, reports>>
       \/ WriteEnds(w, "commit")

Runner(w) ==
    \/ Load(w) \/ ReportFinish(w) \/ Declines(w)
    \/ Append(w) \/ Persist(w) \/ PersistExisting(w)
    \/ Reconcile(w) \/ Send(w) \/ Observe(w) \/ Commit(w) \/ EffectEnds(w)

Next ==
    \/ \E w \in Workers : Runner(w) \/ Crash(w)
    \/ LateWrite \/ EffectLands \/ EffectDrops \/ Rotate \/ Cancel

Spec == Init /\ [][Next]_vars

\* The driver calls run_once again and again, and neither the store nor the
\* adapter refuses or loses every answer.
CommitAnswered(w) == Commit(w) /\ Resolves(view[w])

Fairness ==
    /\ \A w \in Workers : WF_vars(Runner(w))
    /\ SF_vars(\E w \in Workers : Load(w))
    /\ SF_vars(\E w \in Workers : Reconcile(w))
    /\ SF_vars(\E w \in Workers : Send(w))
    /\ SF_vars(\E w \in Workers : CommitAnswered(w))
    /\ SF_vars(EffectLands)

FairSpec == Spec /\ Fairness

(***************************************************************************)
(* Properties.                                                             *)
(***************************************************************************)

(* Effects are intended, performed and observed one after the other, each at
   most once, and none after the canonical result, although workers overlap,
   die with requests on the way and resume each other's intents
   (domain-model.md: "recovery cannot synthesize a new request or repeat an
   effect merely because the worker restarted"). *)
Once == INSTANCE EffectOnce
          WITH intended <- observed + (IF intent = NoIntent THEN 0 ELSE 1)
OnceSpec == Once!Spec

(* No interleaving of workers, late writes and lease changes makes run_once
   report OutboxInvariant: what it finds in the outbox is always the intent of
   the current decision, under whatever fence it was persisted. *)
NeverCorrupt == "corrupt" \notin reports

(* Finished is reported only of a committed canonical result, to which nothing is
   added any more, and no effect is open or still on its way. *)
FinishedIsCommitted ==
    "finished" \in reports =>
        result = "recorded" /\ intent = NoIntent /\ \A m \in wire : ~Authorised(m.epoch)

(* An intent does not stay open: whichever worker persisted it, under whatever
   lease, and whatever was lost on the way, its effect is performed and observed
   under the lease held by then, unless the attempt is cancelled. *)
IntentsAreResolved == (intent # NoIntent) ~> (intent = NoIntent \/ cancel # "active")
=============================================================================
