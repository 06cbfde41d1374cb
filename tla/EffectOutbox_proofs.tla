------------------------- MODULE EffectOutbox_proofs -------------------------
(***************************************************************************)
(* Proofs about the effect outbox, for any workers, any number of events   *)
(* and any number of lease changes: the types, that the outbox is never    *)
(* found corrupt, what a finished report means, and that the outbox        *)
(* implements EffectOnce.                                                  *)
(*                                                                         *)
(* The argument is about snapshots: a snapshot that still names the        *)
(* current revision agrees with the store, and what was loaded, inserted   *)
(* or done since it was taken is visible in the revision, the intent's     *)
(* epoch or the effects done.                                              *)
(***************************************************************************)
EXTENDS EffectOutbox, TLAPS

\* A snapshot is of this stream, not ahead of it, and true while it is current.
Snapshot(v) ==
    /\ v.revision <= revision /\ v.epoch <= epoch
    /\ v.revision = revision => v.decision = decision

\* A snapshot about to insert an intent: one inserted since is no older.
Inserting(v) ==
    /\ v.decision = "perform"
    /\ v.revision = revision /\ intent # NoIntent => v.epoch <= intent.epoch

\* A snapshot with an intent: it is still the open one, or its effect is done.
Bound(v) ==
    \/ v.revision = revision /\ v.intent = intent /\ intent # NoIntent
    \/ v.revision < revision /\ v.intent.revision \in done

\* The right to perform under the current lease.
Free(v) ==
    v.epoch = epoch => v.intent.revision \notin done /\ \A m \in wire : m.epoch # epoch

Resolving(v) == Bound(v) /\ v.intent.revision \in done

Outbox ==
    /\ intent # NoIntent =>
        intent.revision = revision /\ intent.epoch <= epoch /\ decision = "perform"
    /\ decision = "perform" => revision < MaxRevision
    /\ result = "recorded" => decision = "finish"
    /\ "finished" \in reports => result = "recorded"
    /\ NeverCorrupt

World ==
    /\ done \subseteq 0..revision
    /\ revision \in done => intent # NoIntent
    /\ \A m \in wire :
        /\ m.epoch <= epoch
        /\ m.epoch = epoch => intent # NoIntent /\ m.revision = revision /\ revision \notin done
    /\ performed = observed + (IF intent # NoIntent /\ revision \in done THEN 1 ELSE 0)

Call(w) ==
    /\ pc[w] # "idle" => Snapshot(view[w]) /\ (view[w].epoch = epoch => w = holder)
    /\ pc[w] = "persist" => Inserting(view[w])
    /\ pc[w] \in {"reconcile", "perform", "sent", "commit"} => Bound(view[w])
    /\ pc[w] = "perform" => Free(view[w])
    /\ pc[w] = "commit" => Resolving(view[w])

Write(m) ==
    /\ Snapshot(m.view)
    /\ m.op = "persist" => Inserting(m.view)
    /\ m.op = "commit" => Resolving(m.view)

IInv ==
    /\ TypeOK /\ Outbox /\ World
    /\ \A w \in Workers : Call(w)
    /\ \A m \in late : Write(m)

\* What a snapshot knew, it still knows after a step.
Survives ==
    \A u \in Views :
        Snapshot(u) =>
            /\ Snapshot(u)'
            /\ Inserting(u) => Inserting(u)'
            /\ Bound(u) => Bound(u)'
            /\ Bound(u) /\ Free(u) => Free(u)'
            /\ Resolving(u) => Resolving(u)'

StoreOK == revision \in 0..MaxRevision /\ decision \in Decisions /\ intent \in Intents
           /\ observed \in Nat /\ result \in {"none", "recorded"}

-----------------------------------------------------------------------------
(* The writes of the store, whether answered or late. *)

(* Appending an event (append_event_cas). *)
LEMMA AppendsKeeps ==
    ASSUME TypeOK, Outbox, World, NEW v \in Views, Snapshot(v), Appends(v),
           UNCHANGED <<authority, effects, reports>>
    PROVE  StoreOK' /\ Outbox' /\ World' /\ Survives
<1> USE OutboxAssumption DEF TypeOK, Appends, Owns, Advance, authority, effects
<1>1. StoreOK' /\ revision' = revision + 1 /\ intent' = NoIntent /\ intent = NoIntent
  BY DEF StoreOK, Intents, NoIntent, Decisions
<1>2. Outbox'
  BY <1>1 DEF Outbox, Decisions, NeverCorrupt
<1>3. World'
  BY <1>1 DEF World, Intents
<1>4. Survives
  BY <1>1 DEF Survives, Snapshot, Inserting, Bound, Free, Resolving, Views, Intents
<1> QED BY <1>1, <1>2, <1>3, <1>4

(* Inserting an intent (persist_effect_intent_cas). *)
LEMMA InsertsKeeps ==
    ASSUME TypeOK, Outbox, World, NEW v \in Views, Snapshot(v), Inserting(v), Inserts(v),
           UNCHANGED <<authority, effects, reports>>
    PROVE  StoreOK' /\ Outbox' /\ World' /\ Survives
<1> USE OutboxAssumption DEF TypeOK, Inserts, Owns, authority, effects
<1>1. /\ StoreOK' /\ intent = NoIntent /\ intent' # NoIntent
      /\ intent'.revision = revision /\ intent'.epoch = epoch
  BY DEF StoreOK, Intents, NoIntent, NewIntent, Views
<1>2. Outbox'
  BY <1>1 DEF Outbox, Snapshot, Inserting, NeverCorrupt
<1>3. World'
  BY <1>1 DEF World, Intents
<1>4. Survives
  BY <1>1 DEF Survives, Snapshot, Inserting, Bound, Free, Resolving, Views, Intents
<1> QED BY <1>1, <1>2, <1>3, <1>4

(* Committing an observation (commit_effect_observation_cas). *)
LEMMA ResolvesKeeps ==
    ASSUME TypeOK, Outbox, World, NEW v \in Views, Snapshot(v), Resolving(v), Resolves(v),
           UNCHANGED <<authority, effects, reports>>
    PROVE  StoreOK' /\ Outbox' /\ World' /\ Survives
<1> USE OutboxAssumption DEF TypeOK, Resolves, Owns, Advance, authority, effects
<1>1. intent # NoIntent /\ revision \in done /\ revision < MaxRevision /\ decision = "perform"
  BY DEF Outbox, Resolving
<1>2. StoreOK' /\ revision' = revision + 1 /\ intent' = NoIntent /\ observed' = observed + 1
  BY <1>1 DEF StoreOK, Intents, NoIntent, Decisions
<1>3. Outbox'
  BY <1>1, <1>2 DEF Outbox, Decisions, NeverCorrupt
<1>4. World'
  BY <1>1, <1>2 DEF World, Intents
<1>5. Survives
  BY <1>1, <1>2 DEF Survives, Snapshot, Inserting, Bound, Free, Resolving, Views, Intents, Outbox
<1> QED BY <1>2, <1>3, <1>4, <1>5

(* A step that changes nothing a snapshot is about. *)
LEMMA StutterSurvives ==
    ASSUME UNCHANGED <<store, authority, effects>>
    PROVE  Survives
BY DEF store, authority, effects, Survives, Snapshot, Inserting, Bound, Free, Resolving

(* The calls of the workers a step does not move, and the late writes. *)
LEMMA CallsSurvive ==
    ASSUME IInv, Survives, holder' = holder, epoch' = epoch,
           NEW x \in Workers, pc'[x] = pc[x], view'[x] = view[x]
    PROVE  Call(x)'
BY DEF IInv, TypeOK, Survives, Call, Snapshot, Inserting, Bound, Free, Resolving

LEMMA WritesSurvive ==
    ASSUME IInv, Survives, NEW m \in late
    PROVE  Write(m)'
BY DEF IInv, TypeOK, Writes, Survives, Write, Snapshot, Inserting, Bound, Resolving

(* The written-down parts of a step that leaves the store alone. *)
LEMMA StoreStands ==
    ASSUME IInv, UNCHANGED <<store, authority, effects, reports>>
    PROVE  StoreOK' /\ Outbox' /\ World' /\ Survives
<1>1. StoreOK' /\ Outbox' /\ World'
  BY DEF IInv, TypeOK, StoreOK, Outbox, World, NeverCorrupt, store, authority, effects
<1> QED BY <1>1, StutterSurvives

(* A step of worker w: it leaves the other workers and the lease alone. *)
LEMMA StepOf ==
    ASSUME IInv, NEW w \in Workers, StoreOK', Outbox', World', Survives,
           UNCHANGED <<authority, wire, done, performed>>, performed \in Nat,
           NEW to \in {"idle", "append", "persist", "reconcile", "perform", "sent", "commit"},
           NEW v \in Views,
           pc' = [pc EXCEPT ![w] = to], view' = [view EXCEPT ![w] = v],
           Call(w)',
           late' = late \/ \E m \in Writes : late' = late \cup {m} /\ Write(m)',
           reports' \subseteq {"finished", "corrupt"}
    PROVE  IInv'
<1>1. TypeOK'
  <2>1. late' \subseteq Writes BY DEF IInv, TypeOK
  <2> QED BY <2>1 DEF IInv, TypeOK, StoreOK, authority
<1>2. \A x \in Workers : Call(x)'
  <2> SUFFICES ASSUME NEW x \in Workers PROVE Call(x)' OBVIOUS
  <2>1. CASE x = w BY <2>1
  <2>2. CASE x # w
    <3>1. pc'[x] = pc[x] /\ view'[x] = view[x] BY <2>2 DEF IInv, TypeOK
    <3> QED BY <3>1, CallsSurvive DEF authority
  <2> QED BY <2>1, <2>2
<1>3. \A m \in late' : Write(m)'
  <2>1. \A m \in late : Write(m)' BY WritesSurvive
  <2> QED BY <2>1
<1> QED BY <1>1, <1>2, <1>3 DEF IInv

-----------------------------------------------------------------------------
(* The steps of the runner. *)

LEMMA NoViewIsView == NoView \in Views
BY OutboxAssumption DEF NoView, Views, Decisions, NoIntent, Intents

(* A worker loads a snapshot, and an intent only if it is for this state. *)
LEMMA LoadKeeps ==
    ASSUME IInv, NEW w \in Workers, Load(w) PROVE IInv'
<1>1. StoreOK' /\ Outbox' /\ World' /\ Survives
  <2>1. intent # NoIntent => MatchesState BY DEF IInv, Outbox, MatchesState
  <2>2. UNCHANGED <<store, authority, effects, reports>> BY <2>1 DEF Load
  <2> QED BY <2>2, StoreStands
<1> DEFINE v == [revision |-> revision, decision |-> decision, epoch |-> epoch, intent |-> intent]
<1>2. /\ pc' = [pc EXCEPT ![w] = Resumed] /\ view' = [view EXCEPT ![w] = v]
      /\ UNCHANGED <<store, late, authority, effects, reports>>
  BY DEF IInv, Outbox, MatchesState, Load
<1>3. /\ Resumed \in {"append", "persist", "reconcile"}
      /\ Resumed = "persist" => intent = NoIntent /\ decision = "perform"
      /\ Resumed = "reconcile" => intent # NoIntent
  BY DEF Resumed, Recover
<1>4. v \in Views
  BY DEF IInv, TypeOK, Views
<1>5. pc'[w] = Resumed /\ view'[w] = v /\ w = holder
  BY <1>2 DEF IInv, TypeOK, Load, Suppressed
<1> HIDE DEF v
<1>6. /\ v.revision = revision /\ v.decision = decision
      /\ v.epoch = epoch /\ v.intent = intent
  BY DEF v
<1>7. Call(w)'
  BY <1>2, <1>3, <1>5, <1>6
  DEF IInv, TypeOK, Outbox, Call, Snapshot, Inserting, Bound, Free, Resolving,
      store, authority, effects
<1>8. pc' = [pc EXCEPT ![w] = pc'[w]] /\ view' = [view EXCEPT ![w] = view'[w]]
  BY <1>2, <1>5
<1> QED BY <1>1, <1>2, <1>3, <1>4, <1>5, <1>7, StepOf DEF IInv, TypeOK, authority, effects

(* A call that ends, with nothing written, or with a write left behind. *)
LEMMA ReturnsKeeps ==
    ASSUME IInv, NEW w \in Workers, StoreOK', Outbox', World', Survives,
           UNCHANGED <<authority, effects>>, Returns(w),
           late' = late \/ \E m \in Writes : late' = late \cup {m} /\ Write(m)',
           reports' \subseteq {"finished", "corrupt"}
    PROVE  IInv'
<1>1. pc' = [pc EXCEPT ![w] = "idle"] /\ view' = [view EXCEPT ![w] = NoView] /\ pc'[w] = "idle"
  BY DEF Returns, IInv, TypeOK
<1>2. Call(w)'
  BY <1>1 DEF Call
<1> QED BY <1>1, <1>2, NoViewIsView, StepOf DEF IInv, TypeOK, effects

(* The answers that end a call; a write they leave behind is the snapshot's. *)
LEMMA WriteEndsKeeps ==
    ASSUME IInv, NEW w \in Workers, NEW op \in {"append", "persist", "commit"},
           pc[w] = op, WriteEnds(w, op)
    PROVE  IInv'
<1>1. StoreOK' /\ Outbox' /\ World' /\ Survives
  BY StoreStands DEF WriteEnds
<1>2. late' = late \/ \E m \in Writes : late' = late \cup {m} /\ Write(m)'
  <2>1. CASE late' = late BY <2>1
  <2>2. CASE late' = late \cup {[op |-> op, view |-> view[w]]}
    <3>1. PICK m \in Writes : m = [op |-> op, view |-> view[w]]
      BY DEF IInv, TypeOK, Writes
    <3>2. m.op = op /\ m.view = view[w] /\ m.view \in Views
      BY <3>1 DEF Writes
    <3>3. Snapshot(m.view) /\ (op = "persist" => Inserting(m.view))
          /\ (op = "commit" => Resolving(m.view))
      BY <3>2 DEF IInv, Call
    <3>4. Write(m)'
      BY <1>1, <3>2, <3>3 DEF Survives, Write, Snapshot, Inserting, Resolving, Bound
    <3> QED BY <2>2, <3>1, <3>4
  <2> QED BY <2>1, <2>2 DEF WriteEnds
<1> QED BY <1>1, <1>2, ReturnsKeeps DEF WriteEnds, IInv, TypeOK

LEMMA AppendKeeps ==
    ASSUME IInv, NEW w \in Workers, Append(w) PROVE IInv'
<1>1. CASE WriteEnds(w, "append")
  BY <1>1, WriteEndsKeeps DEF Append
<1>2. CASE Appends(view[w]) /\ Returns(w) /\ UNCHANGED <<late, authority, effects, reports>>
  <2>1. view[w] \in Views /\ Snapshot(view[w])
    BY DEF Append, IInv, TypeOK, Call
  <2>2. StoreOK' /\ Outbox' /\ World' /\ Survives
    BY <1>2, <2>1, AppendsKeeps DEF IInv
  <2> QED BY <1>2, <2>2, ReturnsKeeps DEF IInv, TypeOK
<1> QED BY <1>1, <1>2 DEF Append

LEMMA CommitKeeps ==
    ASSUME IInv, NEW w \in Workers, Commit(w) PROVE IInv'
<1>1. CASE WriteEnds(w, "commit")
  BY <1>1, WriteEndsKeeps DEF Commit
<1>2. CASE Resolves(view[w]) /\ Returns(w) /\ UNCHANGED <<late, authority, effects, reports>>
  <2>1. view[w] \in Views /\ Snapshot(view[w]) /\ Resolving(view[w])
    BY DEF Commit, IInv, TypeOK, Call
  <2>2. StoreOK' /\ Outbox' /\ World' /\ Survives
    BY <1>2, <2>1, ResolvesKeeps DEF IInv
  <2> QED BY <1>2, <2>2, ReturnsKeeps DEF IInv, TypeOK
<1> QED BY <1>1, <1>2 DEF Commit

(* Inserting the intent gives the right to perform it. *)
LEMMA PersistKeeps ==
    ASSUME IInv, NEW w \in Workers, Persist(w) PROVE IInv'
<1>1. CASE WriteEnds(w, "persist")
  BY <1>1, WriteEndsKeeps DEF Persist
<1>2. CASE /\ Inserts(view[w])
           /\ pc' = [pc EXCEPT ![w] = "perform"]
           /\ view' = [view EXCEPT ![w].intent = NewIntent(view[w])]
           /\ UNCHANGED <<late, authority, effects, reports>>
  <2>1. view[w] \in Views /\ Snapshot(view[w]) /\ Inserting(view[w])
    BY DEF Persist, IInv, TypeOK, Call
  <2>2. StoreOK' /\ Outbox' /\ World' /\ Survives
    BY <1>2, <2>1, InsertsKeeps DEF IInv
  <2> DEFINE v == [view[w] EXCEPT !.intent = NewIntent(view[w])]
  <2>3. view' = [view EXCEPT ![w] = v] /\ view'[w] = v /\ pc'[w] = "perform"
    BY <1>2 DEF IInv, TypeOK
  <2>4. v \in Views /\ v.revision = revision /\ v.decision = decision /\ v.epoch = epoch
        /\ v.intent = intent' /\ intent' # NoIntent /\ intent'.revision = revision
        /\ revision' = revision /\ decision' = decision /\ intent = NoIntent
    BY <1>2, <2>1 DEF IInv, TypeOK, Views, Intents, Inserts, Owns, NewIntent, NoIntent, Snapshot
  <2> HIDE DEF v
  <2>5. /\ Snapshot(view[w])' /\ Bound(view[w])' /\ Free(view[w])'
        /\ (view[w].epoch = epoch => w = holder)'
    <3>0. epoch' = epoch /\ revision <= revision /\ epoch <= epoch
      BY <1>2, OutboxAssumption DEF IInv, TypeOK, authority
    <3>1. Snapshot(view[w])' /\ Bound(view[w])'
      BY <2>3, <2>4, <3>0 DEF Snapshot, Bound
    <3>2. Free(view[w])'
      BY <1>2, <2>3, <2>4 DEF Free, effects, authority, IInv, World
    <3>3. w = holder
      BY <1>2 DEF IInv, Call, Persist, Inserts, Owns
    <3> QED BY <1>2, <3>1, <3>2, <3>3 DEF authority
  <2>6. Call(w)'
    BY <2>3, <2>5 DEF Call
  <2> QED BY <1>2, <2>2, <2>3, <2>4, <2>6, StepOf DEF IInv, TypeOK, effects
<1> QED BY <1>1, <1>2 DEF Persist

(* An intent found in the store is the one this worker would insert. *)
LEMMA PersistExistingKeeps ==
    ASSUME IInv, NEW w \in Workers, PersistExisting(w) PROVE IInv'
<1>1. view[w] \in Views /\ Snapshot(view[w]) /\ Inserting(view[w])
  BY DEF PersistExisting, IInv, TypeOK, Call
<1>2. intent = NewIntent(view[w])
  <2>1. intent.epoch = view[w].epoch /\ intent.revision = view[w].revision /\ intent \in Intents
    BY <1>1 DEF PersistExisting, Owns, IInv, Outbox, Inserting, TypeOK, Intents
  <2> QED BY <2>1 DEF NewIntent, Intents
<1>3. /\ pc' = [pc EXCEPT ![w] = "reconcile"]
      /\ view' = [view EXCEPT ![w].intent = intent]
      /\ UNCHANGED <<store, late, authority, effects, reports>>
  BY <1>2 DEF PersistExisting, Recover
<1> DEFINE v == [view[w] EXCEPT !.intent = intent]
<1>4. view' = [view EXCEPT ![w] = v] /\ view'[w] = v /\ pc'[w] = "reconcile"
  BY <1>3 DEF IInv, TypeOK
<1>5. v \in Views /\ v.revision = revision /\ v.intent = intent /\ intent # NoIntent
      /\ v.decision = view[w].decision /\ v.epoch = view[w].epoch
      /\ view[w].revision = revision
  BY <1>1 DEF IInv, TypeOK, Views, PersistExisting, Owns
<1> HIDE DEF v
<1>6. Call(w)'
  <2>1. UNCHANGED <<revision, decision, intent, holder, epoch>>
    BY <1>3 DEF store, authority
  <2>2. view[w].epoch = epoch => w = holder
    BY DEF PersistExisting, IInv, Call
  <2>3. Snapshot(view[w])' /\ Bound(view[w])'
    BY <1>1, <1>4, <1>5, <2>1 DEF Snapshot, Bound
  <2> QED BY <1>4, <1>5, <2>1, <2>2, <2>3 DEF Call
<1>7. StoreOK' /\ Outbox' /\ World' /\ Survives
  BY <1>3, StoreStands
<1>8. pc' = [pc EXCEPT ![w] = "reconcile"] /\ view' = [view EXCEPT ![w] = v]
  BY <1>3, <1>4
<1>9. /\ UNCHANGED <<authority, wire, done, performed>> /\ performed \in Nat
      /\ late' = late /\ reports' \subseteq {"finished", "corrupt"}
  BY <1>3 DEF IInv, TypeOK, effects
<1> QED BY <1>5, <1>6, <1>7, <1>8, <1>9, StepOf

(* A step within a call that writes nothing. *)
LEMMA GoToKeeps ==
    ASSUME IInv, NEW w \in Workers, UNCHANGED <<store, late, authority, effects, reports>>,
           NEW to \in {"perform", "commit"}, GoTo(w, to),
           pc[w] \in {"reconcile", "sent"},
           to = "perform" => Free(view[w]), to = "commit" => Resolving(view[w])
    PROVE  IInv'
<1>1. pc'[w] = to /\ view' = view /\ pc' = [pc EXCEPT ![w] = to]
  BY DEF GoTo, IInv, TypeOK
<1>2. Snapshot(view[w]) /\ (view[w].epoch = epoch => w = holder) /\ Bound(view[w])
  BY DEF IInv, Call
<1>3. Call(w)'
  BY <1>1, <1>2 DEF Call, Snapshot, Bound, Free, Resolving, store, authority, effects
<1>4. view' = [view EXCEPT ![w] = view[w]] /\ view[w] \in Views
  BY <1>1 DEF IInv, TypeOK
<1> QED BY <1>1, <1>3, <1>4, StoreStands, StepOf DEF IInv, TypeOK, effects

LEMMA ReconcileKeeps ==
    ASSUME IInv, NEW w \in Workers, Reconcile(w) PROVE IInv'
<1>1. CASE view[w].intent.revision \in done /\ GoTo(w, "commit")
  <2>1. Resolving(view[w]) BY <1>1 DEF Reconcile, IInv, Call, Resolving
  <2> QED BY <1>1, <2>1, GoToKeeps DEF Reconcile
<1>2. CASE /\ view[w].intent.revision \notin done
           /\ \A m \in wire : m.epoch # epoch
           /\ GoTo(w, "perform")
  <2>1. Free(view[w]) BY <1>2 DEF Free
  <2> QED BY <1>2, <2>1, GoToKeeps DEF Reconcile
<1> QED BY <1>1, <1>2 DEF Reconcile

LEMMA ObserveKeeps ==
    ASSUME IInv, NEW w \in Workers, Observe(w) PROVE IInv'
<1>1. Resolving(view[w]) BY DEF Observe, IInv, Call, Resolving
<1> QED BY <1>1, GoToKeeps DEF Observe

(* The request leaves the worker; no other one has the right to perform. *)
LEMMA SendKeeps ==
    ASSUME IInv, NEW w \in Workers, Send(w) PROVE IInv'
<1> DEFINE m == [revision |-> view[w].intent.revision, epoch |-> view[w].epoch]
<1>1. /\ view[w] \in Views /\ view[w].epoch = epoch /\ w = holder /\ pc[w] = "perform"
      /\ Snapshot(view[w]) /\ Bound(view[w]) /\ Free(view[w])
  BY DEF Send, Authorised, AuthorityOfRequest, IInv, TypeOK, Call
<1>2. intent # NoIntent /\ view[w].intent.revision = revision /\ revision \notin done
  BY <1>1 DEF Bound, Free, IInv, Outbox
<1>3. /\ pc' = [pc EXCEPT ![w] = "sent"] /\ view' = view /\ wire' = wire \cup {m}
      /\ UNCHANGED <<store, late, authority, done, performed, reports>>
      /\ m \in Intents /\ m.revision = revision /\ m.epoch = epoch
  BY <1>1, <1>2 DEF Send, GoTo, AuthorityOfRequest, Views, Intents
<1>4. TypeOK'
  BY <1>3 DEF IInv, TypeOK, store, authority
<1> HIDE DEF m
<1>5. Outbox'
  BY <1>3 DEF IInv, Outbox, NeverCorrupt, store, authority
<1>6. World'
  BY <1>2, <1>3, OutboxAssumption DEF IInv, TypeOK, World, store, authority
<1>7. \A x \in Workers : Call(x)'
  <2> SUFFICES ASSUME NEW x \in Workers PROVE Call(x)' OBVIOUS
  <2>1. CASE x = w
    <3>1. pc'[w] = "sent" BY <1>3 DEF IInv, TypeOK
    <3> QED BY <1>1, <1>3, <2>1, <3>1 DEF Call, Snapshot, Bound, store, authority
  <2>2. CASE x # w
    <3>1. pc'[x] = pc[x] BY <1>3, <2>2 DEF IInv, TypeOK
    <3>2. Call(x) /\ (pc[x] # "idle" => view[x].epoch # epoch) BY <1>1, <2>2 DEF IInv, Call
    <3> QED
      BY <1>3, <3>1, <3>2 DEF Call, Snapshot, Inserting, Bound, Free, Resolving, store, authority
  <2> QED BY <2>1, <2>2
<1>8. \A n \in late' : Write(n)'
  BY <1>3 DEF IInv, Write, Snapshot, Inserting, Bound, Resolving, store, authority
<1> QED BY <1>4, <1>5, <1>6, <1>7, <1>8 DEF IInv

(* A call that fails or a worker that dies forgets its snapshot. *)
LEMMA EndsKeeps ==
    ASSUME IInv, NEW w \in Workers, EffectEnds(w) \/ Crash(w) PROVE IInv'
<1>1. Returns(w) /\ UNCHANGED <<store, late, authority, effects, reports>>
  BY DEF EffectEnds, Crash
<1>2. StoreOK' /\ Outbox' /\ World' /\ Survives
  BY <1>1, StoreStands
<1> QED BY <1>1, <1>2, ReturnsKeeps DEF IInv, TypeOK

(* A finished report is of a recorded result. *)
LEMMA ReportFinishKeeps ==
    ASSUME IInv, NEW w \in Workers, ReportFinish(w) PROVE IInv'
<1>1. result = "recorded" /\ reports' = reports \cup {"finished"}
      /\ UNCHANGED <<store, late, authority, effects, runners>>
  BY DEF ReportFinish, Reports
<1>2. Survives BY <1>1, StutterSurvives
<1>3. TypeOK' BY <1>1 DEF IInv, TypeOK, store, authority, effects, runners
<1>4. Outbox' BY <1>1 DEF IInv, Outbox, NeverCorrupt, store, authority
<1>5. World' BY <1>1 DEF IInv, World, store, authority, effects
<1>6. \A x \in Workers : Call(x)'
  BY <1>1, <1>2, CallsSurvive DEF authority, runners
<1>7. \A m \in late' : Write(m)' BY <1>1, <1>2, WritesSurvive
<1> QED BY <1>3, <1>4, <1>5, <1>6, <1>7 DEF IInv

-----------------------------------------------------------------------------
(* The steps of the store, the control plane and the world. *)

LEMMA LateWriteKeeps ==
    ASSUME IInv, LateWrite PROVE IInv'
<1>1. PICK m \in late :
        /\ Lands(m) \/ UNCHANGED store
        /\ late' = late \ {m}
        /\ UNCHANGED <<authority, effects, runners, reports>>
  BY DEF LateWrite
<1>2. /\ m.view \in Views /\ m.op \in {"append", "persist", "commit"}
      /\ Snapshot(m.view)
      /\ m.op = "persist" => Inserting(m.view)
      /\ m.op = "commit" => Resolving(m.view)
  BY DEF IInv, TypeOK, Writes, Write
<1>3. StoreOK' /\ Outbox' /\ World' /\ Survives
  <2>1. CASE UNCHANGED store BY <1>1, <2>1, StoreStands
  <2>2. CASE m.op = "append" /\ Appends(m.view)
    BY <1>1, <1>2, <2>2, AppendsKeeps DEF IInv
  <2>3. CASE m.op = "persist" /\ Inserts(m.view)
    BY <1>1, <1>2, <2>3, InsertsKeeps DEF IInv
  <2>4. CASE m.op = "commit" /\ Resolves(m.view)
    BY <1>1, <1>2, <2>4, ResolvesKeeps DEF IInv
  <2> QED BY <1>1, <1>2, <2>1, <2>2, <2>3, <2>4 DEF Lands
<1>4. TypeOK' BY <1>1, <1>3 DEF IInv, TypeOK, StoreOK, authority, effects, runners
<1>5. \A x \in Workers : Call(x)' BY <1>1, <1>3, CallsSurvive DEF authority, runners
<1>6. \A n \in late' : Write(n)' BY <1>1, <1>3, WritesSurvive
<1> QED BY <1>3, <1>4, <1>5, <1>6 DEF IInv

(* An effect lands while its intent is open, and for the first time. *)
LEMMA EffectLandsKeeps ==
    ASSUME IInv, EffectLands PROVE IInv'
<1>1. PICK m \in wire :
        /\ m.epoch = epoch
        /\ wire' = wire \ {m}
        /\ done' = done \cup {m.revision} /\ performed' = performed + 1
        /\ UNCHANGED <<store, late, authority, runners, reports>>
  BY DEF EffectLands, Authorised
<1>2. intent # NoIntent /\ m.revision = revision /\ revision \notin done
  BY <1>1 DEF IInv, World
<1>3. Survives
  BY <1>1 DEF Survives, Snapshot, Inserting, Bound, Free, Resolving, store, authority
<1>4. TypeOK'
  BY <1>1, <1>2 DEF IInv, TypeOK, store, authority, runners
<1>5. Outbox' BY <1>1 DEF IInv, Outbox, NeverCorrupt, store, authority
<1>6. World'
  <2>1. \A n \in wire' : n.epoch # epoch
    <3> SUFFICES ASSUME NEW n \in wire', n.epoch = epoch PROVE FALSE OBVIOUS
    <3>1. n \in Intents /\ m \in Intents /\ n # m /\ n \in wire BY <1>1 DEF IInv, TypeOK
    <3>2. n.revision = revision BY <3>1 DEF IInv, World
    <3> QED BY <1>1, <1>2, <3>1, <3>2 DEF Intents
  <2>2. /\ done' \subseteq 0..revision
        /\ \A n \in wire' : n.epoch <= epoch
        /\ performed' = observed + 1
    BY <1>1, <1>2, OutboxAssumption DEF IInv, World, TypeOK
  <2> QED BY <1>1, <1>2, <2>1, <2>2 DEF World, store, authority
<1>7. \A x \in Workers : Call(x)' BY <1>1, <1>3, CallsSurvive DEF authority, runners
<1>8. \A n \in late' : Write(n)' BY <1>1, <1>3, WritesSurvive
<1> QED BY <1>4, <1>5, <1>6, <1>7, <1>8 DEF IInv

LEMMA EffectDropsKeeps ==
    ASSUME IInv, EffectDrops PROVE IInv'
<1>1. /\ wire' \subseteq wire
      /\ UNCHANGED <<store, late, authority, done, performed, runners, reports>>
  BY DEF EffectDrops
<1>2. Survives
  BY <1>1 DEF Survives, Snapshot, Inserting, Bound, Free, Resolving, store, authority
<1>3. TypeOK' BY <1>1 DEF IInv, TypeOK, store, authority, runners
<1>4. Outbox' BY <1>1 DEF IInv, Outbox, NeverCorrupt, store, authority
<1>5. World' BY <1>1 DEF IInv, World, store, authority
<1>6. \A x \in Workers : Call(x)' BY <1>1, <1>2, CallsSurvive DEF authority, runners
<1>7. \A n \in late' : Write(n)' BY <1>1, <1>2, WritesSurvive
<1> QED BY <1>3, <1>4, <1>5, <1>6, <1>7 DEF IInv

(* A new lease: every snapshot and every request is of an older one. *)
LEMMA RotateKeeps ==
    ASSUME IInv, Rotate PROVE IInv'
<1>1. /\ epoch' = epoch + 1 /\ epoch < MaxEpoch /\ holder' \in Workers
      /\ UNCHANGED <<store, late, cancel, effects, runners, reports>>
  BY DEF Rotate
<1>2. TypeOK' BY <1>1, OutboxAssumption DEF IInv, TypeOK, store, effects, runners
<1>3. Outbox'
  BY <1>1 DEF IInv, Outbox, NeverCorrupt, TypeOK, Intents, store
<1>4. World'
  BY <1>1 DEF IInv, World, TypeOK, Intents, store, effects
<1>5. ASSUME NEW v \in Views, Snapshot(v)
      PROVE  /\ v.epoch # epoch' /\ v.epoch <= epoch'
             /\ v.revision <= revision' /\ (v.revision = revision' => v.decision = decision')
  BY <1>1, <1>5 DEF Snapshot, IInv, TypeOK, Views, store
<1>6. \A x \in Workers : Call(x)'
  <2> SUFFICES ASSUME NEW x \in Workers PROVE Call(x)' OBVIOUS
  <2>1. Call(x) /\ view[x] \in Views /\ view' = view /\ pc' = pc
    BY <1>1 DEF IInv, TypeOK, runners
  <2> QED
    BY <1>1, <1>5, <2>1
    DEF Call, Snapshot, Inserting, Bound, Free, Resolving, store, effects
<1>7. \A m \in late' : Write(m)'
  <2> SUFFICES ASSUME NEW m \in late PROVE Write(m)' BY <1>1
  <2>1. Write(m) /\ m.view \in Views BY DEF IInv, TypeOK, Writes
  <2> QED BY <1>1, <1>5, <2>1 DEF Write, Snapshot, Inserting, Bound, Resolving, store, effects
<1> QED BY <1>2, <1>3, <1>4, <1>6, <1>7 DEF IInv

LEMMA CancelKeeps ==
    ASSUME IInv, Cancel PROVE IInv'
<1>1. cancel' = "requested" /\ UNCHANGED <<store, late, holder, epoch, effects, runners, reports>>
  BY DEF Cancel
<1>2. Survives
  BY <1>1 DEF Survives, Snapshot, Inserting, Bound, Free, Resolving, store, effects
<1>3. TypeOK' BY <1>1 DEF IInv, TypeOK, store, effects, runners
<1>4. Outbox' BY <1>1 DEF IInv, Outbox, NeverCorrupt, store
<1>5. World' BY <1>1 DEF IInv, World, store, effects
<1>6. \A x \in Workers : Call(x)' BY <1>1, <1>2, CallsSurvive DEF runners
<1>7. \A m \in late' : Write(m)' BY <1>1, <1>2, WritesSurvive
<1> QED BY <1>3, <1>4, <1>5, <1>6, <1>7 DEF IInv

LEMMA StepKeeps ==
    ASSUME IInv, [Next]_vars PROVE IInv'
<1>1. CASE UNCHANGED vars
  <2>1. Survives BY <1>1, StutterSurvives DEF vars
  <2>2. TypeOK' /\ Outbox' /\ World'
    BY <1>1 DEF IInv, TypeOK, Outbox, World, NeverCorrupt, vars, store, authority, effects, runners
  <2>3. \A x \in Workers : Call(x)'
    BY <1>1, <2>1, CallsSurvive DEF vars, authority, runners
  <2>4. \A m \in late' : Write(m)' BY <1>1, <2>1, WritesSurvive DEF vars
  <2> QED BY <2>2, <2>3, <2>4 DEF IInv
<1>2. CASE \E w \in Workers : Runner(w) \/ Crash(w)
  <2> SUFFICES ASSUME NEW w \in Workers, Runner(w) \/ Crash(w) PROVE IInv' BY <1>2
  <2>1. CASE Load(w) BY <2>1, LoadKeeps
  <2>2. CASE ReportFinish(w) BY <2>2, ReportFinishKeeps
  <2>3. CASE Declines(w) BY <1>1, <2>3 DEF Declines
  <2>4. CASE Append(w) BY <2>4, AppendKeeps
  <2>5. CASE Persist(w) BY <2>5, PersistKeeps
  <2>6. CASE PersistExisting(w) BY <2>6, PersistExistingKeeps
  <2>7. CASE Reconcile(w) BY <2>7, ReconcileKeeps
  <2>8. CASE Send(w) BY <2>8, SendKeeps
  <2>9. CASE Observe(w) BY <2>9, ObserveKeeps
  <2>10. CASE Commit(w) BY <2>10, CommitKeeps
  <2>11. CASE EffectEnds(w) \/ Crash(w) BY <2>11, EndsKeeps
  <2> QED
    BY <2>1, <2>2, <2>3, <2>4, <2>5, <2>6, <2>7, <2>8, <2>9, <2>10, <2>11 DEF Runner
<1>3. CASE LateWrite BY <1>3, LateWriteKeeps
<1>4. CASE EffectLands BY <1>4, EffectLandsKeeps
<1>5. CASE EffectDrops BY <1>5, EffectDropsKeeps
<1>6. CASE Rotate BY <1>6, RotateKeeps
<1>7. CASE Cancel BY <1>7, CancelKeeps
<1> QED BY <1>1, <1>2, <1>3, <1>4, <1>5, <1>6, <1>7 DEF Next

LEMMA InitHolds == Init => IInv
<1> SUFFICES ASSUME Init PROVE IInv OBVIOUS
<1>1. TypeOK
  BY OutboxAssumption, NoViewIsView DEF Init, TypeOK, Decisions, Intents, NoIntent
<1>2. Outbox /\ World
  BY OutboxAssumption DEF Init, Outbox, World, NeverCorrupt
<1>3. \A w \in Workers : Call(w)
  BY DEF Init, Call
<1>4. \A m \in late : Write(m)
  BY DEF Init
<1> QED BY <1>1, <1>2, <1>3, <1>4 DEF IInv

LEMMA Invariance == Spec => []IInv
BY InitHolds, StepKeeps, PTL DEF Spec

(* The types of the store, the effects and the runners, after any sequence of
   calls, crashes, lost answers and lease changes. *)
THEOREM TypeCorrect == Spec => []TypeOK
<1>1. IInv => TypeOK BY DEF IInv
<1> QED BY <1>1, Invariance, PTL

(* run_once never finds the outbox corrupt (OutboxInvariant): an intent in it is
   always for what the reducer decides, whatever lease it was persisted under. *)
THEOREM OutboxIsNeverCorrupt == Spec => []NeverCorrupt
<1>1. IInv => NeverCorrupt BY DEF IInv, Outbox
<1> QED BY <1>1, Invariance, PTL

(* Finished is returned only once the canonical result is committed, no intent is
   open and no request may still take effect. *)
THEOREM FinishedMeansCommitted == Spec => []FinishedIsCommitted
<1>1. IInv => FinishedIsCommitted
  BY DEF IInv, Outbox, World, FinishedIsCommitted, Authorised
<1> QED BY <1>1, Invariance, PTL

-----------------------------------------------------------------------------
(* The outbox implements EffectOnce. *)

OnceStep == [Once!Next]_(Once!counts)

LEMMA AppendsOnce ==
    ASSUME IInv, NEW v \in Views, Appends(v), UNCHANGED effects PROVE OnceStep
BY DEF IInv, TypeOK, Appends, effects, OnceStep, Once!Next, Once!RecordResult, Once!counts

LEMMA InsertsOnce ==
    ASSUME IInv, NEW v \in Views, Snapshot(v), Inserting(v), Inserts(v), UNCHANGED effects
    PROVE  OnceStep
<1>1. intent' # NoIntent
  BY DEF Inserts, Owns, NewIntent, NoIntent, IInv, TypeOK
<1>2. result = "none"
  BY DEF IInv, TypeOK, Outbox, Snapshot, Inserting, Inserts, Owns
<1> QED
  BY <1>1, <1>2
  DEF IInv, TypeOK, Inserts, effects, OnceStep, Once!Next, Once!Intend, Once!counts

LEMMA ResolvesOnce ==
    ASSUME IInv, NEW v \in Views, Resolving(v), Resolves(v), UNCHANGED effects PROVE OnceStep
<1>1. revision \in done /\ intent # NoIntent
  BY DEF IInv, Outbox, Resolving, Resolves
<1>2. performed = observed + 1
  BY <1>1 DEF IInv, World
<1> QED
  BY <1>1, <1>2
  DEF IInv, TypeOK, Resolves, effects, OnceStep, Once!Next, Once!Observe, Once!counts

LEMMA LandsOnce ==
    ASSUME IInv, EffectLands PROVE OnceStep
<1>1. /\ intent # NoIntent /\ revision \notin done /\ performed' = performed + 1
      /\ UNCHANGED store
  BY DEF EffectLands, Authorised, IInv, World
<1>2. performed = observed
  BY <1>1 DEF IInv, World, TypeOK
<1> QED
  BY <1>1, <1>2
  DEF IInv, TypeOK, store, OnceStep, Once!Next, Once!Perform, Once!counts

LEMMA StutterOnce ==
    ASSUME UNCHANGED <<store, performed>> PROVE OnceStep
BY DEF store, OnceStep, Once!counts

LEMMA StepOnce ==
    ASSUME IInv, [Next]_vars PROVE OnceStep
<1>1. CASE UNCHANGED <<store, performed>> BY <1>1, StutterOnce
<1>2. ASSUME NEW w \in Workers, Runner(w) \/ Crash(w) PROVE OnceStep
  <2>1. CASE Append(w)
    <3>1. view[w] \in Views BY DEF IInv, TypeOK
    <3>2. (Appends(view[w]) /\ UNCHANGED effects) \/ UNCHANGED <<store, performed>>
      BY <2>1 DEF Append, WriteEnds, effects
    <3> QED BY <1>1, <3>1, <3>2, AppendsOnce
  <2>2. CASE Persist(w)
    <3>1. view[w] \in Views /\ Snapshot(view[w]) /\ Inserting(view[w])
      BY <2>2 DEF IInv, TypeOK, Call, Persist
    <3>2. (Inserts(view[w]) /\ UNCHANGED effects) \/ UNCHANGED <<store, performed>>
      BY <2>2 DEF Persist, WriteEnds, effects
    <3> QED BY <1>1, <3>1, <3>2, InsertsOnce
  <2>3. CASE Commit(w)
    <3>1. view[w] \in Views /\ Resolving(view[w]) BY <2>3 DEF IInv, TypeOK, Call, Commit
    <3>2. (Resolves(view[w]) /\ UNCHANGED effects) \/ UNCHANGED <<store, performed>>
      BY <2>3 DEF Commit, WriteEnds, effects
    <3> QED BY <1>1, <3>1, <3>2, ResolvesOnce
  <2>4. CASE Load(w) \/ ReportFinish(w) \/ PersistExisting(w) \/ Reconcile(w)
             \/ EffectEnds(w) \/ Crash(w)
    BY <1>1, <2>4 DEF Load, ReportFinish, PersistExisting, Reconcile, EffectEnds, Crash, effects
  <2>5. CASE Declines(w) \/ Send(w) \/ Observe(w)
    BY <1>1, <2>5 DEF Declines, vars, Send, Observe, effects
  <2> QED BY <1>2, <2>1, <2>2, <2>3, <2>4, <2>5 DEF Runner
<1>3. CASE LateWrite
  <2>1. PICK m \in late :
          (Lands(m) \/ UNCHANGED store) /\ UNCHANGED <<authority, effects, runners, reports>>
    BY <1>3 DEF LateWrite
  <2>2. /\ m.view \in Views /\ m.op \in {"append", "persist", "commit"} /\ Snapshot(m.view)
        /\ m.op = "persist" => Inserting(m.view)
        /\ m.op = "commit" => Resolving(m.view)
    BY DEF IInv, TypeOK, Writes, Write
  <2>3. CASE m.op = "append" /\ Appends(m.view) BY <2>1, <2>2, <2>3, AppendsOnce
  <2>4. CASE m.op = "persist" /\ Inserts(m.view) BY <2>1, <2>2, <2>4, InsertsOnce
  <2>5. CASE m.op = "commit" /\ Resolves(m.view) BY <2>1, <2>2, <2>5, ResolvesOnce
  <2>6. CASE UNCHANGED store BY <1>1, <2>1, <2>6 DEF effects
  <2> QED BY <2>1, <2>2, <2>3, <2>4, <2>5, <2>6 DEF Lands
<1>4. CASE EffectLands BY <1>4, LandsOnce
<1>5. CASE EffectDrops \/ Rotate \/ Cancel \/ UNCHANGED vars
  BY <1>1, <1>5 DEF EffectDrops, Rotate, Cancel, vars, effects
<1> QED BY <1>2, <1>3, <1>4, <1>5 DEF Next

(* Effects are intended, performed and observed one after the other, each at most
   once and none after the canonical result, for any number of workers, crashes,
   lost answers, late writes, late requests and lease changes. *)
THEOREM ImplementsOnce == Spec => OnceSpec
<1>1. Init => Once!Init
  BY DEF Init, Once!Init
<1>2. IInv /\ [Next]_vars => [Once!Next]_(Once!counts)
  BY StepOnce DEF OnceStep
<1> QED BY <1>1, <1>2, Invariance, PTL DEF Spec, OnceSpec, Once!Spec
=============================================================================
