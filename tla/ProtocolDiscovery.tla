-------------------------- MODULE ProtocolDiscovery --------------------------
(* Profiling and discovery: the goal's criteria are searched for, the paths  *)
(* found are read, the questions the reads leave are resolved, and an impact *)
(* map is accepted - or discovery ends for want of evidence or budget        *)
(* (src/src/execution_protocol/discovery.rs and reducer.rs).  How many paths *)
(* an action may take, their rank and the evidence of relationships between  *)
(* files are left out.                                                       *)
EXTENDS ProtocolGraph, SequencesExt

CONSTANTS
    Criteria,       \* criterion_ids of the goal
    Terms,          \* its normalized_search_terms
    Paths,          \* the files a search may match
    ReadLimit       \* MAX_GROUNDING_PATHS_PER_ACTION

VARIABLE discovery
    \* profile    how far profiling is: "None", "Recorded", "Goal"
    \* searched   completed_searches: criterion and term -> matched paths
    \* covers     candidates: path -> criteria; {} is not a candidate
    \* ranked     the candidates, best first
    \* grounded   the candidates whose file evidence is recorded
    \* whole      those whose file was read to its end
    \* questions  unresolved_questions, each by its subject path
    \* areas      impact_map: the paths and the evidence of a criterion; <<>> is
    \*            no map
    \* convergence
    \* action     the class of the action in progress, and what it is bound to

ASSUME DiscoveryAssumption ==
    /\ IsFiniteSet(Criteria) /\ Criteria # {}
    /\ IsFiniteSet(Terms) /\ Terms # {}
    /\ IsFiniteSet(Paths)
    /\ ReadLimit \in Nat \ {0}

Searches == Criteria \X Terms
NoAction == [class |-> "None", on |-> {}]

Convergences == {"None", "Sufficient", "Accepted", "Insufficient", "BudgetBlocked"}

DiscoveryTypeOK ==
    /\ discovery.profile \in {"None", "Recorded", "Goal"}
    /\ DOMAIN discovery.searched \subseteq Searches
    /\ \A s \in DOMAIN discovery.searched : discovery.searched[s] \subseteq Paths
    /\ discovery.covers \in [Paths -> SUBSET Criteria]
    /\ discovery.ranked \in Seq(Paths)
    /\ discovery.whole \subseteq discovery.grounded
    /\ discovery.grounded \subseteq Paths
    /\ discovery.questions \subseteq Paths
    /\ DOMAIN discovery.areas \subseteq Criteria
    /\ \A c \in DOMAIN discovery.areas :
         discovery.areas[c] \in [paths : SUBSET Paths, evidence : SUBSET Paths]
    /\ discovery.convergence \in Convergences
    /\ discovery.action.class \in {"None", "DiscoverCandidates",
            "GroundCandidateEvidence", "ResolveNamedRelationship", "RecordImpactMap"}

DiscoveryInit ==
    discovery = [profile |-> "None", searched |-> <<>>,
                 covers |-> [p \in Paths |-> {}], ranked |-> <<>>,
                 grounded |-> {}, whole |-> {}, questions |-> {},
                 areas |-> <<>>, convergence |-> "None", action |-> NoAction]
-----------------------------------------------------------------------------
(* Profiling: the profile is an observation of the repository; goal and proof *)
(* follow from it.                                                           *)

ProfileRecorded ==
    /\ stage = "Profiling" /\ discovery.profile = "None"
    /\ discovery' = [discovery EXCEPT !.profile = "Recorded"]
    /\ UNCHANGED graphVars

GoalRecorded ==
    /\ stage = "Profiling" /\ discovery.profile = "Recorded"
    /\ discovery' = [discovery EXCEPT !.profile = "Goal"]
    /\ UNCHANGED graphVars

ProfileProved ==
    /\ stage = "Profiling" /\ discovery.profile = "Goal"
    /\ ~Proved("RepositoryProfile", "None")
    /\ Record("RepositoryProfile", "None")
    /\ UNCHANGED discovery

DiscoveryBegins ==
    /\ stage = "Profiling" /\ discovery.profile = "Goal"
    /\ Advance("Profiling", "Discovery")
    /\ UNCHANGED discovery
-----------------------------------------------------------------------------
(* What the recorded evidence amounts to.                                    *)

Candidates == {p \in Paths : discovery.covers[p] # {}}
Covered(paths) == UNION {discovery.covers[p] : p \in paths}
Ungrounded == Candidates \ discovery.grounded
SearchesDone == Searches \subseteq DOMAIN discovery.searched
MapComplete == DOMAIN discovery.areas = Criteria

\* What was read for a criterion, and the best candidates of a set.
Grounding(c) == {p \in discovery.grounded : c \in discovery.covers[p]}
Best(S) == {p \in S : \E i \in DOMAIN discovery.ranked :
              /\ discovery.ranked[i] = p
              /\ \A j \in 1 .. i - 1 : discovery.ranked[j] \notin S}

\* What was read of the best candidate of each criterion is the evidence a map
\* may cite, whatever else was read.
MapEvidence == UNION {Best(Grounding(c)) : c \in Criteria}

\* The areas that are grounded: paths found for the criterion and read, and
\* evidence of these paths.
Areas(c) ==
    {a \in [paths : SUBSET Grounding(c), evidence : SUBSET MapEvidence] :
        a.evidence # {} /\ a.evidence \subseteq a.paths}

Substate ==
    IF Candidates = {} THEN "NeedCandidates"
    ELSE IF Ungrounded # {} THEN "NeedGroundedReads"
    ELSE IF Covered(Candidates) # Criteria THEN "NeedCandidates"
    ELSE IF discovery.questions # {} THEN "NeedRelations"
    ELSE "ReadyToSynthesize"

Evaluated ==
    IF MapComplete THEN "Accepted"
    ELSE IF Candidates = {} THEN "Insufficient"
    ELSE IF discovery.grounded = {} THEN "BudgetBlocked"
    ELSE IF discovery.questions # {} THEN "BudgetBlocked"
    ELSE IF Covered(discovery.grounded) # Criteria THEN "Insufficient"
    ELSE "Sufficient"

\* What a completed search adds to the candidates.
Projected(s) ==
    [p \in Paths |-> IF p \in discovery.searched[s]
                     THEN discovery.covers[p] \cup {s[1]} ELSE discovery.covers[p]]
Unprojected ==
    {s \in DOMAIN discovery.searched : Projected(s) # discovery.covers}

\* decide(): a complete map, no call left or nothing left to search for.
MustConverge ==
    \/ MapComplete
    \/ Exhausted("Discovery")
    \/ Substate = "NeedCandidates" /\ SearchesDone

\* append_event(): only an accepted map, or a lack of evidence after every
\* search, may come before the budget is spent.
MayConverge ==
    \/ Evaluated = "Accepted"
    \/ Exhausted("Discovery")
    \/ Evaluated = "Insufficient" /\ SearchesDone

\* The point in discovery at which decide() chooses the next step.
Deciding ==
    /\ stage = "Discovery" /\ Active("Discovery")
    /\ call.state = "None"
    /\ Unprojected = {}
    /\ discovery.convergence = "None"

\* The best candidates that were not read, as many as one action may read.
NextReads ==
    {p \in Ungrounded : \E i \in DOMAIN discovery.ranked :
        /\ discovery.ranked[i] = p
        /\ Cardinality({j \in 1 .. i - 1 : discovery.ranked[j] \in Ungrounded}) < ReadLimit}

\* What each class of action is bound to.
Bindings ==
    CASE Substate = "NeedCandidates" ->
           {[class |-> "DiscoverCandidates", on |-> {s}] :
               s \in Searches \ DOMAIN discovery.searched}
      [] Substate = "NeedGroundedReads" ->
           {[class |-> "GroundCandidateEvidence", on |-> NextReads]}
      [] Substate = "NeedRelations" ->
           {[class |-> "ResolveNamedRelationship", on |-> {q}] :
               q \in discovery.questions}
      [] Substate = "ReadyToSynthesize" -> {[class |-> "RecordImpactMap", on |-> {}]}
-----------------------------------------------------------------------------
(* The steps of discovery.                                                   *)

DiscoveryStarts ==
    /\ stage = "Discovery"
    /\ Start("Discovery")
    /\ UNCHANGED discovery

DiscoveryPrepares ==
    /\ Deciding /\ ~MustConverge
    /\ Prepare("Discovery")
    /\ \E a \in Bindings : discovery' = [discovery EXCEPT !.action = a]

\* The action in progress was consumed and its observation arrives.
Observes(class) ==
    /\ stage = "Discovery" /\ Active("Discovery")
    /\ call.state = "Consumed"
    /\ discovery.action.class = class
    /\ Clear
    /\ UNCHANGED <<stage, node, revision, proofs, usage, result>>

SearchCompleted ==
    /\ Observes("DiscoverCandidates")
    /\ \E matched \in SUBSET Paths, s \in discovery.action.on :
         discovery' = [discovery EXCEPT
            !.searched = [t \in DOMAIN @ \cup {s} |-> IF t = s THEN matched ELSE @[t]],
            !.action = NoAction]

\* The reads cover the paths of the action exactly, to their end or not, and
\* may leave questions; the subject of a question may be read once more.
FilesRead ==
    /\ \/ Observes("GroundCandidateEvidence")
       \/ Observes("ResolveNamedRelationship")
    /\ \E asked, ended \in SUBSET discovery.action.on :
         discovery' = [discovery EXCEPT
            !.grounded = @ \cup discovery.action.on,
            !.whole = @ \cup ended,
            !.questions = @ \cup asked,
            !.action = NoAction]

RelationshipsRecorded ==
    /\ Observes("ResolveNamedRelationship")
    /\ discovery' = [discovery EXCEPT !.questions = @ \ discovery.action.on,
                                      !.action = NoAction]

\* The map of the model may miss a criterion.
ImpactMapRecorded ==
    /\ Observes("RecordImpactMap")
    /\ ~MapComplete
    /\ \E mapped \in SUBSET Criteria \ {{}} :
         \E m \in [mapped -> UNION {Areas(c) : c \in mapped}] :
           /\ \A c \in mapped : m[c] \in Areas(c)
           /\ discovery' = [discovery EXCEPT !.areas = m, !.convergence = "None",
                                             !.action = NoAction]

DiscoveryRejects ==
    /\ discovery.action.class # "None"
    /\ Observes(discovery.action.class)
    /\ discovery' = [discovery EXCEPT !.action = NoAction]

DiscoveryReleases ==
    /\ stage = "Discovery" /\ Active("Discovery")
    /\ call.state = "Released"
    /\ Clear
    /\ discovery' = [discovery EXCEPT !.action = NoAction]
    /\ UNCHANGED <<stage, node, revision, proofs, usage, result>>

CandidatesRecorded ==
    /\ stage = "Discovery" /\ Active("Discovery")
    /\ call.state = "None"
    /\ \E s \in Unprojected :
         \E found \in SetToSeqs(discovery.searched[s] \ Candidates) :
           discovery' = [discovery EXCEPT !.covers = Projected(s),
                                          !.ranked = @ \o found]
    /\ UNCHANGED graphVars

DiscoveryConverges ==
    /\ Deciding /\ MustConverge
    /\ MayConverge
    /\ discovery' = [discovery EXCEPT !.convergence = Evaluated]
    /\ UNCHANGED graphVars

Converged(as) ==
    /\ stage = "Discovery" /\ Active("Discovery")
    /\ call.state = "None" /\ Unprojected = {}
    /\ discovery.convergence = as

\* The map that follows from the evidence, without a model.
DeterministicMap ==
    /\ Converged("Sufficient")
    /\ discovery' = [discovery EXCEPT
          !.areas = [c \in Criteria |-> [paths |-> Grounding(c),
                                         evidence |-> Grounding(c) \cap MapEvidence]],
          !.convergence = "None"]
    /\ UNCHANGED graphVars

DiscoveryProved ==
    /\ Converged("Accepted")
    /\ ~Proved("DiscoveryImpactMap", "Discovery")
    /\ Record("DiscoveryImpactMap", "Discovery")
    /\ UNCHANGED discovery

DiscoverySucceeds ==
    /\ Converged("Accepted")
    /\ MapComplete
    /\ Succeed("Discovery")
    /\ UNCHANGED discovery

DiscoveryFails ==
    /\ Converged("Insufficient") \/ Converged("BudgetBlocked")
    /\ Fail("Discovery", TRUE)
    /\ UNCHANGED discovery

PlanningBegins ==
    /\ node["Discovery"] = "Succeeded"
    /\ discovery.convergence = "Accepted"
    /\ Advance("Discovery", "Planning")
    /\ UNCHANGED discovery

DiscoveryFinishes ==
    /\ stage = "Discovery"
    /\ node["Discovery"] = "FailedTerminal"
    /\ \/ discovery.convergence = "Insufficient" /\ Finish("InsufficientEvidence")
       \/ /\ discovery.convergence = "BudgetBlocked"
          /\ Exhausted("Discovery")
          /\ Finish("BudgetBlocked")
    /\ UNCHANGED discovery

DiscoveryNext ==
    \/ ProfileRecorded \/ GoalRecorded \/ ProfileProved \/ DiscoveryBegins
    \/ DiscoveryStarts \/ DiscoveryPrepares
    \/ SearchCompleted \/ FilesRead \/ RelationshipsRecorded \/ ImpactMapRecorded
    \/ DiscoveryRejects \/ DiscoveryReleases
    \/ CandidatesRecorded \/ DiscoveryConverges \/ DeterministicMap
    \/ DiscoveryProved \/ DiscoverySucceeds \/ DiscoveryFails
    \/ PlanningBegins \/ DiscoveryFinishes

\* The convergence decide() asks for is one append_event() refuses.
Wedged == Deciding /\ MustConverge /\ ~MayConverge
=============================================================================
