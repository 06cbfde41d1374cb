----------------------- MODULE ValidationProcess_proofs -----------------------
(* The run of a gate keeps its safety properties and implements GateRun for  *)
(* any number of invocations and any sizes, limits and kinds of gate.        *)
EXTENDS ValidationProcess, TLAPS

-----------------------------------------------------------------------------
(* The invariant.                                                            *)

\* The places before the start is recorded, with a process from Started on;
\* those of a run whose start is recorded, before and after it is cleaned up.
Preparing == {"Checking", "Authorized", "Started"}
Running == {"Capturing", "Polling", "Discarding", "Cleaning"}
Closing == {"Joining", "Retaining", "Persisting"}

\* How far the journal is, by the place of the adapter.
JournalFollows ==
    /\ ~Idle => adapter.invocation # 0
    /\ adapter.at \in Preparing => journal.started = 0 /\ ~adapter.started
    /\ adapter.at \in Running \cup Closing => adapter.started
    /\ adapter.started /\ ~Idle => journal.started = adapter.invocation
    /\ At("Recording") /\ ~adapter.started => journal.started = 0
    /\ journal.completion # "None" => Idle
    /\ journal.evidence # "None" => journal.completion \in Exits

\* The result of a run, and whose exit it is when it is one.
ResultFollows ==
    /\ adapter.at \in Preparing \cup {"Capturing", "Polling", "Aborting", "Discarding"} =>
         adapter.result = "None"
    /\ adapter.at \in {"Cleaning", "Recording"} \cup Closing => adapter.result # "None"
    /\ adapter.result \in Exits =>
         process.code = adapter.result /\ process.state # "Running"
    /\ adapter.result \in Exits => process.killed # "Defied"
    /\ adapter.at \in {"Recording"} \cup Closing /\ adapter.result \in Exits =>
         process.killed = "Group"
    /\ journal.completion \in Exits =>
         /\ process.code = journal.completion
         /\ journal.started = adapter.invocation

\* What there is of a process and of its children.
ProcessFollows ==
    /\ adapter.at \in {"Checking", "Authorized"} => process.state = "None"
    /\ adapter.at \in {"Started", "Aborting"} \cup Running =>
         process.state \in {"Running", "Exited"}
    /\ adapter.at \in Closing => process.state = "Reaped"
    /\ adapter.at \in {"Idle", "Recording"} => process.state \in {"None", "Reaped"}
    /\ process.state = "Exited" => process.code # "None"
    /\ process.state = "None" => ~process.child
    /\ adapter.at \in Preparing \cup {"Capturing", "Polling"} => process.killed = "No"
    /\ process.state = "Reaped" => process.killed # "No"
    /\ process.killed = "Group" => process.state # "Running" /\ ~process.child
    /\ journal.completion \in Exits => ~process.child

\* The readers read only while the adapter waits for them.
ReadersFollow ==
    \A s \in Streams :
        output.reader[s] = "Reading" => adapter.at \in {"Polling", "Cleaning", "Joining"}

AllocationFollows ==
    At("Persisting") =>
        /\ adapter.limit \in Limits
        /\ Representable(adapter.original, adapter.limit)
        /\ adapter.kept = Allocated(adapter.original, adapter.limit)

Earned ==
    journal.evidence = "Passed" =>
        /\ journal.completion = "Zero"
        /\ "Success" \in process.report \/ Quiet
        /\ "Failure" \in process.report => OutputLost

IInv == /\ TypeOK
        /\ JournalFollows /\ ResultFollows /\ ProcessFollows
        /\ ReadersFollow /\ AllocationFollows /\ Earned /\ AnswerMatchesJournal
-----------------------------------------------------------------------------
(* What is kept of the output.                                               *)

\* Half of a limit, rounded up, is at least one and at most the limit.
LEMMA HalfOfLimit ==
    ASSUME NEW limit \in Nat \ {0}
    PROVE  /\ (limit + 1) \div 2 \in Nat
           /\ (limit + 1) \div 2 >= 1
           /\ (limit + 1) \div 2 <= limit
           /\ limit > 1 => (limit + 1) \div 2 < limit
  BY SMT

\* The shares of the two streams are numbers, use the limit up, and leave no
\* stream that had output without any.
LEMMA AllocatedFits ==
    ASSUME NEW original \in [Streams -> Nat], NEW limit \in Nat \ {0}
    PROVE  LET kept == Allocated(original, limit) IN
           /\ kept \in [Streams -> Nat]
           /\ kept["stdout"] + kept["stderr"] =
                Smaller(original["stdout"] + original["stderr"], limit)
           /\ \A s \in Streams : kept[s] <= original[s]
           /\ Representable(original, limit) =>
                \A s \in Streams : original[s] > 0 => kept[s] > 0
  <1> DEFINE o == original["stdout"]
             e == original["stderr"]
             share == (limit + 1) \div 2
             half == Smaller(e, share)
             out == Smaller(o, limit - half)
             err == half + Smaller(e - half, limit - half - out)
             kept == Allocated(original, limit)
  <1>1. o \in Nat /\ e \in Nat
    BY DEF Streams
  <1>2. /\ share \in Nat /\ share >= 1 /\ share <= limit
        /\ limit > 1 => share < limit
    BY HalfOfLimit
  <1>3. CASE o + e <= limit
    <2>1. kept = original
      BY <1>3 DEF Allocated
    <2> QED
      BY <1>1, <1>3, <2>1 DEF Streams, Smaller
  <1>4. CASE ~(o + e <= limit)
    <2>1. kept = [s \in Streams |-> IF s = "stdout" THEN out ELSE err]
      BY <1>4 DEF Allocated
    <2>2. kept["stdout"] = out /\ kept["stderr"] = err
      BY <2>1 DEF Streams
    <2> HIDE DEF share
    <2>3. half \in Nat /\ half <= e /\ half <= limit
      BY <1>1, <1>2 DEF Smaller
    <2>4. out \in Nat /\ out <= o /\ out <= limit - half
      BY <1>1, <2>3 DEF Smaller
    <2>5. err \in Nat /\ err <= e /\ out + err = limit
      BY <1>1, <1>2, <1>4, <2>3, <2>4 DEF Smaller
    <2>6. ASSUME Representable(original, limit)
          PROVE  (o > 0 => out > 0) /\ (e > 0 => err > 0)
      <3>1. limit > 1 \/ o = 0 \/ e = 0
        BY <1>4, <2>6 DEF Representable, Streams
      <3> QED
        BY <1>1, <1>2, <1>4, <2>3, <2>4, <2>5, <3>1 DEF Smaller
    <2> HIDE DEF half, out, err, o, e, kept
    <2> QED
      <3>1. kept \in [Streams -> Nat]
        BY <2>1, <2>4, <2>5
      <3>2. Smaller(o + e, limit) = limit
        BY <1>1, <1>4 DEF Smaller
      <3>3. \A s \in Streams : s = "stdout" \/ s = "stderr"
        BY DEF Streams
      <3> QED
        BY <2>2, <2>4, <2>5, <2>6, <3>1, <3>2, <3>3 DEF o, e, kept
  <1> QED
    BY <1>3, <1>4
-----------------------------------------------------------------------------
(* The invariant is inductive.                                               *)

\* There is nothing of a run at first.
LEMMA InitIInv == Init => IInv
  BY ProcessAssumption
     DEF ProcessAssumption, Init, Unspawned, Silent, Zero, IInv, TypeOK, Places,
         Durabilities, Reports, Results, Exits, Failures, Invocations, Streams,
         Preparing, Running, Closing, JournalFollows, ResultFollows,
         ProcessFollows, ReadersFollow, AllocationFollows, Earned, OutputLost,
         AnswerMatchesJournal, Idle, At

\* The types of the variables, one by one.
Adapters == [at : Places, invocation : {0} \cup Invocations, started : BOOLEAN,
             result : Results, kept : [Streams -> Nat], limit : {0} \cup Limits,
             original : [Streams -> Nat], answer : Durabilities]
Processes == [state : {"None", "Running", "Exited", "Reaped"},
              code : Exits \cup {"Signal", "None"}, report : SUBSET Reports,
              child : BOOLEAN, daemon : BOOLEAN,
              killed : {"No", "Group", "Defied", "Failed"}]
Outputs == [written : [Streams -> {0} \cup Sizes],
            read : [Streams -> {0} \cup Sizes],
            reader : [Streams -> {"None", "Reading", "Ended", "Failed"}],
            stop : BOOLEAN]
Worlds == [canceled : BOOLEAN, lease : BOOLEAN, late : BOOLEAN]
Journals == [started : {0} \cup Invocations, completion : Results,
             original : [Streams -> Nat], evidence : {"None", "Passed", "Failed"}]

LEMMA Types ==
    TypeOK <=> /\ adapter \in Adapters /\ process \in Processes
               /\ output \in Outputs /\ world \in Worlds /\ journal \in Journals
  BY DEF TypeOK, Adapters, Processes, Outputs, Worlds, Journals

\* The places, results and answers, one by one.
LEMMA Members ==
    /\ "Idle" \in Places /\ "Checking" \in Places /\ "Authorized" \in Places
    /\ "Started" \in Places /\ "Capturing" \in Places /\ "Polling" \in Places
    /\ "Aborting" \in Places /\ "Discarding" \in Places
    /\ "Cleaning" \in Places /\ "Joining" \in Places /\ "Retaining" \in Places
    /\ "Persisting" \in Places /\ "Recording" \in Places
    /\ "Zero" \in Results /\ "NonZero" \in Results /\ "Spawn" \in Results
    /\ "Timeout" \in Results /\ "Journal" \in Results /\ "Transport" \in Results
    /\ "Canceled" \in Results /\ "LeaseLost" \in Results /\ "None" \in Results
    /\ Exits \subseteq Results
    /\ "None" \in Durabilities /\ "Recorded" \in Durabilities
    /\ "Not" \in Durabilities /\ "Unknown" \in Durabilities
  BY DEF Places, Results, Exits, Failures, Durabilities

\* What the fields of the variables are.
LEMMA Fields ==
    ASSUME TypeOK
    PROVE  /\ adapter.at \in Places /\ adapter.invocation \in {0} \cup Invocations
           /\ adapter.started \in BOOLEAN /\ adapter.result \in Results
           /\ adapter.original \in [Streams -> Nat]
           /\ process.code \in Exits \cup {"Signal", "None"}
           /\ process.report \subseteq Reports /\ process.child \in BOOLEAN
           /\ process.killed \in {"No", "Group", "Defied", "Failed"}
           /\ output.read \in [Streams -> Nat]
           /\ world.canceled \in BOOLEAN /\ world.lease \in BOOLEAN
  <1>1. adapter \in Adapters /\ process \in Processes
        /\ output \in Outputs /\ world \in Worlds
    BY Types
  <1>2. output.read \in [Streams -> {0} \cup Sizes]
    BY <1>1 DEF Outputs
  <1>3. {0} \cup Sizes \subseteq Nat
    BY ProcessAssumption DEF ProcessAssumption
  <1>4. output.read \in [Streams -> Nat]
    BY <1>2, <1>3
  <1> QED
    BY <1>1, <1>4 DEF Adapters, Processes, Worlds

\* Killing what is left of the group keeps the types.
LEMMA KilledSet ==
    ASSUME TypeOK, NEW group \in BOOLEAN, NEW itself \in BOOLEAN
    PROVE  Killed(group, itself) \in Processes
  <1>1. process \in Processes
    BY Types
  <1> QED
    BY <1>1 DEF Killed, Processes

\* What comes of an attempt to append an event: an answer that says so is true.
LEMMA AppendsMeans ==
    ASSUME NEW valid \in BOOLEAN, NEW w \in Appends(valid)
    PROVE  /\ w[1] \in Durabilities /\ w[2] \in BOOLEAN
           /\ w[1] = "Recorded" => w[2]
           /\ w[1] = "Not" => ~w[2]
           /\ w[2] => valid
  <1>1. CASE valid /\ w = <<"Recorded", TRUE>>
    BY <1>1 DEF Durabilities
  <1>2. CASE w = <<"Not", FALSE>>
    BY <1>2 DEF Durabilities
  <1>3. CASE valid /\ w = <<"Unknown", TRUE>>
    BY <1>3 DEF Durabilities
  <1>4. CASE w = <<"Unknown", FALSE>>
    BY <1>4 DEF Durabilities
  <1>5. \/ valid /\ w = <<"Recorded", TRUE>>
        \/ w = <<"Not", FALSE>>
        \/ valid /\ w = <<"Unknown", TRUE>>
        \/ w = <<"Unknown", FALSE>>
    BY Zenon DEF Appends
  <1> QED
    BY <1>1, <1>2, <1>3, <1>4, <1>5

\* Every step keeps the types.
LEMMA NextTypeOK == ASSUME TypeOK, JournalFollows, [Next]_vars PROVE TypeOK'
  <1> SUFFICES /\ adapter' \in Adapters /\ process' \in Processes
               /\ output' \in Outputs /\ world' \in Worlds /\ journal' \in Journals
    BY DEF TypeOK, Adapters, Processes, Outputs, Worlds, Journals
  <1>a. /\ adapter \in Adapters /\ process \in Processes
        /\ output \in Outputs /\ world \in Worlds /\ journal \in Journals
    BY Types
  <1> USE <1>a, Members
  <1>1. CASE Invoked
    <2>1. adapter' \in Adapters
      BY <1>1 DEF Invoked, Adapters, Zero
    <2>2. process' \in Processes
      BY <1>1 DEF Invoked, Unspawned, Processes, Reports
    <2>3. output' \in Outputs
      BY <1>1 DEF Invoked, Silent, Zero, Outputs
    <2>4. world' \in Worlds
      BY <1>1 DEF Invoked, Worlds
    <2> QED
      BY <1>1, <2>1, <2>2, <2>3, <2>4 DEF Invoked
  <1>2. CASE Checked \/ Rechecked
    <2>1. adapter' \in Adapters
      BY <1>2 DEF Checked, Rechecked, Concludes, Unobserved, Returns, Goes, Adapters
    <2> QED
      BY <1>2, <2>1 DEF Checked, Rechecked
  <1>3. CASE Spawned
    <2>1. adapter' \in Adapters
      BY <1>3 DEF Spawned, Goes, Adapters
    <2>2. process' \in Processes
      BY <1>3 DEF Spawned, Processes
    <2> QED
      BY <1>3, <2>1, <2>2 DEF Spawned
  <1>4. CASE StartRecorded
    <2>1. journal' \in Journals
      BY <1>4 DEF StartRecorded, Journals, Adapters
    <2>2. adapter' \in Adapters
      BY <1>4 DEF StartRecorded, Goes, Adapters
    <2> QED
      BY <1>4, <2>1, <2>2 DEF StartRecorded
  <1>5. CASE CaptureStarted
    <2>1. adapter' \in Adapters
      BY <1>5 DEF CaptureStarted, Goes, Adapters
    <2>2. output' \in Outputs
      BY <1>5 DEF CaptureStarted, Outputs
    <2> QED
      BY <1>5, <2>1, <2>2 DEF CaptureStarted
  <1>6. CASE CaptureFailed
    <2>1. adapter' \in Adapters
      BY <1>6 DEF CaptureFailed, Goes, Adapters
    <2> QED
      BY <1>6, <2>1 DEF CaptureFailed
  <1>19. CASE Kills
    BY <1>19, KilledSet DEF Kills
  <1>20. CASE Aborted \/ Discarded
    <2>1. adapter' \in Adapters
      BY <1>20 DEF Aborted, Discarded, Returns, Concludes, Adapters
    <2>2. process' \in Processes
      BY <1>20 DEF Aborted, Discarded, Reaped, Processes
    <2>3. output' \in Outputs
      BY <1>20 DEF Aborted, Discarded, Outputs
    <2> QED
      BY <1>20, <2>1, <2>2, <2>3 DEF Aborted, Discarded
  <1>7. CASE Polled \/ WaitFailed
    <2>1. Termination \subseteq Results
      BY Fields DEF Termination, Exits
    <2>2. adapter' \in Adapters
      BY <1>7, <2>1 DEF Polled, WaitFailed, Adapters
    <2>3. world' \in Worlds
      BY <1>7 DEF Polled, WaitFailed, Worlds
    <2> QED
      BY <1>7, <2>2, <2>3 DEF Polled, WaitFailed
  <1>8. CASE CleanedUp
    <2>1. adapter' \in Adapters
      BY <1>8 DEF CleanedUp, Adapters
    <2>2. output' \in Outputs
      BY <1>8 DEF CleanedUp, Outputs
    <2>3. process' \in Processes
      BY <1>8 DEF CleanedUp, Reaped, Processes
    <2> QED
      BY <1>8, <2>1, <2>2, <2>3 DEF CleanedUp
  <1>9. CASE Joined
    <2>1. adapter' \in Adapters
      BY <1>9 DEF Joined, Concludes, Unobserved, Returns, Goes, Adapters
    <2> QED
      BY <1>9, <2>1 DEF Joined
  <1>10. CASE Retained
    <2>1. ASSUME NEW limit \in Limits,
                 adapter' = [adapter EXCEPT !.at = "Persisting", !.original = output.read,
                               !.limit = limit, !.kept = Allocated(output.read, limit)]
          PROVE  adapter' \in Adapters
      <3>1. limit \in Nat \ {0}
        BY ProcessAssumption DEF ProcessAssumption
      <3>2. Allocated(output.read, limit) \in [Streams -> Nat]
        BY <3>1, Fields, AllocatedFits
      <3> QED
        BY <2>1, <3>2, Fields DEF Adapters
    <2>2. ASSUME Concludes("Transport") \/ Unobserved
          PROVE  adapter' \in Adapters
      BY <2>2 DEF Concludes, Unobserved, Returns, Adapters
    <2> QED
      BY <1>10, <2>1, <2>2 DEF Retained
  <1>11. CASE Persisted
    <2>1. Zero \in [Streams -> Nat]
      BY DEF Zero
    <2>2. adapter' \in Adapters
      BY <1>11, <2>1 DEF Persisted, Unobserved, Returns, Goes, Adapters
    <2> QED
      BY <1>11, <2>2 DEF Persisted
  <1>12. CASE CompletionRecorded
    <2>1. PICK w \in Appends(Agrees(adapter.result, adapter.started)) :
            /\ journal' = IF w[2] THEN Completed(adapter.result) ELSE journal
            /\ Answered(w[1])
      BY <1>12 DEF CompletionRecorded
    <2>2. w[1] \in Durabilities
      BY AppendsMeans DEF Agrees
    <2>3. adapter' \in Adapters
      BY <2>1, <2>2 DEF Answered, Concludes, Returns, Adapters
    <2>4. journal' \in Journals
      BY <2>1, Fields DEF Completed, Journals
    <2> QED
      BY <1>12, <2>3, <2>4 DEF CompletionRecorded
  <1>13. CASE EvidenceRecorded
    <2>1. ASSUME NEW seen PROVE Judgement(adapter.result, seen, Quiet) \subseteq {"Passed", "Failed"}
      BY DEF Judgement
    <2>2. journal' \in Journals
      BY <1>13, <2>1 DEF EvidenceRecorded, Journals
    <2> QED
      BY <1>13, <2>2 DEF EvidenceRecorded
  <1>14. ASSUME NEW s \in Streams, Reader(s) \/ Fails(s) \/ Writes(s)
         PROVE  output' \in Outputs /\ UNCHANGED <<adapter, process, world, journal>>
    BY <1>14 DEF Reader, Reads, Ends, Fails, Writes, Outputs
  <1>15. CASE Forks \/ Finishes
    <2>1. process' \in Processes
      BY <1>15 DEF Forks, Finishes, Processes
    <2> QED
      BY <1>15, <2>1 DEF Forks, Finishes
  <1>16. CASE Canceled \/ LosesLease \/ Deadline
    <2>1. world' \in Worlds
      BY <1>16 DEF Canceled, LosesLease, Deadline, Worlds
    <2> QED
      BY <1>16, <2>1 DEF Canceled, LosesLease, Deadline
  <1>17. CASE Crash
    <2>1. adapter' \in Adapters
      BY <1>17 DEF Crash, Adapters
    <2>2. process' \in Processes
      BY <1>17 DEF Crash, Processes
    <2>3. output' \in Outputs
      BY <1>17 DEF Crash, Outputs
    <2>4. world' \in Worlds
      BY <1>17 DEF Crash, Worlds
    <2> QED
      BY <1>17, <2>1, <2>2, <2>3, <2>4 DEF Crash
  <1>18. CASE UNCHANGED vars
    BY <1>18 DEF vars
  <1> QED
    BY <1>1, <1>2, <1>3, <1>4, <1>5, <1>6, <1>7, <1>8, <1>9, <1>10, <1>11, <1>12,
       <1>13, <1>14, <1>15, <1>16, <1>17, <1>18, <1>19, <1>20
    DEF Next, Adapter

\* Every step keeps what follows from the place of the adapter.
LEMMA NextFollows ==
    ASSUME IInv, [Next]_vars
    PROVE  (/\ JournalFollows /\ ResultFollows /\ ProcessFollows
            /\ Earned /\ AnswerMatchesJournal)'
  <1>a. /\ adapter \in Adapters /\ process \in Processes /\ journal \in Journals
        /\ adapter.at \in Places
    BY Types, Fields DEF IInv
  <1> USE <1>a DEF IInv, Preparing, Running, Closing, Idle, At, Exits
  <1>1. CASE Invoked
    <2>1. JournalFollows'
      BY <1>1
      DEF Invoked, Unspawned, Invocations, JournalFollows, Adapters
    <2>2. ResultFollows'
      BY <1>1
      DEF Invoked, Unspawned, Invocations, JournalFollows, ResultFollows,
            ProcessFollows, Adapters
    <2>3. ProcessFollows'
      BY <1>1
      DEF Invoked, Unspawned, Invocations, JournalFollows, ResultFollows,
            ProcessFollows, Adapters
    <2>4. Earned'
      BY <1>1
      DEF Invoked, Unspawned, Invocations, Earned, JournalFollows,
            AnswerMatchesJournal, ProcessFollows, Adapters
    <2>5. AnswerMatchesJournal'
      BY <1>1
      DEF Invoked, Unspawned, Invocations, AnswerMatchesJournal,
            JournalFollows, Adapters
    <2> QED
      BY <2>1, <2>2, <2>3, <2>4, <2>5
  <1>2. CASE Checked \/ Rechecked
    <2>1. JournalFollows'
      BY <1>2
      DEF Checked, Rechecked, Concludes, Unobserved, Returns, Goes,
            JournalFollows, Adapters
    <2>2. ResultFollows'
      BY <1>2
      DEF Checked, Rechecked, Concludes, Unobserved, Returns, Goes,
            JournalFollows, ResultFollows, ProcessFollows, Adapters
    <2>3. ProcessFollows'
      BY <1>2
      DEF Checked, Rechecked, Concludes, Unobserved, Returns, Goes,
            JournalFollows, ResultFollows, ProcessFollows, Adapters
    <2>4. Earned'
      BY <1>2
      DEF Checked, Rechecked, Concludes, Unobserved, Returns, Goes, Earned,
            JournalFollows, AnswerMatchesJournal, ProcessFollows, Adapters
    <2>5. AnswerMatchesJournal'
      BY <1>2
      DEF Checked, Rechecked, Concludes, Unobserved, Returns, Goes,
            AnswerMatchesJournal, JournalFollows, Adapters
    <2> QED
      BY <2>1, <2>2, <2>3, <2>4, <2>5
  <1>3. CASE Spawned
    <2>1. JournalFollows'
      BY <1>3
      DEF Spawned, Goes, JournalFollows, Adapters, Processes
    <2>2. ResultFollows'
      BY <1>3
      DEF Spawned, Goes, JournalFollows, ResultFollows, ProcessFollows,
            Adapters, Processes
    <2>3. ProcessFollows'
      BY <1>3
      DEF Spawned, Goes, JournalFollows, ResultFollows, ProcessFollows,
            Adapters, Processes
    <2>4. Earned'
      BY <1>3
      DEF Spawned, Goes, Earned, JournalFollows, AnswerMatchesJournal,
            ProcessFollows, Adapters, Processes
    <2>5. AnswerMatchesJournal'
      BY <1>3
      DEF Spawned, Goes, AnswerMatchesJournal, JournalFollows, Adapters,
            Processes
    <2> QED
      BY <2>1, <2>2, <2>3, <2>4, <2>5
  <1>4. CASE StartRecorded
    <2>1. PICK w \in Appends(journal.started = 0 /\ journal.completion = "None") :
            /\ journal' = IF w[2] THEN [journal EXCEPT !.started = adapter.invocation]
                                  ELSE journal
            /\ IF w[1] = "Recorded"
               THEN adapter' = [adapter EXCEPT !.at = "Capturing", !.started = TRUE]
               ELSE Goes("Aborting")
      BY <1>4 DEF StartRecorded
    <2>2. /\ w[2] \in BOOLEAN
          /\ w[1] = "Recorded" => w[2]
          /\ w[1] = "Not" => ~w[2]
          /\ w[2] => journal.started = 0 /\ journal.completion = "None"
      BY AppendsMeans DEF Agrees
    <2>3. At("Started") /\ UNCHANGED <<process, output>>
      BY <1>4 DEF StartRecorded
    <2> DEFINE answer == w[1]
               there == w[2]
    <2> HIDE DEF answer, there
    <2>4. /\ there \in BOOLEAN
          /\ answer = "Recorded" => there
          /\ answer = "Not" => ~there
          /\ there => journal.started = 0 /\ journal.completion = "None"
          /\ journal' = IF there THEN [journal EXCEPT !.started = adapter.invocation]
                                  ELSE journal
          /\ IF answer = "Recorded"
             THEN adapter' = [adapter EXCEPT !.at = "Capturing", !.started = TRUE]
             ELSE Goes("Aborting")
      BY <2>1, <2>2 DEF answer, there
    <2>5. JournalFollows'
      BY <2>3, <2>4
      DEF Goes, Adapters, Processes, Journals,
            JournalFollows
    <2>6. ResultFollows'
      BY <2>3, <2>4
      DEF Goes, Adapters, Processes, Journals,
            JournalFollows, ResultFollows, ProcessFollows
    <2>7. ProcessFollows'
      BY <2>3, <2>4
      DEF Goes, Adapters, Journals, JournalFollows, ProcessFollows
    <2>8. Earned'
      BY <2>3, <2>4
      DEF Goes, Adapters, Processes, Journals, Earned,
            JournalFollows, AnswerMatchesJournal, ProcessFollows
    <2>9. AnswerMatchesJournal'
      BY <2>3, <2>4
      DEF Goes, Adapters, Processes, Journals,
            AnswerMatchesJournal, JournalFollows
    <2> QED
      BY <2>5, <2>6, <2>7, <2>8, <2>9
  <1>5. CASE CaptureStarted
    <2>1. JournalFollows'
      BY <1>5
      DEF CaptureStarted, Goes, JournalFollows, Adapters
    <2>2. ResultFollows'
      BY <1>5
      DEF CaptureStarted, Goes, JournalFollows, ResultFollows,
            ProcessFollows, Adapters
    <2>3. ProcessFollows'
      BY <1>5
      DEF CaptureStarted, Goes, JournalFollows, ResultFollows,
            ProcessFollows, Adapters
    <2>4. Earned'
      BY <1>5
      DEF CaptureStarted, Goes, Earned, JournalFollows,
            AnswerMatchesJournal, ProcessFollows, Adapters
    <2>5. AnswerMatchesJournal'
      BY <1>5
      DEF CaptureStarted, Goes, AnswerMatchesJournal, JournalFollows,
            Adapters
    <2> QED
      BY <2>1, <2>2, <2>3, <2>4, <2>5
  <1>6. CASE CaptureFailed
    <2>1. JournalFollows'
      BY <1>6
      DEF CaptureFailed, Goes, JournalFollows, Adapters, Processes
    <2>2. ResultFollows'
      BY <1>6
      DEF CaptureFailed, Goes, JournalFollows, ResultFollows,
          ProcessFollows, Adapters, Processes
    <2>3. ProcessFollows'
      BY <1>6
      DEF CaptureFailed, Goes, JournalFollows, ResultFollows,
          ProcessFollows, Adapters, Processes
    <2>4. Earned'
      BY <1>6
      DEF CaptureFailed, Goes, Earned, OutputLost, JournalFollows,
          AnswerMatchesJournal, ProcessFollows, Adapters, Processes
    <2>5. AnswerMatchesJournal'
      BY <1>6
      DEF CaptureFailed, Goes, AnswerMatchesJournal, JournalFollows,
          Adapters, Processes
    <2> QED
      BY <2>1, <2>2, <2>3, <2>4, <2>5
  <1>19. CASE Kills
    <2>1. JournalFollows'
      BY <1>19
      DEF Kills, Killed, JournalFollows, Adapters, Processes
    <2>2. ResultFollows'
      BY <1>19
      DEF Kills, Killed, JournalFollows, ResultFollows, ProcessFollows,
          Adapters, Processes
    <2>3. ProcessFollows'
      BY <1>19
      DEF Kills, Killed, JournalFollows, ResultFollows, ProcessFollows,
          Adapters, Processes
    <2>4. Earned'
      BY <1>19
      DEF Kills, Killed, Earned, OutputLost, JournalFollows,
          AnswerMatchesJournal, ProcessFollows, Adapters, Processes
    <2>5. AnswerMatchesJournal'
      BY <1>19
      DEF Kills, Killed, AnswerMatchesJournal, JournalFollows, Adapters,
          Processes
    <2> QED
      BY <2>1, <2>2, <2>3, <2>4, <2>5
  <1>20. CASE Aborted \/ Discarded
    <2>1. JournalFollows'
      BY <1>20
      DEF Aborted, Discarded, Reaped, Returns, Concludes, JournalFollows,
          Adapters, Processes
    <2>2. ResultFollows'
      BY <1>20
      DEF Aborted, Discarded, Reaped, Returns, Concludes, JournalFollows,
          ResultFollows, ProcessFollows, Adapters, Processes
    <2>3. ProcessFollows'
      <3>1. /\ adapter'.at \in {"Idle", "Recording"} /\ journal' = journal
            /\ process'.state = "Reaped" /\ process.state = "Exited"
            /\ process.killed # "No" /\ process'.killed = process.killed
            /\ process'.child = process.child
        BY <1>20 DEF Aborted, Discarded, Reaped, Returns, Concludes, Adapters, Processes
      <3> QED
        BY <3>1 DEF ProcessFollows
    <2>4. Earned'
      BY <1>20
      DEF Aborted, Discarded, Reaped, Returns, Concludes, Earned,
          OutputLost, JournalFollows, AnswerMatchesJournal, ProcessFollows,
          Adapters, Processes
    <2>5. AnswerMatchesJournal'
      BY <1>20
      DEF Aborted, Discarded, Reaped, Returns, Concludes,
          AnswerMatchesJournal, JournalFollows, Adapters, Processes
    <2> QED
      BY <2>1, <2>2, <2>3, <2>4, <2>5
  <1>7. CASE Polled \/ WaitFailed
    <2>1. JournalFollows'
      BY <1>7
      DEF Polled, WaitFailed, Termination, JournalFollows, Adapters
    <2>2. ResultFollows'
      <3>1. /\ adapter'.at = "Cleaning" /\ adapter'.result # "None"
            /\ adapter'.result \in Exits =>
                 process.state = "Exited" /\ process.code = adapter'.result
            /\ adapter'.invocation = adapter.invocation
            /\ UNCHANGED <<process, journal>>
        BY <1>7 DEF Polled, WaitFailed, Termination, ProcessFollows, Adapters
      <3>2. process.killed = "No"
        BY <1>7 DEF Polled, WaitFailed, ProcessFollows
      <3> QED
        BY <3>1, <3>2 DEF ResultFollows
    <2>3. ProcessFollows'
      BY <1>7
      DEF Polled, WaitFailed, Termination, JournalFollows, ResultFollows,
            ProcessFollows, Adapters
    <2>4. Earned'
      BY <1>7
      DEF Polled, WaitFailed, Termination, Earned, JournalFollows,
            AnswerMatchesJournal, ProcessFollows, Adapters
    <2>5. AnswerMatchesJournal'
      BY <1>7
      DEF Polled, WaitFailed, Termination, AnswerMatchesJournal,
            JournalFollows, Adapters
    <2> QED
      BY <2>1, <2>2, <2>3, <2>4, <2>5
  <1>8. CASE CleanedUp
    <2>1. JournalFollows'
      BY <1>8
      DEF CleanedUp, Reaped, JournalFollows, Adapters, Processes
    <2>2. ResultFollows'
      BY <1>8
      DEF CleanedUp, Reaped, JournalFollows, ResultFollows, ProcessFollows,
          Adapters, Processes
    <2>3. ProcessFollows'
      BY <1>8
      DEF CleanedUp, Reaped, JournalFollows, ResultFollows, ProcessFollows,
          Adapters, Processes
    <2>4. Earned'
      BY <1>8
      DEF CleanedUp, Reaped, Earned, OutputLost, JournalFollows,
          AnswerMatchesJournal, ProcessFollows, Adapters, Processes
    <2>5. AnswerMatchesJournal'
      BY <1>8
      DEF CleanedUp, Reaped, AnswerMatchesJournal, JournalFollows, Adapters,
          Processes
    <2> QED
      BY <2>1, <2>2, <2>3, <2>4, <2>5
  <1>9. CASE Joined
    <2>1. JournalFollows'
      BY <1>9
      DEF Joined, Concludes, Unobserved, Returns, Goes, JournalFollows,
            Adapters
    <2>2. ResultFollows'
      <3>1. /\ adapter.at = "Joining"
            /\ adapter'.at \in {"Idle", "Recording", "Retaining"}
            /\ adapter'.result \in {adapter.result, "Transport"}
            /\ adapter'.invocation = adapter.invocation
            /\ UNCHANGED <<process, journal>>
        BY <1>9 DEF Joined, Concludes, Unobserved, Returns, Goes, Adapters
      <3> QED
        BY <3>1 DEF ResultFollows
    <2>3. ProcessFollows'
      BY <1>9
      DEF Joined, Concludes, Unobserved, Returns, Goes, JournalFollows,
            ResultFollows, ProcessFollows, Adapters
    <2>4. Earned'
      BY <1>9
      DEF Joined, Concludes, Unobserved, Returns, Goes, Earned,
            JournalFollows, AnswerMatchesJournal, ProcessFollows, Adapters
    <2>5. AnswerMatchesJournal'
      BY <1>9
      DEF Joined, Concludes, Unobserved, Returns, Goes,
            AnswerMatchesJournal, JournalFollows, Adapters
    <2> QED
      BY <2>1, <2>2, <2>3, <2>4, <2>5
  <1>10. CASE Retained
    <2>1. JournalFollows'
      BY <1>10
      DEF Retained, Concludes, Unobserved, Returns, JournalFollows, Adapters
    <2>2. ResultFollows'
      <3>1. /\ adapter.at = "Retaining"
            /\ adapter'.at \in {"Idle", "Recording", "Persisting"}
            /\ adapter'.result \in {adapter.result, "Transport"}
            /\ adapter'.invocation = adapter.invocation
            /\ UNCHANGED <<process, journal>>
        BY <1>10 DEF Retained, Concludes, Unobserved, Returns, Adapters
      <3> QED
        BY <3>1 DEF ResultFollows
    <2>3. ProcessFollows'
      <3>1. /\ adapter.at = "Retaining"
            /\ adapter'.at \in {"Idle", "Recording", "Persisting"}
            /\ adapter'.result \in {adapter.result, "Transport"}
            /\ adapter'.invocation = adapter.invocation
            /\ UNCHANGED <<process, journal>>
        BY <1>10 DEF Retained, Concludes, Unobserved, Returns, Adapters
      <3> QED
        BY <3>1 DEF ProcessFollows
    <2>4. Earned'
      BY <1>10
      DEF Retained, Concludes, Unobserved, Returns, Earned, JournalFollows,
            AnswerMatchesJournal, ProcessFollows, Adapters
    <2>5. AnswerMatchesJournal'
      BY <1>10
      DEF Retained, Concludes, Unobserved, Returns, AnswerMatchesJournal,
            JournalFollows, Adapters
    <2> QED
      BY <2>1, <2>2, <2>3, <2>4, <2>5
  <1>11. CASE Persisted
    <2>1. JournalFollows'
      BY <1>11
      DEF Persisted, Unobserved, Returns, Goes, JournalFollows, Adapters
    <2>2. ResultFollows'
      BY <1>11
      DEF Persisted, Unobserved, Returns, Goes, JournalFollows,
            ResultFollows, ProcessFollows, Adapters
    <2>3. ProcessFollows'
      BY <1>11
      DEF Persisted, Unobserved, Returns, Goes, JournalFollows,
            ResultFollows, ProcessFollows, Adapters
    <2>4. Earned'
      BY <1>11
      DEF Persisted, Unobserved, Returns, Goes, Earned, JournalFollows,
            AnswerMatchesJournal, ProcessFollows, Adapters
    <2>5. AnswerMatchesJournal'
      BY <1>11
      DEF Persisted, Unobserved, Returns, Goes, AnswerMatchesJournal,
            JournalFollows, Adapters
    <2> QED
      BY <2>1, <2>2, <2>3, <2>4, <2>5
  <1>12. CASE CompletionRecorded
    <2>1. PICK w \in Appends(Agrees(adapter.result, adapter.started)) :
            /\ journal' = IF w[2] THEN Completed(adapter.result) ELSE journal
            /\ Answered(w[1])
      BY <1>12 DEF CompletionRecorded
    <2>2. /\ w[2] \in BOOLEAN
          /\ w[1] = "Recorded" => w[2]
          /\ w[1] = "Not" => ~w[2]
          /\ w[2] => Agrees(adapter.result, adapter.started)
      BY AppendsMeans DEF Agrees
    <2>3. /\ At("Recording")
          /\ UNCHANGED process
      BY <1>12 DEF CompletionRecorded
    <2> DEFINE answer == w[1]
               there == w[2]
    <2> HIDE DEF answer, there
    <2>4. /\ there \in BOOLEAN
          /\ answer = "Recorded" => there
          /\ answer = "Not" => ~there
          /\ there => Agrees(adapter.result, adapter.started)
          /\ journal' = IF there THEN Completed(adapter.result) ELSE journal
          /\ Answered(answer)
      BY <2>1, <2>2 DEF answer, there
    <2>10. /\ adapter'.at \in {"Idle", "Recording"}
           /\ adapter'.result \in {adapter.result, "Journal"}
           /\ adapter'.invocation = adapter.invocation
           /\ adapter'.at = "Recording" => adapter'.result = "Journal"
      BY <2>4 DEF Answered, Concludes, Returns, Adapters
    <2>11. /\ journal'.started = journal.started
           /\ journal'.completion \in {journal.completion, adapter.result}
           /\ journal'.completion \in Exits /\ journal.completion \notin Exits =>
                there /\ adapter.result \in Exits
      BY <2>4 DEF Completed, Journals
    <2>12. there /\ adapter.result \in Exits =>
             journal.started = adapter.invocation /\ process.killed = "Group"
      BY <2>3, <2>4 DEF Agrees, ResultFollows
    <2>5. JournalFollows'
      BY <2>3, <2>4
      DEF Agrees, Completed, Answered, Concludes, Returns, Adapters,
            Journals, JournalFollows
    <2>6. ResultFollows'
      BY <2>3, <2>10, <2>11, <2>12 DEF JournalFollows, ResultFollows
    <2>7. ProcessFollows'
      BY <2>3, <2>10, <2>11, <2>12 DEF ProcessFollows
    <2>8. Earned'
      BY <2>3, <2>4
      DEF Agrees, Completed, Answered, Concludes, Returns, Adapters,
            Journals, Earned, JournalFollows, AnswerMatchesJournal,
            ProcessFollows
    <2>9. AnswerMatchesJournal'
      BY <2>3, <2>4
      DEF Agrees, Completed, Answered, Concludes, Returns, Adapters,
            Journals, AnswerMatchesJournal, JournalFollows
    <2> QED
      BY <2>5, <2>6, <2>7, <2>8, <2>9
  <1>13. CASE EvidenceRecorded
    <2>0. PICK seen \in Seen : \E e \in Judgement(adapter.result, seen, Quiet) :
            journal' = [journal EXCEPT !.evidence = e]
      BY <1>13 DEF EvidenceRecorded
    <2>1. PICK e \in Judgement(adapter.result, seen, Quiet) :
            journal' = [journal EXCEPT !.evidence = e]
      BY <2>0
    <2>2. /\ adapter.at = "Idle" /\ adapter.answer = "Recorded"
          /\ adapter.result \in {"Zero", "NonZero"}
          /\ UNCHANGED <<adapter, process, output, world>>
      BY <1>13 DEF EvidenceRecorded
    <2>3. /\ journal.completion = adapter.result
          /\ journal'.completion = journal.completion
          /\ journal'.started = journal.started
          /\ journal'.original = journal.original
          /\ journal'.evidence = e
      BY <2>1, <2>2 DEF AnswerMatchesJournal, Journals
    <2>4. JournalFollows'
      BY <2>2, <2>3 DEF JournalFollows
    <2>5. ResultFollows'
      BY <2>2, <2>3 DEF ResultFollows
    <2>6. ProcessFollows'
      BY <2>2, <2>3 DEF ProcessFollows
    <2>7. Earned'
      <3>1. SUFFICES ASSUME e = "Passed"
            PROVE  /\ adapter.result = "Zero"
                   /\ "Success" \in process.report \/ Quiet
                   /\ "Failure" \in process.report => OutputLost
        BY <2>2, <2>3 DEF Earned, OutputLost
      <3>2. /\ adapter.result = "Zero" /\ "Failure" \notin seen
            /\ "Success" \in seen \/ Quiet
        BY <2>1, <2>2, <3>1 DEF Judgement
      <3>3. seen \subseteq process.report /\ (~OutputLost => seen = process.report)
        BY <2>0 DEF Seen
      <3> QED
        BY <3>2, <3>3
    <2>8. AnswerMatchesJournal'
      BY <2>2, <2>3 DEF AnswerMatchesJournal
    <2> QED
      BY <2>4, <2>5, <2>6, <2>7, <2>8
  <1>14. CASE \E s \in Streams : Reader(s) \/ Fails(s) \/ Writes(s)
    <2>1. JournalFollows'
      BY <1>14
      DEF Reader, Reads, Ends, Fails, Writes, JournalFollows, Adapters
    <2>2. ResultFollows'
      BY <1>14
      DEF Reader, Reads, Ends, Fails, Writes, JournalFollows, ResultFollows,
            ProcessFollows, Adapters
    <2>3. ProcessFollows'
      BY <1>14
      DEF Reader, Reads, Ends, Fails, Writes, JournalFollows, ResultFollows,
            ProcessFollows, Adapters
    <2>4. Earned'
      BY <1>14
      DEF Reader, Reads, Ends, Fails, Writes, Earned, JournalFollows,
            ReadersFollow, ProcessFollows
    <2>5. AnswerMatchesJournal'
      BY <1>14
      DEF Reader, Reads, Ends, Fails, Writes, AnswerMatchesJournal,
            JournalFollows, Adapters
    <2> QED
      BY <2>1, <2>2, <2>3, <2>4, <2>5
  <1>15. CASE Forks \/ Finishes
    <2>1. JournalFollows'
      BY <1>15
      DEF Forks, Finishes, JournalFollows, Adapters, Processes
    <2>2. ResultFollows'
      BY <1>15
      DEF Forks, Finishes, JournalFollows, ResultFollows, ProcessFollows,
            Adapters, Processes
    <2>3. ProcessFollows'
      BY <1>15
      DEF Forks, Finishes, JournalFollows, ResultFollows, ProcessFollows,
            Adapters, Processes
    <2>4. Earned'
      BY <1>15
      DEF Forks, Finishes, Earned, OutputLost, JournalFollows,
            ProcessFollows
    <2>5. AnswerMatchesJournal'
      BY <1>15
      DEF Forks, Finishes, AnswerMatchesJournal, JournalFollows, Adapters,
            Processes
    <2> QED
      BY <2>1, <2>2, <2>3, <2>4, <2>5
  <1>16. CASE Canceled \/ LosesLease \/ Deadline
    <2>1. JournalFollows'
      BY <1>16
      DEF Canceled, LosesLease, Deadline, JournalFollows, Adapters
    <2>2. ResultFollows'
      BY <1>16
      DEF Canceled, LosesLease, Deadline, JournalFollows, ResultFollows,
            ProcessFollows, Adapters
    <2>3. ProcessFollows'
      BY <1>16
      DEF Canceled, LosesLease, Deadline, JournalFollows, ResultFollows,
            ProcessFollows, Adapters
    <2>4. Earned'
      BY <1>16
      DEF Canceled, LosesLease, Deadline, Earned, OutputLost, JournalFollows
    <2>5. AnswerMatchesJournal'
      BY <1>16
      DEF Canceled, LosesLease, Deadline, AnswerMatchesJournal,
            JournalFollows, Adapters
    <2> QED
      BY <2>1, <2>2, <2>3, <2>4, <2>5
  <1>17. CASE Crash
    <2>1. JournalFollows'
      BY <1>17
      DEF Crash, JournalFollows, Adapters, Processes
    <2>2. ResultFollows'
      BY <1>17
      DEF Crash, JournalFollows, ResultFollows, ProcessFollows, Adapters,
            Processes
    <2>3. ProcessFollows'
      BY <1>17
      DEF Crash, JournalFollows, ResultFollows, ProcessFollows, Adapters,
            Processes
    <2>4. Earned'
      BY <1>17
      DEF Crash, Earned, JournalFollows, AnswerMatchesJournal,
            ProcessFollows, Adapters, Processes
    <2>5. AnswerMatchesJournal'
      BY <1>17
      DEF Crash, AnswerMatchesJournal, JournalFollows, Adapters, Processes
    <2> QED
      BY <2>1, <2>2, <2>3, <2>4, <2>5
  <1>18. CASE UNCHANGED vars
    <2>1. JournalFollows'
      BY <1>18
      DEF vars, JournalFollows, Adapters
    <2>2. ResultFollows'
      BY <1>18
      DEF vars, JournalFollows, ResultFollows, ProcessFollows, Adapters
    <2>3. ProcessFollows'
      BY <1>18
      DEF vars, JournalFollows, ResultFollows, ProcessFollows, Adapters
    <2>4. Earned'
      BY <1>18
      DEF vars, Earned, OutputLost
    <2>5. AnswerMatchesJournal'
      BY <1>18
      DEF vars, AnswerMatchesJournal, JournalFollows, Adapters
    <2> QED
      BY <2>1, <2>2, <2>3, <2>4, <2>5
  <1> QED
    BY <1>1, <1>2, <1>3, <1>4, <1>5, <1>6, <1>7, <1>8, <1>9, <1>10, <1>11,
       <1>12, <1>13, <1>14, <1>15, <1>16, <1>17, <1>18, <1>19, <1>20
    DEF Next, Adapter

\* A reader starts with the polling, and the adapter waits for it.
LEMMA NextReaders == ASSUME IInv, [Next]_vars PROVE ReadersFollow'
  <1>a. adapter \in Adapters /\ output \in Outputs /\ ReadersFollow
    BY Types DEF IInv
  <1> USE <1>a DEF At, Idle
  <1>1. CASE Invoked
    BY <1>1 DEF Invoked, Silent, ReadersFollow
  <1>2. CASE Checked \/ Rechecked
    BY <1>2 DEF Checked, Rechecked, ReadersFollow
  <1>3. CASE Spawned \/ StartRecorded \/ CaptureFailed
    BY <1>3 DEF Spawned, StartRecorded, CaptureFailed, ReadersFollow
  <1>4. CASE CaptureStarted
    BY <1>4 DEF CaptureStarted, Goes, Adapters, ReadersFollow
  <1>5. CASE Aborted \/ Discarded
    BY <1>5 DEF Aborted, Discarded, Outputs, ReadersFollow
  <1>6. CASE Polled \/ WaitFailed
    BY <1>6 DEF Polled, WaitFailed, Adapters, ReadersFollow
  <1>7. CASE CleanedUp
    BY <1>7 DEF CleanedUp, Adapters, Outputs, ReadersFollow
  <1>8. CASE Joined
    BY <1>8 DEF Joined, ReadersFollow
  <1>9. CASE Retained \/ Persisted \/ CompletionRecorded
    BY <1>9 DEF Retained, Persisted, CompletionRecorded, ReadersFollow
  <1>10. ASSUME NEW s \in Streams, Reader(s) \/ Fails(s) \/ Writes(s)
         PROVE  ReadersFollow'
    BY <1>10 DEF Reader, Reads, Ends, Fails, Writes, Outputs, ReadersFollow
  <1>11. CASE Crash
    BY <1>11 DEF Crash, Outputs, ReadersFollow
  <1>12. CASE UNCHANGED <<adapter, output>>
    BY <1>12 DEF ReadersFollow
  <1> QED
    BY <1>1, <1>2, <1>3, <1>4, <1>5, <1>6, <1>7, <1>8, <1>9, <1>10, <1>11, <1>12
    DEF Next, Adapter, Kills, EvidenceRecorded, Forks, Finishes, Canceled, LosesLease,
        Deadline, vars

\* What is kept is what the two streams were allocated.
LEMMA NextAllocation == ASSUME IInv, [Next]_vars PROVE AllocationFollows'
  <1>a. adapter \in Adapters
    BY Types DEF IInv
  <1>1. CASE Retained
    <2>1. ASSUME NEW limit \in Limits, Representable(output.read, limit),
                 adapter' = [adapter EXCEPT !.at = "Persisting", !.original = output.read,
                               !.limit = limit, !.kept = Allocated(output.read, limit)]
          PROVE  AllocationFollows'
      <3>1. /\ adapter'.limit = limit /\ adapter'.original = output.read
            /\ adapter'.kept = Allocated(output.read, limit)
        BY <1>a, <2>1 DEF Adapters
      <3>2. /\ Representable(adapter.original, adapter.limit)'
            /\ (adapter.kept = Allocated(adapter.original, adapter.limit))'
        BY <2>1, <3>1 DEF Representable, Allocated
      <3> QED
        BY <3>1, <3>2 DEF AllocationFollows
    <2>2. ASSUME Concludes("Transport") \/ Unobserved
          PROVE  AllocationFollows'
      BY <1>a, <2>2 DEF Concludes, Unobserved, Returns, Adapters, AllocationFollows, At
    <2> QED
      BY <1>1, <2>1, <2>2 DEF Retained
  <1>2. CASE UNCHANGED adapter
    <2>1. /\ Representable(adapter.original, adapter.limit)'
               <=> Representable(adapter.original, adapter.limit)
          /\ Allocated(adapter.original, adapter.limit)'
               = Allocated(adapter.original, adapter.limit)
      BY <1>2
    <2> QED
      BY <1>2, <2>1 DEF IInv, AllocationFollows, At
  <1>3. CASE Invoked \/ Checked \/ Rechecked \/ Spawned \/ CaptureStarted \/ CaptureFailed
    <2>1. CASE Invoked
      BY <2>1 DEF Invoked, AllocationFollows, At
    <2>2. CASE Checked \/ Rechecked
      BY <1>a, <2>2
      DEF Checked, Rechecked, Concludes, Unobserved, Returns, Goes, Adapters,
          AllocationFollows, At
    <2>3. CASE Spawned \/ CaptureStarted \/ CaptureFailed
      BY <1>a, <2>3
      DEF Spawned, CaptureStarted, CaptureFailed, Concludes, Goes, Adapters,
          AllocationFollows, At
    <2> QED
      BY <1>3, <2>1, <2>2, <2>3
  <1>4. CASE StartRecorded
    BY <1>a, <1>4 DEF StartRecorded, Goes, Adapters, AllocationFollows, At
  <1>5. CASE Polled \/ WaitFailed \/ CleanedUp \/ Joined
    BY <1>a, <1>5
    DEF Polled, WaitFailed, CleanedUp, Joined, Concludes, Unobserved, Returns, Goes,
        Adapters, AllocationFollows, At
  <1>8. CASE Aborted \/ Discarded
    BY <1>a, <1>8
    DEF Aborted, Discarded, Returns, Concludes, Adapters, AllocationFollows, At
  <1>6. CASE Persisted \/ Crash
    BY <1>a, <1>6
    DEF Persisted, Crash, Unobserved, Returns, Goes, Adapters, AllocationFollows, At
  <1>7. CASE CompletionRecorded
    BY <1>a, <1>7
    DEF CompletionRecorded, Answered, Concludes, Returns, Adapters, AllocationFollows, At
  <1> QED
    BY <1>1, <1>2, <1>3, <1>4, <1>5, <1>6, <1>7, <1>8
    DEF Next, Adapter, Kills, EvidenceRecorded, Reader, Reads, Ends, Fails, Writes, Forks,
        Finishes, Canceled, LosesLease, Deadline, vars

\* The invariant holds of every behaviour.
THEOREM Invariant == Spec => []IInv
  <1>1. IInv /\ [Next]_vars => IInv'
    <2> SUFFICES ASSUME IInv, [Next]_vars PROVE IInv'
      OBVIOUS
    <2>1. TypeOK'
      BY NextTypeOK DEF IInv
    <2> QED
      BY <2>1, NextFollows, NextReaders, NextAllocation DEF IInv
  <1> QED
    BY InitIInv, <1>1, PTL DEF Spec

-----------------------------------------------------------------------------
(* What follows from it.                                                     *)

\* The state of the run of a gate is always of its type (the adapter, the
\* process, its output and the journal).
THEOREM TypeCorrect == Spec => []TypeOK
  <1>1. IInv => TypeOK
    BY DEF IInv
  <1> QED
    BY Invariant, <1>1, PTL

\* When run_validation_process has returned, no process of its group is left
\* unless the group could not be killed, or its process outlived the kill, and
\* then no exit is recorded.
THEOREM NoProcessIsLeft == Spec => []ProcessesAreStopped
  <1>1. IInv => ProcessesAreStopped
    <2> SUFFICES ASSUME IInv, Idle PROVE ProcessesAreStopped
      BY DEF ProcessesAreStopped
    <2> QED
      BY Fields DEF IInv, ProcessFollows, ProcessesAreStopped, Idle
  <1> QED
    BY Invariant, <1>1, PTL

\* A completion the adapter says it recorded is the one in the journal; one it
\* says it did not record is not there.
THEOREM AnswerIsTrue == Spec => []AnswerMatchesJournal
  <1>1. IInv => AnswerMatchesJournal
    BY DEF IInv
  <1> QED
    BY Invariant, <1>1, PTL

\* Evidence that a gate passed is of a process of this very invocation that
\* ended by itself with zero and, unless it is of the quiet kind, said so; a
\* failure it reported was overlooked only if output of it was lost.
THEOREM PassesAreEarned == Spec => []PassIsEarned
  <1>1. IInv => PassIsEarned
    BY DEF IInv, Earned, ResultFollows, PassIsEarned, Exits
  <1> QED
    BY Invariant, <1>1, PTL

\* The output that is kept fills the limit or is all there was, and each stream
\* that had output keeps some (allocate_capture_capacity).
THEOREM KeptOutputIsBounded == Spec => []OutputIsBounded
  <1>1. ASSUME IInv, At("Persisting") PROVE OutputIsBounded
    <2>1. adapter.original \in [Streams -> Nat]
      BY <1>1, Fields DEF IInv
    <2>2. /\ adapter.limit \in Nat \ {0}
          /\ Representable(adapter.original, adapter.limit)
          /\ adapter.kept = Allocated(adapter.original, adapter.limit)
      BY <1>1, ProcessAssumption DEF IInv, AllocationFollows, ProcessAssumption
    <2> QED
      BY <2>1, <2>2, AllocatedFits DEF OutputIsBounded
  <1>2. IInv => OutputIsBounded
    BY <1>1 DEF OutputIsBounded
  <1> QED
    BY Invariant, <1>2, PTL

-----------------------------------------------------------------------------
(* What the run of a gate is to the protocol.                                *)

\* Nothing is recorded of a run at first.
LEMMA InitIsScheduled == Init => Gate!Init
  BY DEF Init, Gate!Init, RunOf, Exits

\* A step that writes nothing to the journal is none of the protocol's; the
\* others are its start, its completion and its evidence.
LEMMA StepIsOfRun ==
    ASSUME IInv, [Next]_vars
    PROVE  [Gate!Next]_<<RunOf, journal.evidence>>
  <1>a. /\ adapter \in Adapters /\ journal \in Journals
        /\ adapter.started \in BOOLEAN
    BY Types, Fields DEF IInv
  <1>1. CASE StartRecorded
    <2>1. journal.completion = "None" /\ journal.started = 0 /\ adapter.invocation # 0
      BY <1>1 DEF IInv, StartRecorded, JournalFollows, Preparing, Idle, At
    <2>2. CASE UNCHANGED journal
      BY <2>2 DEF RunOf
    <2>3. CASE journal' = [journal EXCEPT !.started = adapter.invocation]
      <3>1. RunOf = "Scheduled"
        BY <2>1 DEF RunOf, Exits
      <3>2. RunOf' = "Started" /\ journal'.evidence = journal.evidence
        BY <1>a, <2>1, <2>3 DEF RunOf, Exits, Journals
      <3> QED
        BY <3>1, <3>2 DEF Gate!Next, Gate!Start
    <2> QED
      BY <1>1, <2>2, <2>3 DEF StartRecorded
  <1>2. CASE CompletionRecorded
    <2>1. PICK w \in Appends(Agrees(adapter.result, adapter.started)) :
            journal' = IF w[2] THEN Completed(adapter.result) ELSE journal
      BY <1>2 DEF CompletionRecorded
    <2>2. w[2] \in BOOLEAN /\ (w[2] => Agrees(adapter.result, adapter.started))
      BY AppendsMeans DEF Agrees
    <2>3. CASE ~w[2]
      BY <2>1, <2>3 DEF RunOf
    <2>4. CASE w[2]
      <3>1. /\ journal.completion = "None"
            /\ journal.started = IF adapter.started THEN adapter.invocation ELSE 0
            /\ adapter.result \in Exits => adapter.started
        BY <2>2, <2>4 DEF Agrees, Exits
      <3>2. adapter.invocation # 0 /\ adapter.result # "None"
        BY <1>2 DEF IInv, JournalFollows, ResultFollows, CompletionRecorded, Idle, At
      <3>3. /\ journal'.completion = adapter.result
            /\ journal'.started = journal.started /\ journal'.evidence = journal.evidence
        BY <1>a, <2>1, <2>4 DEF Completed, Journals
      <3>4. RunOf = IF adapter.started THEN "Started" ELSE "Scheduled"
        BY <3>1, <3>2 DEF RunOf, Exits
      <3>5. RunOf' = IF adapter.result \in Exits THEN "Exited"
                     ELSE IF adapter.result = "Canceled" THEN "Canceled"
                     ELSE "Infrastructure"
        BY <3>2, <3>3 DEF RunOf
      <3> QED
        BY <1>a, <3>1, <3>3, <3>4, <3>5 DEF Gate!Next, Gate!Complete
    <2> QED
      BY <2>2, <2>3, <2>4
  <1>3. CASE EvidenceRecorded
    <2>1. journal.completion \in Exits /\ journal.evidence = "None"
      BY <1>3 DEF IInv, EvidenceRecorded, AnswerMatchesJournal
    <2>2. PICK e \in {"Passed", "Failed"} : journal' = [journal EXCEPT !.evidence = e]
      <3>1. ASSUME NEW seen
            PROVE  Judgement(adapter.result, seen, Quiet) \subseteq {"Passed", "Failed"}
        BY DEF Judgement
      <3> QED
        BY <1>3, <3>1 DEF EvidenceRecorded
    <2>3. journal'.evidence = e /\ journal'.completion = journal.completion
      BY <1>a, <2>2 DEF Journals
    <2>4. RunOf = "Exited" /\ RunOf' = "Exited"
      BY <2>1, <2>3 DEF RunOf
    <2> QED
      BY <2>1, <2>2, <2>3, <2>4 DEF Gate!Next, Gate!Judge
  <1>4. CASE UNCHANGED journal
    BY <1>4 DEF RunOf
  <1> QED
    BY <1>1, <1>2, <1>3, <1>4
    DEF Next, Adapter, Invoked, Checked, Rechecked, Spawned, CaptureStarted, CaptureFailed,
        Kills, Aborted, Discarded, Polled, WaitFailed, CleanedUp, Joined, Retained, Persisted, Reader, Reads, Ends,
        Fails, Writes, Forks, Finishes, Canceled, LosesLease, Deadline, Crash, vars

\* The run of a gate is what ProtocolValidation takes it for: scheduled, started
\* and exited or given up, once, and evidence only of an exit.
THEOREM RunIsAGateRun == Spec => GateRunSpec
  <1>1. IInv /\ [Next]_vars => [Gate!Next]_<<RunOf, journal.evidence>>
    BY StepIsOfRun
  <1> QED
    BY InitIsScheduled, Invariant, <1>1, PTL DEF Spec, GateRunSpec, Gate!Spec, Gate!vars
=============================================================================
