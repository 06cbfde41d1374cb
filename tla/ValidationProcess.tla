-------------------------- MODULE ValidationProcess --------------------------
(* The run of one gate: a process is started, its output read by two threads *)
(* while it is polled for its exit, a cancellation, the loss of the lease or *)
(* the deadline, and what became of it is recorded and judged                *)
(* (src/src/execution_protocol/validation_process.rs, validation.rs).        *)
EXTENDS Naturals, FiniteSets

CONSTANTS
    MaxInvocations, \* times the effect is performed at most
    Sizes,          \* bytes there may be on a stream after a write
    Limits,         \* output_limit_bytes a gate may have
    Quiet           \* the gate's command says nothing when it succeeds

ASSUME ProcessAssumption ==
    /\ MaxInvocations \in Nat \ {0}
    /\ Sizes \subseteq Nat /\ Limits \subseteq Nat /\ 0 \notin Sizes \cup Limits
    /\ Quiet \in BOOLEAN

VARIABLES
    adapter,        \* run_validation_process, and its answer
    process,        \* what the last invocation spawned
    output,         \* what it wrote, and what the readers have of it
    world,          \* the flag, the lease and the deadline
    journal         \* started: by which invocation; completion; evidence

vars == <<adapter, process, output, world, journal>>

Invocations == 1 .. MaxInvocations
Streams == {"stdout", "stderr"}
Zero == [s \in Streams |-> 0]
Smaller(a, b) == IF a < b THEN a ELSE b

Exits == {"Zero", "NonZero"}
Failures == {"Spawn", "Timeout", "Journal", "Transport", "Canceled", "LeaseLost"}
Results == Exits \cup Failures \cup {"None"}

Places == {"Idle", "Checking", "Authorized", "Started", "Capturing", "Polling",
           "Aborting", "Discarding", "Cleaning", "Joining", "Retaining",
           "Persisting", "Recording"}
Durabilities == {"None", "Recorded", "Not", "Unknown"}

\* What a line of the output may report.
Reports == {"Success", "Failure"}

TypeOK ==
    /\ adapter \in [at : Places, invocation : {0} \cup Invocations,
                    started : BOOLEAN, result : Results, kept : [Streams -> Nat], limit : {0} \cup Limits,
                    original : [Streams -> Nat], answer : Durabilities]
    /\ process \in [state : {"None", "Running", "Exited", "Reaped"},
                    code : Exits \cup {"Signal", "None"}, report : SUBSET Reports,
                    child : BOOLEAN, daemon : BOOLEAN,
                    killed : {"No", "Group", "Defied", "Failed"}]
    /\ output \in [written : [Streams -> {0} \cup Sizes],
                   read : [Streams -> {0} \cup Sizes],
                   reader : [Streams -> {"None", "Reading", "Ended", "Failed"}],
                   stop : BOOLEAN]
    /\ world \in [canceled : BOOLEAN, lease : BOOLEAN, late : BOOLEAN]
    /\ journal \in [started : {0} \cup Invocations, completion : Results,
                    original : [Streams -> Nat],
                    evidence : {"None", "Passed", "Failed"}]

Unspawned == [state |-> "None", code |-> "None", report |-> {},
              child |-> FALSE, daemon |-> FALSE, killed |-> "No"]
Silent == [written |-> Zero, read |-> Zero,
           reader |-> [s \in Streams |-> "None"], stop |-> FALSE]

Init ==
    /\ adapter = [at |-> "Idle", invocation |-> 0, started |-> FALSE, result |-> "None",
                  kept |-> Zero, limit |-> 0, original |-> Zero, answer |-> "None"]
    /\ process = Unspawned /\ output = Silent
    /\ world = [canceled |-> FALSE, lease |-> TRUE, late |-> FALSE]
    /\ journal = [started |-> 0, completion |-> "None", original |-> Zero,
                  evidence |-> "None"]
-----------------------------------------------------------------------------
(* The journal.                                                              *)

\* A completion has to agree with the start that is recorded: one without a
\* start is a failure to spawn, a cancellation or a lost lease; one is enough.
Agrees(result, started) ==
    /\ journal.completion = "None"
    /\ journal.started = IF started THEN adapter.invocation ELSE 0
    /\ result = "Spawn" => ~started
    /\ result \notin {"Spawn", "Canceled", "LeaseLost"} => started

\* What may come of an attempt to append an event, if it is valid: the answer,
\* and whether it is there.
Appends(valid) ==
    IF valid THEN {<<"Recorded", TRUE>>, <<"Not", FALSE>>,
                   <<"Unknown", TRUE>>, <<"Unknown", FALSE>>}
             ELSE {<<"Not", FALSE>>}

Completed(result) == [journal EXCEPT !.completion = result, !.original = adapter.original]
-----------------------------------------------------------------------------
(* The adapter.                                                              *)

Idle == adapter.at = "Idle"
At(place) == adapter.at = place
Goes(place) == adapter' = [adapter EXCEPT !.at = place]
Returns(durability) ==
    adapter' = [adapter EXCEPT !.at = "Idle", !.answer = durability]
Concludes(result) ==
    adapter' = [adapter EXCEPT !.at = "Recording", !.result = result]

\* The protocol asks for a run that was neither started nor completed.
Invoked ==
    /\ Idle /\ journal.started = 0 /\ journal.completion = "None"
    /\ adapter.invocation + 1 \in Invocations
    /\ adapter' = [at |-> "Checking", invocation |-> adapter.invocation + 1,
                   started |-> FALSE, result |-> "None", kept |-> Zero,
                   limit |-> 0, original |-> Zero, answer |-> "None"]
    /\ process' = Unspawned /\ output' = Silent
    /\ world' \in [canceled : BOOLEAN, lease : BOOLEAN, late : {FALSE}]
    /\ UNCHANGED journal

\* Before there is a process, a boundary that fails leaves no observation.
Unobserved == Returns("None")

\* The flag, the root, the authority, the request, its directory, containment.
Checked ==
    /\ At("Checking")
    /\ IF world.canceled THEN Concludes("Canceled")
       ELSE \/ Unobserved
            \/ IF ~world.lease THEN Concludes("LeaseLost")
               ELSE Concludes("Spawn") \/ Goes("Authorized")
    /\ UNCHANGED <<process, output, world, journal>>

\* The environment was loaded meanwhile: the flag and the lease are read again.
Rechecked ==
    /\ At("Authorized")
    /\ \/ Unobserved
       \/ world.canceled /\ Concludes("Canceled")
       \/ ~world.canceled /\ ~world.lease /\ Concludes("LeaseLost")
       \/ ~world.canceled /\ world.lease /\ Concludes("Spawn")
    /\ UNCHANGED <<process, output, world, journal>>

Spawned ==
    /\ At("Authorized") /\ ~world.canceled /\ world.lease
    /\ Goes("Started")
    /\ process' = [process EXCEPT !.state = "Running"]
    /\ UNCHANGED <<output, world, journal>>

\* terminate_process_tree: the group cannot be killed, or the group is and the
\* process with it, or the process outlives the kill.  That of the process alone,
\* if the group's failed, is not looked at.
Killed(group, itself) ==
    LET survives == process.state = "Running" /\ ~itself
    IN  [process EXCEPT !.killed = IF ~group THEN "Failed"
                                   ELSE IF survives THEN "Defied" ELSE "Group",
                        !.child = @ /\ ~group,
                        !.code = IF process.state = "Running" /\ itself
                                 THEN "Signal" ELSE @,
                        !.state = IF survives THEN "Running" ELSE "Exited"]

\* Mutant: the process is killed, but its group is left alone.
KillsItselfOnly ==
    /\ adapter.at \in {"Aborting", "Discarding", "Cleaning"} /\ process.killed = "No"
    /\ \E itself \in BOOLEAN :
         process' = [Killed(TRUE, itself) EXCEPT !.child = process.child]
    /\ UNCHANGED <<adapter, output, world, journal>>

\* What is left of the group is killed because the start may not be recorded, the
\* output cannot be read, or the process has exited or is waited for no longer.
Kills ==
    /\ adapter.at \in {"Aborting", "Discarding", "Cleaning"} /\ process.killed = "No"
    /\ \E group, itself \in BOOLEAN : process' = Killed(group, itself)
    /\ UNCHANGED <<adapter, output, world, journal>>

\* Then the exit of the process is waited for, without a limit.
Reaped ==
    /\ process.killed # "No" /\ process.state = "Exited"
    /\ process' = [process EXCEPT !.state = "Reaped"]

\* The start is recorded; a run whose start may not be there goes no further.
StartRecorded ==
    /\ At("Started")
    /\ \E w \in Appends(journal.started = 0 /\ journal.completion = "None") :
         /\ journal' = IF w[2] THEN [journal EXCEPT !.started = adapter.invocation]
                               ELSE journal
         /\ IF w[1] = "Recorded"
            THEN adapter' = [adapter EXCEPT !.at = "Capturing", !.started = TRUE]
            ELSE Goes("Aborting")
    /\ UNCHANGED <<process, output, world>>

Aborted ==
    /\ At("Aborting") /\ Reaped /\ Returns("None")
    /\ UNCHANGED <<output, world, journal>>

\* Both pipes get a reader, or there is no output to judge.
CaptureStarted ==
    /\ At("Capturing")
    /\ Goes("Polling")
    /\ output' = [output EXCEPT !.reader = [s \in Streams |-> "Reading"]]
    /\ UNCHANGED <<process, world, journal>>

CaptureFailed ==
    /\ At("Capturing") /\ Goes("Discarding")
    /\ UNCHANGED <<process, output, world, journal>>

Discarded ==
    /\ At("Discarding") /\ Reaped /\ Concludes("Transport")
    /\ output' = [output EXCEPT !.stop = TRUE]
    /\ UNCHANGED <<world, journal>>

\* Why the process is waited for no longer; the exit is looked at first.
Termination ==
    IF process.state = "Exited"
    THEN {IF process.code = "Signal" THEN "Transport" ELSE process.code}
    ELSE IF \E s \in Streams : output.reader[s] = "Failed" THEN {"Transport"}
    ELSE IF world.canceled THEN {"Canceled"}
    ELSE IF ~world.lease THEN {"LeaseLost"}
    ELSE IF world.late THEN {"Timeout"}
    ELSE {}

Polled ==
    /\ At("Polling")
    /\ \E t \in Termination :
         adapter' = [adapter EXCEPT !.at = "Cleaning", !.result = t]
    \* neither the flag nor the clock is looked at again
    /\ world' = [world EXCEPT !.canceled = FALSE, !.late = FALSE]
    /\ UNCHANGED <<process, output, journal>>

WaitFailed ==
    /\ At("Polling")
    /\ adapter' = [adapter EXCEPT !.at = "Cleaning", !.result = "Transport"]
    /\ world' = [world EXCEPT !.canceled = FALSE, !.late = FALSE]
    /\ UNCHANGED <<process, output, journal>>

\* A run whose group could not be killed, or whose process could not be waited
\* for, does not count as one that exited; the readers are told to stop.
CleanedUp ==
    /\ At("Cleaning") /\ Reaped
    /\ \E failed \in BOOLEAN :
         /\ process.killed = "Failed" => failed
         /\ adapter' = [adapter EXCEPT !.at = "Joining",
                          !.result = IF failed /\ @ # "LeaseLost"
                                     THEN "Transport" ELSE @]
    /\ output' = [output EXCEPT !.stop = TRUE]
    /\ UNCHANGED <<world, journal>>

\* Both readers have ended.  A run whose lease is lost by now, or after either
\* of the next two steps, leaves no completion.
Joined ==
    /\ At("Joining")
    /\ \A s \in Streams : output.reader[s] # "Reading"
    /\ IF ~world.lease \/ adapter.result = "LeaseLost" THEN Unobserved
       ELSE IF \E s \in Streams : output.reader[s] = "Failed" THEN Concludes("Transport")
       ELSE Goes("Retaining")
    /\ UNCHANGED <<process, output, world, journal>>

\* The two captures share the limit: stderr has half of it, rounded up, before
\* stdout has what is left, and what one of them leaves goes to the other.
Representable(original, limit) ==
    \/ original["stdout"] + original["stderr"] <= limit
    \/ limit > 1
    \/ \E s \in Streams : original[s] = 0

\* Mutant: what stdout leaves is lost to stderr.
AllocatedHalves(original, limit) ==
    IF original["stdout"] + original["stderr"] <= limit THEN original
    ELSE LET half == Smaller(original["stderr"], (limit + 1) \div 2)
         IN [s \in Streams |-> IF s = "stdout"
                               THEN Smaller(original["stdout"], limit - half) ELSE half]

Allocated(original, limit) ==
    IF original["stdout"] + original["stderr"] <= limit THEN original
    ELSE LET half == Smaller(original["stderr"], (limit + 1) \div 2)
             out == Smaller(original["stdout"], limit - half)
             err == half + Smaller(original["stderr"] - half, limit - half - out)
         IN [s \in Streams |-> IF s = "stdout" THEN out ELSE err]

Retained ==
    /\ At("Retaining")
    /\ \E limit \in Limits :
         IF ~Representable(output.read, limit) THEN Concludes("Transport")
         ELSE IF ~world.lease THEN Unobserved
         ELSE adapter' = [adapter EXCEPT !.at = "Persisting", !.original = output.read,
                            !.limit = limit, !.kept = Allocated(output.read, limit)]
    /\ UNCHANGED <<process, output, world, journal>>

\* Head and tail of each stream go to the artifact store, and their receipts
\* into the completion.
Persisted ==
    /\ At("Persisting")
    /\ \/ adapter' = [adapter EXCEPT !.at = "Recording", !.result = "Journal",
                        !.kept = Zero, !.limit = 0, !.original = Zero]
       \/ IF world.lease THEN Goes("Recording") ELSE Unobserved
    /\ UNCHANGED <<process, output, world, journal>>

\* Mutant: a write without an answer is taken for one that failed.
AnsweredTwice(durability) ==
    IF durability \in {"Not", "Unknown"} /\ adapter.started /\ adapter.result # "Journal"
    THEN Concludes("Journal")
    ELSE Returns(durability)

\* A completion that is definitely not recorded is replaced by one that says so,
\* once; one that may be recorded is left.
Answered(durability) ==
    IF durability = "Not" /\ adapter.started /\ adapter.result # "Journal"
    THEN Concludes("Journal")
    ELSE Returns(durability)

CompletionRecorded ==
    /\ At("Recording")
    /\ \E w \in Appends(Agrees(adapter.result, adapter.started)) :
         /\ journal' = IF w[2] THEN Completed(adapter.result) ELSE journal
         /\ Answered(w[1])
    /\ UNCHANGED <<process, output, world>>

Adapter ==
    \/ Checked \/ Rechecked \/ Spawned \/ StartRecorded \/ CaptureStarted
    \/ CaptureFailed \/ Kills \/ Aborted \/ Discarded \/ Polled \/ CleanedUp \/ Joined \/ Retained \/ Persisted
    \/ CompletionRecorded
-----------------------------------------------------------------------------
(* The readers.                                                              *)

\* Mutant: the pipe is read to its end.
ReaderStopsAtEnd(s) ==
    /\ output.read[s] = output.written[s]
    /\ process.state # "Running" /\ ~process.child /\ ~process.daemon

\* The flag is looked at before every read, and there is no end of the pipe
\* while a descendant holds it.
ReaderStops(s) ==
    \/ output.stop
    \/ /\ output.read[s] = output.written[s]
       /\ process.state # "Running" /\ ~process.child /\ ~process.daemon

Reads(s) ==
    /\ output.reader[s] = "Reading"
    /\ output.read[s] < output.written[s]
    /\ output' = [output EXCEPT !.read[s] = output.written[s]]
    /\ UNCHANGED <<adapter, process, world, journal>>

Ends(s) ==
    /\ output.reader[s] = "Reading"
    /\ ReaderStops(s)
    /\ output' = [output EXCEPT !.reader[s] = "Ended"]
    /\ UNCHANGED <<adapter, process, world, journal>>

Fails(s) ==
    /\ output.reader[s] = "Reading"
    /\ output' = [output EXCEPT !.reader[s] = "Failed"]
    /\ UNCHANGED <<adapter, process, world, journal>>

Reader(s) == Reads(s) \/ Ends(s)
-----------------------------------------------------------------------------
(* The process and the world.                                                *)

Writes(s) ==
    /\ process.state = "Running"
    /\ \E n \in Sizes : /\ n > output.written[s]
                        /\ output' = [output EXCEPT !.written[s] = n]
    /\ UNCHANGED <<adapter, process, world, journal>>

\* A descendant stays in the group of the process, or leaves it.
Forks ==
    /\ process.state = "Running"
    /\ process' \in {[process EXCEPT !.child = TRUE], [process EXCEPT !.daemon = TRUE]}
    /\ UNCHANGED <<adapter, output, world, journal>>

\* What it wrote may report a success, a failure, both or nothing.
Finishes ==
    /\ process.state = "Running"
    /\ \E code \in Exits \cup {"Signal"}, report \in SUBSET Reports :
         /\ report = {} \/ \E s \in Streams : output.written[s] > 0
         /\ process' = [process EXCEPT !.state = "Exited", !.code = code,
                          !.report = report]
    /\ UNCHANGED <<adapter, output, world, journal>>

Canceled ==
    /\ adapter.at \in {"Checking", "Authorized", "Started", "Capturing", "Polling"}
    /\ ~world.canceled
    /\ world' = [world EXCEPT !.canceled = TRUE]
    /\ UNCHANGED <<adapter, process, output, journal>>

LosesLease ==
    /\ ~Idle /\ world.lease
    /\ world' = [world EXCEPT !.lease = FALSE]
    /\ UNCHANGED <<adapter, process, output, journal>>

Deadline ==
    /\ At("Polling") /\ ~world.late
    /\ world' = [world EXCEPT !.late = TRUE]
    /\ UNCHANGED <<adapter, process, output, journal>>

\* The agent dies with its threads; what it had spawned goes on without it.
Crash ==
    /\ ~Idle
    /\ adapter' = [adapter EXCEPT !.at = "Idle", !.answer = "None"]
    /\ process' = [process EXCEPT !.state = "None", !.child = FALSE, !.daemon = FALSE]
    /\ output' = [output EXCEPT !.reader = [s \in Streams |-> "None"], !.stop = TRUE]
    /\ world' = [world EXCEPT !.canceled = FALSE, !.late = FALSE]
    /\ UNCHANGED journal
-----------------------------------------------------------------------------
(* The evidence: what the parser saw is with the adapter's answer, and is not *)
(* recorded with the completion.                                             *)

\* Some of the output was not read, or not retained.
OutputLost == output.read # output.written \/ adapter.kept # adapter.original

\* The parser sees the lines of both streams that were retained.
Seen == IF OutputLost THEN SUBSET process.report ELSE {process.report}

\* Mutant: the report decides.
JudgementOfReport(code, seen, quiet) ==
    IF "Success" \in seen \/ quiet THEN {"Passed"} ELSE {"Failed"}

\* A passing exit whose output reports a failure is refused.
Judgement(code, seen, quiet) ==
    IF code = "NonZero" THEN {"Failed"}
    ELSE IF "Failure" \in seen THEN {}
    ELSE IF "Success" \in seen \/ quiet THEN {"Passed"}
    ELSE {"Failed"}

\* Mutant: a run that did not exit is judged as well.
EvidenceAnyhow ==
    /\ Idle /\ adapter.answer = "Recorded"
    /\ journal.evidence = "None"
    /\ \E seen \in Seen : \E e \in Judgement(adapter.result, seen, Quiet) :
         journal' = [journal EXCEPT !.evidence = e]
    /\ UNCHANGED <<adapter, process, output, world>>

EvidenceRecorded ==
    /\ Idle /\ adapter.answer = "Recorded"
    /\ adapter.result \in Exits
    /\ journal.evidence = "None"
    /\ \E seen \in Seen : \E e \in Judgement(adapter.result, seen, Quiet) :
         journal' = [journal EXCEPT !.evidence = e]
    /\ UNCHANGED <<adapter, process, output, world>>
-----------------------------------------------------------------------------
Next ==
    \/ Invoked \/ Adapter \/ WaitFailed \/ EvidenceRecorded
    \/ \E s \in Streams : Reader(s) \/ Fails(s) \/ Writes(s)
    \/ Forks \/ Finishes \/ Canceled \/ LosesLease \/ Deadline \/ Crash

Spec == Init /\ [][Next]_vars

\* The agent's threads are scheduled, and time passes.
Fairness ==
    /\ WF_vars(Adapter)
    /\ \A s \in Streams : WF_vars(Reader(s))
    /\ WF_vars(Deadline)

FairSpec == Spec /\ Fairness
-----------------------------------------------------------------------------
\* Once the adapter has answered, its process is gone and so is everything the
\* process left in its group; a descendant survives only if the group could not
\* be killed, or its process outlived the kill, and then the run did not pass for
\* one that exited.
ProcessesAreStopped ==
    Idle => /\ process.state \in {"None", "Reaped"}
            /\ process.child => /\ process.killed \in {"Failed", "Defied"}
                                /\ journal.completion \notin Exits

\* The caller is told the truth: of a completion that is said to be recorded the
\* journal has exactly that one, of one that is said not to be it has none.
AnswerMatchesJournal ==
    Idle => /\ adapter.answer = "Recorded" => /\ journal.completion = adapter.result
                                              /\ journal.original = adapter.original
            /\ adapter.answer = "Not" => journal.completion = "None"

\* A gate has passed only if its own process ended by itself with zero, and said
\* that it succeeded or is of the quiet kind: not a process that was killed, nor
\* one of another invocation.  A failure it reported as well is overlooked only if
\* some of its output was lost.
PassIsEarned ==
    journal.evidence = "Passed" =>
        /\ process.code = "Zero" /\ journal.completion = "Zero"
        /\ "Success" \in process.report \/ Quiet
        /\ "Failure" \in process.report => OutputLost
        /\ journal.started = adapter.invocation

\* What is kept of the output is within the limit and wastes none of it, and a
\* stream that had output keeps some.
OutputIsBounded ==
    At("Persisting") =>
        /\ adapter.kept["stdout"] + adapter.kept["stderr"] =
               Smaller(adapter.original["stdout"] + adapter.original["stderr"], adapter.limit)
        /\ \A s \in Streams : /\ adapter.kept[s] <= adapter.original[s]
                              /\ adapter.original[s] > 0 => adapter.kept[s] > 0

\* The process could not be killed and has not ended.
Defying == process.state = "Running" /\ process.killed # "No"

\* The adapter always returns, even if the process never ends, or left a
\* descendant that holds its pipes; but it waits for a process that outlived the
\* kill, whose end has no limit.
AdapterReturns == []<>(Idle \/ Defying)

\* What a run is to the protocol.
RunOf ==
    IF journal.completion \in Exits THEN "Exited"
    ELSE IF journal.completion = "Canceled" THEN "Canceled"
    ELSE IF journal.completion # "None" THEN "Infrastructure"
    ELSE IF journal.started # 0 THEN "Started" ELSE "Scheduled"

Gate == INSTANCE GateRun WITH run <- RunOf, evidence <- journal.evidence
GateRunSpec == Gate!Spec

-----------------------------------------------------------------------------
(* What the documentation promises and the code does not keep.               *)

\* The completion of a run that exited says how much its process wrote
\* (docs/execution-protocol-v1/domain-model.md:648: "exact original, captured,
\* dropped, and truncation metadata").
OutputIsExact ==
    journal.completion \in Exits => journal.original = output.written

\* A run that exited with zero is judged, or can still be.  It does not hold:
\* a crash takes the parser's observation with it, and the evidence of a zero
\* exit whose output has a failure line is refused.
ExitBecomesEvidence ==
    journal.completion \in Exits /\ Idle => journal.evidence # "None" \/ ENABLED EvidenceRecorded
=============================================================================
