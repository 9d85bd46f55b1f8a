---------------------------- MODULE AnalysisJobs ----------------------------
(***************************************************************************)
(* Batch analysis of text messages of one user: the API handler that       *)
(* creates a job and enqueues it, the arq queue and its worker, the task   *)
(* analyse_batch_task, the synchronous batch endpoint, and the records     *)
(* that all of them write (AnalysisJob, MessageAnalysis, SenderSummary).   *)
(*                                                                         *)
(* API processes and workers share nothing but the database and the queue, *)
(* and asyncio switches at every await, so each database statement is an   *)
(* action of its own.  The analyser is called synchronously between two    *)
(* statements.  Piccolo's select() returns rows as dictionaries, on which  *)
(* an attribute such as has_horsemen is an AttributeError.                 *)
(***************************************************************************)
EXTENDS Integers, Sequences, FiniteSets

CONSTANTS
  Jobs,        \* jobs the API may be asked to create
  Batches,     \* calls of the synchronous endpoint
  Messages,    \* client_message_ids
  Senders,     \* sender identifiers (with their channel)
  Sender,      \* the sender of each message
  MaxLen,      \* bound: messages of a request
  ChunkSize,   \* messages between two updates of the progress: 10
  MaxTries,    \* WorkerSettings.max_tries
  MaxJobs,     \* WorkerSettings.max_jobs
  Faults,      \* bound: whether the analyser, a statement or Redis may fail
  SameQueue    \* the worker reads the queue the handler writes to: FALSE in
               \*   the source, TRUE for a worker started with arq's default

ASSUME RequestAssumption ==
  /\ Jobs \cap Batches = {}
  /\ MaxLen \in Nat
  /\ Sender \in [Messages -> Senders]
ASSUME WorkerAssumption ==
  /\ IsFiniteSet(Jobs) /\ IsFiniteSet(Batches)
  /\ ChunkSize \in Nat \ {0} /\ MaxTries \in Nat /\ MaxJobs \in Nat
  /\ Faults \in BOOLEAN /\ SameQueue \in BOOLEAN

Actors == Jobs \cup Batches
Requests == UNION {[1..n -> Messages] : n \in 1..MaxLen}

\* JobStatus; CANCELLED is set nowhere.
Finished == {"completed", "failed"}
JobStatus == Finished \cup {"pending", "processing"}

NoRow == [status |-> "none", processed |-> 0, failed |-> 0, failedIds |-> {}]
NewRow == [NoRow EXCEPT !.status = "pending"]

\* Where a run of the analysis stands: which statement comes next.  A task that
\* has left is over, and arq has yet to forget its job.
PerMessage == {"look", "insert", "readSummary", "writeSummary"}
Running == PerMessage \cup {"chunk", "complete", "fail"}
Steps == Running \cup {"idle", "left", "answered"}
IdleRun == [pc |-> "idle", pos |-> 1, processed |-> 0, failed |-> 0, failedIds |-> {}]

VARIABLES
  handler,    \* how far create_job has come
  content,    \* the messages of a request
  row,        \* the AnalysisJob of a job
  queue,      \* jobs in the arq queue, started or not
  tries,      \* how often arq has started a job
  run,        \* the analysis a task or a batch call is in
  analyses,   \* MessageAnalysis records: of a message, by a try of a run
  summaries   \* SenderSummary records, of the sender of the one message counted

apiVars == <<handler, content>>
arqVars == <<queue, tries>>
dataVars == <<analyses, summaries>>
vars == <<apiVars, row, arqVars, run, dataVars>>

Init ==
  /\ handler = [j \in Jobs |-> "none"]
  /\ content = [a \in Actors |-> << >>]
  /\ row = [j \in Jobs |-> NoRow]
  /\ queue = {}
  /\ tries = [j \in Jobs |-> 0]
  /\ run = [a \in Actors |-> IdleRun]
  /\ analyses = {}
  /\ summaries = {}

At(a, pc) == run[a].pc = pc
Active == {j \in Jobs : run[j].pc \in Running \cup {"left"}}
Goto(a, pc) == run' = [run EXCEPT ![a].pc = pc]

-----------------------------------------------------------------------------
(* create_job.  The status requests only read.                             *)

\* job.save(): the row is inserted.
CreateJob(j, s) ==
  /\ handler[j] = "none"
  /\ handler' = [handler EXCEPT ![j] = "saved"]
  /\ content' = [content EXCEPT ![j] = s]
  /\ row' = [row EXCEPT ![j] = NewRow]
  /\ UNCHANGED <<arqVars, run, dataVars>>

Enqueue(j) ==
  /\ handler[j] = "saved"
  /\ handler' = [handler EXCEPT ![j] = "enqueued"]
  /\ queue' = queue \cup {j}
  /\ UNCHANGED <<content, row, tries, run, dataVars>>

\* Redis or arq is not there, or the process ends: the row stays as it is.
EnqueueFails(j) ==
  /\ Faults
  /\ handler[j] = "saved"
  /\ handler' = [handler EXCEPT ![j] = "returned"]
  /\ UNCHANGED <<content, row, arqVars, run, dataVars>>

\* The second job.save(), for arq_job_id, writes every column the handler's
\* object has, whatever the worker has put there meanwhile.
SaveArqId(j) ==
  /\ handler[j] = "enqueued"
  /\ handler' = [handler EXCEPT ![j] = "returned"]
  /\ row' = [row EXCEPT ![j] = NewRow]
  /\ UNCHANGED <<content, arqVars, run, dataVars>>

SaveArqIdFails(j) ==
  /\ Faults
  /\ handler[j] = "enqueued"
  /\ handler' = [handler EXCEPT ![j] = "returned"]
  /\ UNCHANGED <<content, row, arqVars, run, dataVars>>

-----------------------------------------------------------------------------
(* One message: BatchAnalyzerService.analyze_single and
   AggregationService.update_for_analysis.                                 *)

Current(a) == content[a][run[a].pos]
Try(a) == IF a \in Jobs THEN tries[a] ELSE 0
Own(a) == [by |-> a, try |-> Try(a), of |-> Current(a)]   \* a row it inserts
AnalysesOf(m) == {r \in analyses : r.of = m}
SummariesOf(s) == {r \in summaries : Sender[r.of] = s}
LastOne(a) == run[a].pos = Len(content[a])

\* After a message a job goes on, or updates its progress at the end of a
\* chunk; a batch call goes on, or answers.
NoFinalProgress(a) ==     \* seeded fault: the last chunk is not reported
  IF a \in Batches
  THEN IF LastOne(a) THEN "answered" ELSE "look"
  ELSE IF LastOne(a) THEN "complete" ELSE "chunk"
AfterMessage(a) ==
  IF a \in Batches
  THEN IF LastOne(a) THEN "answered" ELSE "look"
  ELSE IF LastOne(a) \/ run[a].pos % ChunkSize = 0 THEN "chunk" ELSE "look"

Processed(a) ==
  run' = [run EXCEPT ![a].pc = AfterMessage(a), ![a].pos = @ + 1, ![a].processed = @ + 1]

RepeatMessage(a) == Goto(a, "look")   \* seeded fault: a failed message is repeated
ForgetId(a) ==     \* seeded fault: the id of a failed message is not kept
  run' = [run EXCEPT ![a].pc = AfterMessage(a), ![a].pos = @ + 1, ![a].failed = @ + 1]
Failed(a) ==
  run' = [run EXCEPT ![a].pc = AfterMessage(a), ![a].pos = @ + 1, ![a].failed = @ + 1,
                     ![a].failedIds = @ \cup {Current(a)}]

NoLongerLooks(a) ==     \* seeded fault: no look-up for an earlier analysis
  /\ At(a, "look")
  /\ Goto(a, "insert")
  /\ UNCHANGED <<apiVars, row, arqVars, dataVars>>

\* The look-up for an earlier analysis finds none, and the analyser answers.
NotYetAnalysed(a) ==
  /\ At(a, "look")
  /\ AnalysesOf(Current(a)) = {}
  /\ Goto(a, "insert")
  /\ UNCHANGED <<apiVars, row, arqVars, dataVars>>

\* It finds one, returns it, and the caller reads an attribute of it.
AlreadyAnalysed(a) ==
  /\ At(a, "look")
  /\ AnalysesOf(Current(a)) # {}
  /\ Failed(a)
  /\ UNCHANGED <<apiVars, row, arqVars, dataVars>>

\* The analyser or a statement on the way fails.
MessageFails(a) ==
  /\ Faults
  /\ run[a].pc \in PerMessage
  /\ Failed(a)
  /\ UNCHANGED <<apiVars, row, arqVars, dataVars>>

InsertAnalysis(a) ==
  /\ At(a, "insert")
  /\ analyses' = analyses \cup {Own(a)}
  /\ Goto(a, "readSummary")
  /\ UNCHANGED <<apiVars, row, arqVars, summaries>>

NoSummary(a) ==
  /\ At(a, "readSummary")
  /\ SummariesOf(Sender[Current(a)]) = {}
  /\ Goto(a, "writeSummary")
  /\ UNCHANGED <<apiVars, row, arqVars, dataVars>>

\* A summary there is, is a dictionary without total_messages: the message
\* counts as failed, although its analysis is in the database.
SummaryUnreadable(a) ==
  /\ At(a, "readSummary")
  /\ SummariesOf(Sender[Current(a)]) # {}
  /\ Failed(a)
  /\ UNCHANGED <<apiVars, row, arqVars, dataVars>>

InsertSummary(a) ==
  /\ At(a, "writeSummary")
  /\ summaries' = summaries \cup {Own(a)}
  /\ Processed(a)
  /\ UNCHANGED <<apiVars, row, arqVars, analyses>>

AnalyseSingle(a) ==
  \/ NotYetAnalysed(a)
  \/ AlreadyAnalysed(a)
  \/ InsertAnalysis(a)
  \/ NoSummary(a)
  \/ SummaryUnreadable(a)
  \/ InsertSummary(a)
  \/ MessageFails(a)

\* The synchronous endpoint: process_batch over the messages of the call.
ReceiveBatch(b, s) ==
  /\ At(b, "idle")
  /\ content' = [content EXCEPT ![b] = s]
  /\ Goto(b, "look")
  /\ UNCHANGED <<handler, row, arqVars, dataVars>>

-----------------------------------------------------------------------------
(* analyze_batch_task, and what arq does with it.                          *)

MayStartOnceMore(j) == tries[j] <= MaxTries     \* seeded fault
MayStart(j) == tries[j] < MaxTries

Starts(j) ==
  /\ SameQueue
  /\ j \in queue
  /\ At(j, "idle")
  /\ Cardinality(Active) < MaxJobs
  /\ MayStart(j)
  /\ tries' = [tries EXCEPT ![j] = @ + 1]
  /\ UNCHANGED <<apiVars, queue, dataVars>>

Start(j) ==
  /\ Starts(j)
  /\ row' = [row EXCEPT ![j].status = "processing"]
  /\ run' = [run EXCEPT ![j] = [IdleRun EXCEPT !.pc = "look"]]

\* The first statement fails, or the second, of started_at: both are outside
\* of the try block.
StartFails(j) ==
  /\ Faults
  /\ Starts(j)
  /\ row' \in {row, [row EXCEPT ![j].status = "processing"]}
  /\ run' = [run EXCEPT ![j] = [IdleRun EXCEPT !.pc = "left"]]

Progress(j) ==
  /\ At(j, "chunk")
  /\ row' = [row EXCEPT ![j] = [@ EXCEPT !.processed = run[j].processed,
                                         !.failed = run[j].failed]]
  /\ Goto(j, IF run[j].pos > Len(content[j]) THEN "complete" ELSE "look")
  /\ UNCHANGED <<apiVars, arqVars, dataVars>>

Complete(j) ==
  /\ At(j, "complete")
  /\ row' = [row EXCEPT ![j] = [@ EXCEPT !.status = "completed",
                                         !.failedIds = run[j].failedIds]]
  /\ Goto(j, "left")
  /\ UNCHANGED <<apiVars, arqVars, dataVars>>

\* The analyser cannot be created, or an update of the row fails.
Raise(j) ==
  /\ Faults
  /\ \/ At(j, "look") /\ run[j].pos = 1
     \/ At(j, "chunk")
     \/ At(j, "complete")
  /\ Goto(j, "fail")
  /\ UNCHANGED <<apiVars, row, arqVars, dataVars>>

CarryOn(j) == Goto(j, "chunk")   \* seeded fault: the task goes on although it failed
Raised(j) == Goto(j, "left")

MarkFailed(j) ==
  /\ At(j, "fail")
  /\ row' = [row EXCEPT ![j].status = "failed"]
  /\ Raised(j)
  /\ UNCHANGED <<apiVars, arqVars, dataVars>>

MarkFailedFails(j) ==
  /\ Faults
  /\ At(j, "fail")
  /\ Raised(j)
  /\ UNCHANGED <<apiVars, row, arqVars, dataVars>>

\* arq cancels a task at job_timeout.  A cancellation is not an Exception, so
\* the row stays as it is.
TimeLimit(j) ==
  /\ run[j].pc \in Running
  /\ Goto(j, "left")
  /\ UNCHANGED <<apiVars, row, arqVars, dataVars>>

\* The task has returned, raised or been cancelled, and arq forgets the job.
\* Its row was written before, so a worker may stop in between.
Forget(j) ==
  /\ At(j, "left")
  /\ run' = [run EXCEPT ![j] = IdleRun]
  /\ queue' = queue \ {j}
  /\ UNCHANGED <<apiVars, row, tries, dataVars>>

\* The worker stops, or dies; arq starts later what it has not forgotten.
WorkerStops ==
  /\ Active # {}
  /\ run' = [a \in Actors |-> IF a \in Active THEN IdleRun ELSE run[a]]
  /\ UNCHANGED <<apiVars, row, arqVars, dataVars>>

\* A job that was started max_tries times is not started again.
GiveUp(j) ==
  /\ SameQueue
  /\ j \in queue
  /\ At(j, "idle")
  /\ ~ MayStart(j)
  /\ queue' = queue \ {j}
  /\ UNCHANGED <<apiVars, row, tries, run, dataVars>>

-----------------------------------------------------------------------------
Handler(j) ==
  \/ \E s \in Requests : CreateJob(j, s)
  \/ Enqueue(j)
  \/ EnqueueFails(j)
  \/ SaveArqId(j)
  \/ SaveArqIdFails(j)

TaskStep(j) ==
  \/ Progress(j)
  \/ Complete(j)
  \/ Raise(j)
  \/ MarkFailed(j)
  \/ MarkFailedFails(j)

Arq(j) == Start(j) \/ StartFails(j) \/ TimeLimit(j) \/ Forget(j) \/ GiveUp(j)

Next ==
  \/ \E j \in Jobs : Handler(j) \/ TaskStep(j) \/ Arq(j)
  \/ \E b \in Batches, s \in Requests : ReceiveBatch(b, s)
  \/ \E a \in Actors : AnalyseSingle(a)
  \/ WorkerStops

Spec == Init /\ [][Next]_vars

\* A running worker starts what is in its queue and gives up what has had its
\* tries; the event loop goes on with every task and handler.  Nothing is
\* assumed of clients, of failures or of the worker's stops.
Fairness ==
  /\ \A j \in Jobs : WF_vars(Start(j) \/ StartFails(j)) /\ WF_vars(Forget(j)) /\ WF_vars(GiveUp(j))
                  /\ WF_vars(TaskStep(j))
  /\ \A j \in Jobs : WF_vars(Enqueue(j) \/ EnqueueFails(j))
                  /\ WF_vars(SaveArqId(j) \/ SaveArqIdFails(j))
  /\ \A a \in Actors : WF_vars(AnalyseSingle(a))
FairSpec == Spec /\ Fairness

-----------------------------------------------------------------------------
(* Properties.                                                             *)

Rows == [status : JobStatus \cup {"none"}, processed : Nat, failed : Nat,
         failedIds : SUBSET Messages]
Runs == [pc : Steps, pos : 1..MaxLen + 1, processed : Nat, failed : Nat,
         failedIds : SUBSET Messages]
Records == [by : Actors, try : Nat, of : Messages]

\* Every variable has its type; a task that is running is one arq has in its
\* queue, and no job is started more than max_tries times.
TypeOK ==
  /\ handler \in [Jobs -> {"none", "saved", "enqueued", "returned"}]
  /\ content \in [Actors -> Requests \cup {<< >>}]
  /\ row \in [Jobs -> Rows]
  /\ queue \subseteq Jobs
  /\ Active \subseteq queue
  /\ tries \in [Jobs -> 0..MaxTries]
  /\ run \in [Actors -> Runs]
  /\ analyses \subseteq Records
  /\ summaries \subseteq Records

InContent(j) == {content[j][i] : i \in 1..Len(content[j])}

\* No message of a completed job is lost, whatever was cancelled, started
\* again, or done by others meanwhile: it was analysed and counted in a summary
\* of its sender, or it is listed in failed_message_ids.
Counted(m) == \E r \in summaries : r.of = m
CompletedIsAccounted ==
  \A j \in Jobs : row[j].status = "completed" =>
    \A m \in InContent(j) : Counted(m) \/ m \in row[j].failedIds

\* The progress of a completed job is that of all of its messages, or, where
\* the handler's second save came last before the end, that of none; it is
\* never that of a part (an earlier run, a chunk that was not reported).
CompletedProgress ==
  \A j \in Jobs : row[j].status = "completed" =>
    row[j].processed + row[j].failed \in {0, Len(content[j])}

\* Once create_job has returned, the row of a finished job changes in one way
\* only: the worker stopped before arq had forgotten the job, and a further try
\* sets the status back to processing.  No timeout does it, no statement left of
\* an earlier try, and no task that raised.
FinishedIsLeftAlone ==
  [][\A j \in Jobs :
       handler[j] = "returned" /\ row[j].status \in Finished =>
         \/ row'[j] = row[j]
         \/ /\ tries[j] > 0 /\ tries'[j] = tries[j] + 1
            /\ row'[j] = [row[j] EXCEPT !.status = "processing"]]_vars

\* What the races of look-up and insertion can do to the records.  A summary
\* counts a record that the same try of the same run has inserted, so none is
\* counted twice.  A message is recorded, and a sender summarised, more often
\* than once only by runs that are under way at the same time: never by a run
\* and its repetition, nor more often than runs fit beside each other.
RunsAtOnce == MaxJobs + Cardinality(Batches)
RecordsFit ==
  /\ summaries \subseteq analyses
  /\ \A q, r \in analyses : q.by = r.by /\ q.of = r.of => q = r
  /\ \A q, r \in summaries : q.by = r.by /\ Sender[q.of] = Sender[r.of] => q = r
  /\ \A m \in Messages : Cardinality(AnalysesOf(m)) <= RunsAtOnce
  /\ \A s \in Senders : Cardinality(SummariesOf(s)) <= RunsAtOnce

\* Every job that a worker has started leaves the queue, finished, failed or
\* given up, and every batch call is answered.
StartedIsResolved ==
  /\ \A j \in Jobs : tries[j] > 0 ~> j \notin queue
  /\ \A b \in Batches : At(b, "look") ~> At(b, "answered")
=============================================================================
