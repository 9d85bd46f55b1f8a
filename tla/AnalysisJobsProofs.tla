------------------------- MODULE AnalysisJobsProofs -------------------------
(***************************************************************************)
(* Theorems about AnalysisJobs, for every value of its constants.          *)
(***************************************************************************)
EXTENDS AnalysisJobs, SequenceTheorems, FiniteSetTheorems, TLAPS

USE RequestAssumption, WorkerAssumption

LEMMA RequestFacts ==
  ASSUME NEW s \in Requests
  PROVE  /\ Len(s) \in 1..MaxLen
         /\ \A i \in 1..Len(s) : s[i] \in Messages
  <1>1. PICK n \in 1..MaxLen : s \in [1..n -> Messages]
    BY DEF Requests
  <1>2. s \in Seq(Messages)
    BY <1>1, SeqDef
  <1>3. Len(s) = n
    BY <1>1, <1>2, LenProperties
  <1>. QED  BY <1>1, <1>3

-----------------------------------------------------------------------------
(* Type correctness.                                                       *)

\* A run r over the messages s: its position is one of them as long as it is
\* at a message, and behind the last when the task is about to complete.
RunOK(r, s) ==
  /\ IF r.pc = "idle" THEN r = IdleRun ELSE s \in Requests
  /\ r.pc \in PerMessage => r.pos <= Len(s)
  /\ r.pc = "chunk" => r.pos <= Len(s) + 1
  /\ r.pc = "complete" => r.pos = Len(s) + 1
RunsOK == \A a \in Actors : RunOK(run[a], content[a])

\* A task never answers a client, no job is run before it is in the queue, and
\* none is in the middle of a run when its row is finished: it has been run, and
\* is not, or no longer.
JobOK(j) ==
  /\ run[j].pc # "answered"
  /\ run[j].pc # "idle" => tries[j] > 0
  /\ handler[j] # "none" => content[j] \in Requests
  /\ handler[j] \in {"none", "saved"} => j \notin queue /\ row[j].status \notin Finished
  /\ row[j].status \in Finished => run[j].pc \in {"idle", "left"} /\ tries[j] > 0
JobsOK == \A j \in Jobs : JobOK(j)

TInv == TypeOK /\ RunsOK /\ JobsOK

LEMMA RunsType ==
  /\ IdleRun \in Runs
  /\ [IdleRun EXCEPT !.pc = "look"] \in Runs
  /\ \A s : RunOK(IdleRun, s)
  /\ NoRow \in Rows /\ NewRow \in Rows
  BY DEF IdleRun, Runs, Steps, Running, PerMessage, RunOK, NoRow, NewRow, Rows, JobStatus, Finished

LEMMA TInvInit == Init => TInv
  <1>. SUFFICES ASSUME Init  PROVE TInv
    OBVIOUS
  <1>1. TypeOK
    <2>1. Active = {}
      BY DEF Init, Active, IdleRun, Running, PerMessage, Actors
    <2>. QED  BY <2>1, RunsType DEF Init, TypeOK
  <1>2. RunsOK
    BY RunsType DEF Init, RunsOK
  <1>3. JobsOK
    BY DEF Init, JobsOK, JobOK, IdleRun, NoRow, Finished, Actors
  <1>. QED  BY <1>1, <1>2, <1>3 DEF TInv

\* One step of a run at a message: where it stands afterwards.
LEMMA MessageStep ==
  ASSUME TInv, NEW a \in Actors, AnalyseSingle(a)
  PROVE  \E r \in Runs : /\ run' = [run EXCEPT ![a] = r]
                         /\ RunOK(r, content[a])
                         /\ run[a].pc \in PerMessage
                         /\ a \in Jobs => r.pc \in Running
  <1>. DEFINE q == run[a]
              s == content[a]
  <1>0. run \in [Actors -> Runs]
    BY DEF TInv, TypeOK
  <1>1. q \in Runs /\ RunOK(q, s) /\ q.pc \in PerMessage
    BY DEF TInv, TypeOK, RunsOK, AnalyseSingle, NotYetAnalysed, AlreadyAnalysed, InsertAnalysis,
           NoSummary, SummaryUnreadable, InsertSummary, MessageFails, At, PerMessage
  <1>2. s \in Requests /\ Len(s) \in 1..MaxLen /\ Current(a) \in Messages
    <2>1. s \in Requests
      BY <1>1 DEF RunOK, PerMessage
    <2>. QED  BY <1>1, <2>1, RequestFacts DEF RunOK, Current, Runs
  <1>3. ASSUME NEW pc \in PerMessage, Goto(a, pc)
        PROVE  \E r \in Runs : /\ run' = [run EXCEPT ![a] = r]
                               /\ RunOK(r, s) /\ (a \in Jobs => r.pc \in Running)
    <2>1. run' = [run EXCEPT ![a] = [q EXCEPT !.pc = pc]]
      BY <1>3 DEF Goto, TInv, TypeOK
    <2>2. [q EXCEPT !.pc = pc] \in Runs
      BY <1>1 DEF Runs, Steps, Running
    <2>3. RunOK([q EXCEPT !.pc = pc], s) /\ [q EXCEPT !.pc = pc].pc \in Running
      BY <1>1, <1>2 DEF Runs, RunOK, PerMessage, Running
    <2>. QED  BY <2>1, <2>2, <2>3
  <1>4. ASSUME NEW r, run' = [run EXCEPT ![a] = r], r \in Runs,
               r.pc = AfterMessage(a), r.pos = q.pos + 1
        PROVE  RunOK(r, s) /\ (a \in Jobs => r.pc \in Running)
    <2>1. \/ AfterMessage(a) = "answered" /\ a \in Batches
          \/ AfterMessage(a) = "chunk"
          \/ AfterMessage(a) = "look" /\ q.pos # Len(s)
      BY DEF AfterMessage, LastOne
    <2>2. q.pos \in Nat \ {0} /\ q.pos <= Len(s)
      BY <1>1, <1>2 DEF Runs, RunOK
    <2>4. RunOK(r, s)
      BY <1>2, <1>4, <2>1, <2>2 DEF RunOK, PerMessage
    <2>5. a \in Jobs => r.pc \in Running
      BY <1>4, <2>1 DEF Running, PerMessage
    <2>. QED  BY <2>4, <2>5
  <1>5. CASE NotYetAnalysed(a) \/ InsertAnalysis(a) \/ NoSummary(a)
    BY <1>1, <1>3, <1>5 DEF NotYetAnalysed, InsertAnalysis, NoSummary, PerMessage
  <1>. q.pos + 1 \in 1..MaxLen + 1 /\ AfterMessage(a) \in Steps
    BY <1>1, <1>2 DEF Runs, RunOK, AfterMessage, Steps, Running, PerMessage
  <1>6. CASE Failed(a)
    <2>. DEFINE r == [q EXCEPT !.pc = AfterMessage(a), !.pos = q.pos + 1,
                               !.failed = q.failed + 1, !.failedIds = q.failedIds \cup {Current(a)}]
    <2>1. run' = [run EXCEPT ![a] = r]
      BY <1>0, <1>6 DEF Failed
    <2>2. q.failed + 1 \in Nat /\ q.failedIds \cup {Current(a)} \in SUBSET Messages
      BY <1>1, <1>2 DEF Runs
    <2>3. r \in Runs /\ r.pc = AfterMessage(a) /\ r.pos = q.pos + 1
      BY <1>1, <2>2 DEF Runs
    <2>. QED  BY <1>1, <1>4, <2>1, <2>3
  <1>7. CASE Processed(a)
    <2>. DEFINE r == [q EXCEPT !.pc = AfterMessage(a), !.pos = q.pos + 1,
                               !.processed = q.processed + 1]
    <2>1. run' = [run EXCEPT ![a] = r]
      BY <1>0, <1>7 DEF Processed
    <2>2. q.processed + 1 \in Nat
      BY <1>1, <1>2 DEF Runs
    <2>3. r \in Runs /\ r.pc = AfterMessage(a) /\ r.pos = q.pos + 1
      BY <1>1, <2>2 DEF Runs
    <2>. QED  BY <1>1, <1>4, <2>1, <2>3
  <1>. QED
    BY <1>5, <1>6, <1>7 DEF AnalyseSingle, AlreadyAnalysed, SummaryUnreadable, InsertSummary, MessageFails
LEMMA CurrentType ==
  ASSUME TInv, NEW a \in Actors, run[a].pc \in PerMessage
  PROVE  /\ content[a] \in Requests
         /\ run[a].pos \in 1..Len(content[a])
         /\ Current(a) \in Messages
         /\ Sender[Current(a)] \in Senders
  <1>1. content[a] \in Requests /\ run[a].pos \in Nat \ {0} /\ run[a].pos <= Len(content[a])
    BY DEF TInv, TypeOK, RunsOK, RunOK, Runs, PerMessage
  <1>2. Len(content[a]) \in Nat /\ \A i \in 1..Len(content[a]) : content[a][i] \in Messages
    BY <1>1, RequestFacts
  <1>. QED  BY <1>1, <1>2 DEF Current

LEMMA OwnType ==
  ASSUME TInv, NEW a \in Actors, run[a].pc \in PerMessage
  PROVE  Own(a) \in Records
  <1>1. Try(a) \in Nat
    BY DEF TInv, TypeOK, Try
  <1>. QED  BY <1>1, CurrentType DEF Own, Records

LEMMA TInvMessage ==
  ASSUME TInv, NEW a \in Actors, AnalyseSingle(a)
  PROVE  TInv'
  <1>1. PICK r \in Runs : /\ run' = [run EXCEPT ![a] = r]
                          /\ RunOK(r, content[a])
                          /\ run[a].pc \in PerMessage
                          /\ a \in Jobs => r.pc \in Running
    BY MessageStep
  <1>2. UNCHANGED <<apiVars, row, arqVars>>
    BY DEF AnalyseSingle, NotYetAnalysed, AlreadyAnalysed, InsertAnalysis, NoSummary,
           SummaryUnreadable, InsertSummary, MessageFails
  <1>3. analyses' \subseteq Records /\ summaries' \subseteq Records
    <2>1. Own(a) \in Records
      BY <1>1, OwnType
    <2>. QED
      BY <2>1 DEF TInv, TypeOK, dataVars, AnalyseSingle, NotYetAnalysed, AlreadyAnalysed,
                  InsertAnalysis, NoSummary, SummaryUnreadable, InsertSummary, MessageFails
  <1>4. run' \in [Actors -> Runs]
    BY <1>1 DEF TInv, TypeOK
  <1>5. Active' \subseteq queue'
    BY <1>1, <1>2 DEF TInv, TypeOK, Active, arqVars, Running, Actors
  <1>6. TypeOK'
    BY <1>2, <1>3, <1>4, <1>5 DEF TInv, TypeOK, apiVars, arqVars
  <1>7. RunsOK'
    BY <1>1, <1>2 DEF TInv, TypeOK, RunsOK, apiVars
  <1>8. JobsOK'
    <2>. SUFFICES ASSUME NEW j \in Jobs  PROVE JobOK(j)'
      BY DEF JobsOK
    <2>1. JobOK(j) /\ j \in Actors /\ run \in [Actors -> Runs]
      BY DEF TInv, TypeOK, JobsOK, Actors
    <2>2. CASE j = a
      BY <1>1, <1>2, <2>1, <2>2 DEF JobOK, apiVars, arqVars, Running, PerMessage
    <2>3. CASE j # a
      BY <1>1, <1>2, <2>1, <2>3 DEF JobOK, apiVars, arqVars
    <2>. QED  BY <2>2, <2>3
  <1>. QED  BY <1>6, <1>7, <1>8 DEF TInv

LEMMA TInvHandler ==
  ASSUME TInv, NEW j \in Jobs, Handler(j)
  PROVE  TInv'
  <1>. USE RunsType DEF TInv, TypeOK, Active, RunsOK, JobsOK, JobOK, apiVars, arqVars, dataVars, Actors
  <1>1. ASSUME NEW s \in Requests, CreateJob(j, s)
        PROVE  TInv'
    <2>1. run[j].pc = "idle"
      BY <1>1 DEF CreateJob, Runs, Steps
    <2>2. TypeOK'
      BY <1>1 DEF CreateJob
    <2>3. RunsOK'
      BY <1>1, <2>1 DEF CreateJob, RunOK, PerMessage
    <2>4. JobsOK'
      BY <1>1 DEF CreateJob, NewRow, NoRow, Finished
    <2>. QED  BY <2>2, <2>3, <2>4
  <1>2. CASE Enqueue(j)
    BY <1>2 DEF Enqueue
  <1>3. CASE EnqueueFails(j)
    BY <1>3 DEF EnqueueFails
  <1>4. CASE SaveArqId(j)
    BY <1>4 DEF SaveArqId, NewRow, NoRow, Finished
  <1>5. CASE SaveArqIdFails(j)
    BY <1>5 DEF SaveArqIdFails
  <1>. QED  BY <1>1, <1>2, <1>3, <1>4, <1>5 DEF Handler

LEMMA TInvTask ==
  ASSUME TInv, NEW j \in Jobs, TaskStep(j) \/ Arq(j)
  PROVE  TInv'
  <1>. USE RunsType DEF TInv, TypeOK, Active, RunsOK, JobsOK, JobOK, apiVars, arqVars, dataVars, At, Actors
  <1>1. CASE Start(j) \/ StartFails(j)
    <2>1. /\ content[j] \in Requests /\ Len(content[j]) \in 1..MaxLen
          /\ run[j].pc = "idle" /\ j \in queue /\ tries[j] < MaxTries
      <3>1. /\ run[j].pc = "idle" /\ j \in queue /\ tries[j] < MaxTries
            /\ content[j] \in Requests
        BY <1>1 DEF Start, StartFails, Starts, MayStart
      <3>. QED  BY <3>1, RequestFacts
    <2>2. PICK pc \in {"look", "left"} : run' = [run EXCEPT ![j] = [IdleRun EXCEPT !.pc = pc]]
      BY <1>1 DEF Start, StartFails
    <2>3. PICK rw \in Rows : /\ row' = [row EXCEPT ![j] = rw]
                             /\ (rw = row[j] /\ pc = "left") \/ rw.status = "processing"
      <3>. DEFINE on == [row[j] EXCEPT !.status = "processing"]
      <3>1. on \in Rows /\ on.status = "processing" /\ row[j] \in Rows
        BY DEF Rows, JobStatus
      <3>2. row = [row EXCEPT ![j] = row[j]]
        OBVIOUS
      <3>3. CASE Start(j)
        BY <3>1, <3>3 DEF Start
      <3>4. CASE StartFails(j)
        <4>1. pc = "left"
          BY <2>2, <3>4 DEF StartFails, IdleRun
        <4>. QED  BY <3>1, <3>2, <3>4, <4>1 DEF StartFails
      <3>. QED  BY <1>1, <3>3, <3>4
    <2>. DEFINE r == [IdleRun EXCEPT !.pc = pc]
    <2>4. r \in Runs /\ RunOK(r, content[j]) /\ r.pc = pc
      BY <2>1 DEF RunOK, IdleRun, PerMessage, Runs, Steps, Running
    <2>5. UNCHANGED <<apiVars, queue, dataVars>> /\ tries' = [tries EXCEPT ![j] = tries[j] + 1]
      BY <1>1 DEF Start, StartFails, Starts
    <2>6. TypeOK'
      <3>1. row' \in [Jobs -> Rows]
        BY <2>3
      <3>2. run' \in [Actors -> Runs]
        BY <2>2, <2>4
      <3>3. tries' \in [Jobs -> 0..MaxTries]
        BY <2>1, <2>5
      <3>4. Active' \subseteq queue'
        BY <2>1, <2>2, <2>5
      <3>. QED  BY <2>5, <3>1, <3>2, <3>3, <3>4
    <2>7. RunsOK'
      BY <2>2, <2>4, <2>5
    <2>8. JobsOK'
      <3>. SUFFICES ASSUME NEW k \in Jobs  PROVE JobOK(k)'
        OBVIOUS
      <3>1. CASE k = j
        BY <2>1, <2>2, <2>3, <2>4, <2>5, <3>1 DEF Finished
      <3>2. CASE k # j
        BY <2>2, <2>3, <2>5, <3>2
      <3>. QED  BY <3>1, <3>2
    <2>. QED  BY <2>6, <2>7, <2>8
  <1>2. CASE Progress(j)
    <2>. DEFINE next == IF run[j].pos > Len(content[j]) THEN "complete" ELSE "look"
    <2>1. run[j] \in Runs /\ RunOK(run[j], content[j]) /\ run[j].pc = "chunk"
      BY <1>2 DEF Progress
    <2>2. content[j] \in Requests /\ Len(content[j]) \in 1..MaxLen
      BY <2>1, RequestFacts DEF RunOK
    <2>. DEFINE r == [run[j] EXCEPT !.pc = next]
    <2>3. r \in Runs /\ r.pc = next
      BY <2>1 DEF Runs, Steps, Running, PerMessage
    <2>4. RunOK(r, content[j])
      BY <2>1, <2>2, <2>3, SMTT(30) DEF RunOK, PerMessage, Runs
    <2>5. run' = [run EXCEPT ![j] = r]
      BY <1>2 DEF Progress, Goto
    <2>6. j \in queue
      BY <2>1 DEF Running, PerMessage
    <2>7. TypeOK'
      <3>1. row' \in [Jobs -> Rows]
        BY <1>2, <2>1 DEF Progress, Rows, Runs
      <3>2. run' \in [Actors -> Runs]
        BY <2>3, <2>5
      <3>3. queue' = queue
        BY <1>2 DEF Progress
      <3>4. \A k \in Jobs \ {j} : run'[k] = run[k]
        BY <2>5
      <3>5. Active' \subseteq queue'
        BY <2>6, <3>3, <3>4
      <3>. QED  BY <1>2, <3>1, <3>2, <3>5 DEF Progress
    <2>8. RunsOK'
      BY <1>2, <2>4, <2>5 DEF Progress
    <2>9. JobsOK'
      <3>. SUFFICES ASSUME NEW k \in Jobs  PROVE JobOK(k)'
        OBVIOUS
      <3>1. /\ row'[k].status = row[k].status
            /\ UNCHANGED <<handler, content, queue, tries>>
        BY <1>2 DEF Progress, Rows
      <3>2. CASE k = j
        BY <2>1, <2>3, <2>5, <3>1, <3>2 DEF Finished
      <3>3. CASE k # j
        BY <2>5, <3>1, <3>3
      <3>. QED  BY <3>2, <3>3
    <2>. QED  BY <2>7, <2>8, <2>9
  <1>3. ASSUME NEW rw \in Rows, row' = [row EXCEPT ![j] = rw],
               run[j].pc \in Running, Goto(j, "left"), UNCHANGED <<apiVars, arqVars, dataVars>>
        PROVE  TInv'
    <2>. DEFINE r == [run[j] EXCEPT !.pc = "left"]
    <2>1. run' = [run EXCEPT ![j] = r] /\ r \in Runs /\ r.pc = "left" /\ j \in queue
      BY <1>3 DEF Goto, Runs, Steps
    <2>2. content[j] \in Requests /\ RunOK(r, content[j])
      BY <1>3, <2>1 DEF RunOK, Running, PerMessage
    <2>3. TypeOK'
      BY <1>3, <2>1
    <2>4. RunsOK'
      BY <1>3, <2>1, <2>2
    <2>5. JobsOK'
      <3>. SUFFICES ASSUME NEW k \in Jobs  PROVE JobOK(k)'
        OBVIOUS
      <3>1. CASE k = j
        BY <1>3, <2>1, <3>1 DEF Running, PerMessage
      <3>2. CASE k # j
        BY <1>3, <2>1, <3>2
      <3>. QED  BY <3>1, <3>2
    <2>. QED  BY <2>3, <2>4, <2>5
  <1>4. CASE Complete(j)
    <2>1. run[j] \in Runs /\ run[j].pc \in Running
      BY <1>4 DEF Complete, Running
    <2>2. [row[j] EXCEPT !.status = "completed", !.failedIds = run[j].failedIds] \in Rows
      BY <2>1 DEF Rows, Runs, JobStatus, Finished
    <2>. QED  BY <1>3, <1>4, <2>1, <2>2 DEF Complete
  <1>5. CASE Raise(j)
    <2>1. j \in queue
      BY <1>5 DEF Raise, Running, PerMessage
    <2>2. [run[j] EXCEPT !.pc = "fail"] \in Runs
      BY DEF Runs, Steps, Running
    <2>3. run' = [run EXCEPT ![j] = [run[j] EXCEPT !.pc = "fail"]]
      BY <1>5 DEF Raise, Goto
    <2>4. RunOK(run[j], content[j]) /\ run[j].pc # "idle"
      BY <1>5 DEF Raise
    <2>5. RunOK([run[j] EXCEPT !.pc = "fail"], content[j])
      BY <2>4 DEF RunOK, PerMessage, Runs
    <2>6. TypeOK'
      BY <1>5, <2>1, <2>2, <2>3 DEF Raise
    <2>7. RunsOK'
      BY <1>5, <2>3, <2>5 DEF Raise
    <2>8. JobsOK'
      BY <1>5, <2>3 DEF Raise, Runs, PerMessage
    <2>. QED  BY <2>6, <2>7, <2>8
  <1>6. CASE MarkFailed(j)
    <2>1. run[j].pc \in Running
      BY <1>6 DEF MarkFailed, Running
    <2>2. [row[j] EXCEPT !.status = "failed"] \in Rows
      BY DEF Rows, JobStatus, Finished
    <2>. QED  BY <1>3, <1>6, <2>1, <2>2 DEF MarkFailed, Raised
  <1>7. ASSUME run[j].pc \in Running, Goto(j, "left"), UNCHANGED <<apiVars, row, arqVars, dataVars>>
        PROVE  TInv'
    <2>1. row' = [row EXCEPT ![j] = row[j]]
      BY <1>7
    <2>. QED  BY <1>3, <1>7, <2>1
  <1>8. CASE MarkFailedFails(j)
    BY <1>7, <1>8 DEF MarkFailedFails, Raised, Running
  <1>9. CASE TimeLimit(j)
    BY <1>7, <1>9 DEF TimeLimit
  <1>11. CASE Forget(j)
    <2>1. run' = [run EXCEPT ![j] = IdleRun] /\ queue' = queue \ {j}
      BY <1>11 DEF Forget
    <2>2. TypeOK'
      BY <1>11, <2>1 DEF Forget, IdleRun, Running, PerMessage
    <2>3. RunsOK'
      BY <1>11, <2>1 DEF Forget
    <2>4. JobsOK'
      BY <1>11, <2>1 DEF Forget, IdleRun
    <2>. QED  BY <2>2, <2>3, <2>4
  <1>10. CASE GiveUp(j)
    <2>1. Active' \subseteq queue'
      BY <1>10 DEF GiveUp, Running, PerMessage
    <2>. QED  BY <1>10, <2>1 DEF GiveUp
  <1>. QED
    BY <1>1, <1>2, <1>4, <1>5, <1>6, <1>8, <1>9, <1>10, <1>11 DEF TaskStep, Arq

LEMMA TInvNext == TInv /\ [Next]_vars => TInv'
  <1>. SUFFICES ASSUME TInv, [Next]_vars  PROVE TInv'
    OBVIOUS
  <1>. USE RunsType DEF TInv, TypeOK, Active, RunsOK, JobsOK, JobOK, apiVars, arqVars, dataVars, Actors
  <1>1. ASSUME NEW j \in Jobs, Handler(j)  PROVE TInv'
    BY <1>1, TInvHandler
  <1>2. ASSUME NEW j \in Jobs, TaskStep(j) \/ Arq(j)  PROVE TInv'
    BY <1>2, TInvTask
  <1>3. ASSUME NEW b \in Batches, NEW s \in Requests, ReceiveBatch(b, s)
        PROVE  TInv'
    <2>. DEFINE r == [run[b] EXCEPT !.pc = "look"]
    <2>1. run' = [run EXCEPT ![b] = r] /\ b \notin Jobs
      BY <1>3 DEF ReceiveBatch, Goto
    <2>2. RunOK(r, s) /\ r \in Runs
      <3>1. run[b] = IdleRun
        BY <1>3 DEF ReceiveBatch, At, RunOK
      <3>2. Len(s) \in 1..MaxLen
        BY RequestFacts
      <3>. QED  BY <3>1, <3>2 DEF RunOK, IdleRun, PerMessage
    <2>3. TypeOK'
      BY <1>3, <2>1, <2>2 DEF ReceiveBatch
    <2>4. RunsOK'
      BY <1>3, <2>1, <2>2 DEF ReceiveBatch
    <2>5. JobsOK'
      BY <1>3, <2>1 DEF ReceiveBatch
    <2>. QED  BY <2>3, <2>4, <2>5
  <1>4. ASSUME NEW a \in Actors, AnalyseSingle(a)  PROVE TInv'
    BY <1>4, TInvMessage
  <1>5. CASE WorkerStops
    <2>1. TypeOK'
      BY <1>5 DEF WorkerStops, IdleRun, Running, PerMessage
    <2>2. RunsOK'
      BY <1>5 DEF WorkerStops
    <2>3. JobsOK'
      BY <1>5 DEF WorkerStops, IdleRun
    <2>. QED  BY <2>1, <2>2, <2>3
  <1>6. CASE UNCHANGED vars
    BY <1>6 DEF vars
  <1>. QED  BY <1>1, <1>2, <1>3, <1>4, <1>5, <1>6 DEF Next

\* Every reachable state is well typed; in particular every task that is
\* running is still in arq's queue, and none is started more than max_tries
\* times (WorkerSettings).
THEOREM TypeCorrect == Spec => []TypeOK
  <1>1. TInv => TypeOK
    BY DEF TInv
  <1>. QED  BY <1>1, TInvInit, TInvNext, PTL DEF Spec

-----------------------------------------------------------------------------
(* What a completed job stands for.                                        *)

\* The i-th message of a is counted, or is in the run's list of failures.
Settled(a, i) == Counted(content[a][i]) \/ content[a][i] \in run[a].failedIds

\* A run has settled every message before its position; and the aggregates
\* are touched only after the run's own record is there.
RunAcc(a) ==
  /\ run[a].pc \in Running \ {"fail"} =>
       /\ run[a].processed + run[a].failed = run[a].pos - 1
       /\ \A i \in 1..Len(content[a]) : i < run[a].pos => Settled(a, i)
  /\ run[a].pc \in {"readSummary", "writeSummary"} => Own(a) \in analyses

\* The row tells the progress of all messages, or of none, from the last
\* update of the progress on.
Told(j) == row[j].processed + row[j].failed \in {0, Len(content[j])}
Accounted(j) == \A m \in InContent(j) : Counted(m) \/ m \in row[j].failedIds
RowAcc(j) ==
  /\ run[j].pc = "complete" => Told(j)
  /\ row[j].status = "completed" => Told(j) /\ Accounted(j)

AInv ==
  /\ TInv
  /\ \A a \in Actors : RunAcc(a)
  /\ \A j \in Jobs : RowAcc(j)
  /\ summaries \subseteq analyses

LEMMA AInvInit == Init => AInv
  <1>. SUFFICES ASSUME Init  PROVE AInv
    OBVIOUS
  <1>1. TInv
    BY TInvInit
  <1>2. \A a \in Actors : RunAcc(a)
    BY DEF Init, RunAcc, IdleRun, Running, PerMessage
  <1>3. \A j \in Jobs : RowAcc(j)
    BY DEF Init, RowAcc, IdleRun, NoRow, Actors
  <1>4. summaries \subseteq analyses
    BY DEF Init
  <1>. QED  BY <1>1, <1>2, <1>3, <1>4 DEF AInv

\* Records are never deleted.
RecordsGrow == analyses \subseteq analyses' /\ summaries \subseteq summaries'

LEMMA RecordsStay ==
  ASSUME NEW a \in Actors, AnalyseSingle(a)
  PROVE  RecordsGrow /\ UNCHANGED tries
  BY DEF RecordsGrow, dataVars, arqVars, AnalyseSingle, NotYetAnalysed, AlreadyAnalysed,
         InsertAnalysis, NoSummary, SummaryUnreadable, InsertSummary, MessageFails

\* What holds of a run that does not step, and of the row of a job that is
\* left alone, holds on when others add records.
LEMMA RunAccStays ==
  ASSUME TInv, NEW b \in Actors, RunAcc(b), run'[b] = run[b], content'[b] = content[b],
         b \in Jobs => tries'[b] = tries[b], RecordsGrow
  PROVE  RunAcc(b)'
  <1>1. ASSUME NEW i, Settled(b, i)  PROVE Settled(b, i)'
    BY <1>1 DEF Settled, Counted, RecordsGrow
  <1>2. Own(b)' = Own(b)
    BY DEF Own, Try, Current
  <1>. QED  BY <1>1, <1>2 DEF RunAcc, RecordsGrow

LEMMA RowAccStays ==
  ASSUME NEW j \in Jobs, RowAcc(j), row'[j] = row[j], content'[j] = content[j],
         run'[j].pc = "complete" => run[j].pc = "complete", RecordsGrow
  PROVE  RowAcc(j)'
  <1>1. Accounted(j) => Accounted(j)'
    BY DEF Accounted, InContent, Counted, RecordsGrow
  <1>. QED  BY <1>1 DEF RowAcc, Told

LEMMA AInvMessage ==
  ASSUME AInv, NEW a \in Actors, AnalyseSingle(a)
  PROVE  AInv'
  <1>1. TInv /\ TInv'
    BY TInvMessage DEF AInv
  <1>2. RecordsGrow /\ UNCHANGED tries
    BY RecordsStay
  <1>3. /\ run[a].pc \in PerMessage
        /\ \A b \in Actors \ {a} : run'[b] = run[b]
        /\ run'[a].pc # "complete"
    <2>1. run[a].pc \in PerMessage
      BY DEF AnalyseSingle, NotYetAnalysed, AlreadyAnalysed, InsertAnalysis, NoSummary,
             SummaryUnreadable, InsertSummary, MessageFails, At, PerMessage
    <2>2. run \in [Actors -> Runs]
      BY <1>1 DEF TInv, TypeOK
    <2>3. CASE \E pc \in PerMessage : Goto(a, pc)
      BY <2>1, <2>2, <2>3 DEF Goto, PerMessage
    <2>4. CASE Failed(a) \/ Processed(a)
      <3>1. AfterMessage(a) # "complete"
        BY DEF AfterMessage
      <3>2. run[a] \in Runs
        BY <2>2
      <3>3. run'[a].pc = AfterMessage(a) /\ \A b \in Actors \ {a} : run'[b] = run[b]
        BY <2>2, <2>4, <3>2 DEF Failed, Processed, Runs
      <3>. QED  BY <2>1, <3>1, <3>3
    <2>. QED  BY <2>1, <2>3, <2>4
      DEF AnalyseSingle, NotYetAnalysed, AlreadyAnalysed, InsertAnalysis, NoSummary,
          SummaryUnreadable, InsertSummary, MessageFails, PerMessage
  <1>4. content' = content /\ row' = row
    BY DEF AnalyseSingle, NotYetAnalysed, AlreadyAnalysed, InsertAnalysis, NoSummary,
           SummaryUnreadable, InsertSummary, MessageFails, apiVars
  <1>. DEFINE q == run[a]
              s == content[a]
  <1>5. /\ q \in Runs /\ s \in Requests /\ q.pos \in 1..Len(s) /\ Len(s) \in Nat
        /\ Current(a) \in Messages /\ Sender[Current(a)] \in Senders
        /\ \A i \in 1..Len(s) : s[i] \in Messages
        /\ RunAcc(a) /\ run \in [Actors -> Runs]
    BY <1>1, <1>3, CurrentType, RequestFacts DEF AInv, TInv, TypeOK
  <1>6. /\ q.processed + q.failed = q.pos - 1
        /\ \A i \in 1..Len(s) : i < q.pos => Settled(a, i)
    BY <1>3, <1>5 DEF RunAcc, Running, PerMessage
  <1>7. ASSUME \/ Failed(a)
               \/ Processed(a) /\ Own(a) \in summaries'
        PROVE  RunAcc(a)'
    <2>1. /\ run'[a].pos = q.pos + 1
          /\ run'[a].pc = AfterMessage(a)
          /\ q.failedIds \subseteq run'[a].failedIds
          /\ run'[a].processed + run'[a].failed = q.processed + q.failed + 1
          /\ (\E r \in summaries' : r.of = Current(a)) \/ Current(a) \in run'[a].failedIds
      <3>1. CASE Failed(a)
        BY <1>5, <3>1 DEF Failed, Runs
      <3>2. CASE Processed(a) /\ Own(a) \in summaries'
        <4>1. Own(a).of = Current(a)
          BY DEF Own
        <4>2. \E r \in summaries' : r.of = Current(a)
          BY <3>2, <4>1, Zenon
        <4>3. run' = [run EXCEPT ![a] = [q EXCEPT !.pc = AfterMessage(a), !.pos = q.pos + 1,
                                                  !.processed = q.processed + 1]]
          BY <1>5, <3>2 DEF Processed
        <4>. QED  BY <1>5, <4>2, <4>3 DEF Runs
      <3>. QED  BY <1>7, <3>1, <3>2
    <2>2. run'[a].processed + run'[a].failed = run'[a].pos - 1
      BY <1>5, <1>6, <2>1 DEF Runs
    <2>3. ASSUME NEW i \in 1..Len(s), i < run'[a].pos
          PROVE  Settled(a, i)'
      <3>1. s[i] \in Messages
        BY <1>5
      <3>2. Settled(a, i) \/ s[i] = Current(a)
        BY <1>5, <1>6, <2>1, <2>3 DEF Current
      <3>. QED  BY <1>2, <1>4, <1>5, <2>1, <3>1, <3>2 DEF Settled, Counted, RecordsGrow
    <2>4. run'[a].pc \notin {"readSummary", "writeSummary"}
      BY <2>1 DEF AfterMessage
    <2>. QED  BY <1>4, <2>2, <2>3, <2>4 DEF RunAcc
  <1>8. ASSUME NEW pc \in PerMessage, Goto(a, pc),
               pc \in {"readSummary", "writeSummary"} => Own(a) \in analyses'
        PROVE  RunAcc(a)'
    <2>1. /\ run'[a].pc = pc /\ run'[a].pos = q.pos /\ run'[a].failedIds = q.failedIds
          /\ run'[a].processed = q.processed /\ run'[a].failed = q.failed
      BY <1>5, <1>8 DEF Goto, Runs
    <2>2. ASSUME NEW i \in 1..Len(s), i < q.pos  PROVE Settled(a, i)'
      <3>1. s[i] \in Messages /\ Settled(a, i)
        BY <1>5, <1>6, <2>2
      <3>. QED  BY <1>2, <1>4, <1>5, <2>1, <3>1 DEF Settled, Counted, RecordsGrow
    <2>3. Own(a)' = Own(a)
      BY <1>2, <1>4, <2>1 DEF Current, Own, Try
    <2>. QED  BY <1>4, <1>6, <1>8, <2>1, <2>2, <2>3 DEF RunAcc
  <1>9. RunAcc(a)'
    <2>1. CASE NotYetAnalysed(a)
      BY <1>8, <2>1 DEF NotYetAnalysed, PerMessage
    <2>2. CASE InsertAnalysis(a)
      <3>1. Own(a) \in analyses'
        BY <2>2 DEF InsertAnalysis
      <3>. QED  BY <1>8, <2>2, <3>1 DEF InsertAnalysis, PerMessage
    <2>3. CASE NoSummary(a)
      <3>1. Own(a) \in analyses'
        BY <1>5, <2>3 DEF NoSummary, At, RunAcc, dataVars
      <3>. QED  BY <1>8, <2>3, <3>1 DEF NoSummary, PerMessage
    <2>4. CASE InsertSummary(a)
      BY <1>7, <2>4 DEF InsertSummary
    <2>5. CASE AlreadyAnalysed(a) \/ SummaryUnreadable(a) \/ MessageFails(a)
      BY <1>7, <2>5 DEF AlreadyAnalysed, SummaryUnreadable, MessageFails
    <2>. QED  BY <2>1, <2>2, <2>3, <2>4, <2>5 DEF AnalyseSingle
  <1>10. ASSUME NEW b \in Actors  PROVE RunAcc(b)'
    <2>1. CASE b = a
      BY <1>9, <2>1
    <2>2. CASE b # a
      BY <1>1, <1>2, <1>3, <1>4, <2>2, RunAccStays DEF AInv
    <2>. QED  BY <2>1, <2>2
  <1>11. ASSUME NEW j \in Jobs  PROVE RowAcc(j)'
    <2>1. run'[j].pc = "complete" => run[j].pc = "complete"
      BY <1>3 DEF Actors
    <2>. QED  BY <1>1, <1>2, <1>4, <2>1, RowAccStays DEF AInv
  <1>12. summaries' \subseteq analyses'
    <2>1. CASE UNCHANGED summaries
      BY <1>2, <2>1 DEF AInv, RecordsGrow
    <2>2. CASE InsertSummary(a)
      <3>1. Own(a) \in analyses
        BY <1>5, <2>2 DEF InsertSummary, At, RunAcc
      <3>. QED  BY <2>2, <3>1 DEF AInv, InsertSummary
    <2>. QED
      BY <2>1, <2>2 DEF dataVars, AnalyseSingle, NotYetAnalysed, AlreadyAnalysed, InsertAnalysis,
                        NoSummary, SummaryUnreadable, MessageFails
  <1>. QED  BY <1>1, <1>10, <1>11, <1>12 DEF AInv

\* A job's own step that neither reads nor writes the records: everything of
\* the others stays as it is.
LEMMA AInvJobStep ==
  ASSUME AInv, TInv', NEW j \in Jobs, UNCHANGED dataVars,
         \A b \in Actors \ {j} : run'[b] = run[b] /\ content'[b] = content[b],
         \A k \in Jobs \ {j} : tries'[k] = tries[k],
         \A k \in Jobs \ {j} : row'[k] = row[k],
         RunAcc(j)', RowAcc(j)'
  PROVE  AInv'
  <1>1. TInv /\ RecordsGrow
    BY DEF AInv, RecordsGrow, dataVars
  <1>2. \A b \in Actors : RunAcc(b)'
    <2>. SUFFICES ASSUME NEW b \in Actors, b # j  PROVE RunAcc(b)'
      OBVIOUS
    <2>. QED  BY <1>1, RunAccStays DEF AInv
  <1>3. \A k \in Jobs : RowAcc(k)'
    <2>. SUFFICES ASSUME NEW k \in Jobs, k # j  PROVE RowAcc(k)'
      OBVIOUS
    <2>. QED  BY <1>1, RowAccStays DEF AInv, Actors
  <1>4. summaries' \subseteq analyses'
    BY DEF AInv, dataVars
  <1>. QED  BY <1>2, <1>3, <1>4 DEF AInv

LEMMA AInvHandler ==
  ASSUME AInv, NEW j \in Jobs, Handler(j)
  PROVE  AInv'
  <1>1. TInv /\ TInv'
    BY TInvHandler DEF AInv
  <1>2. RunAcc(j) /\ RowAcc(j) /\ j \in Actors /\ JobOK(j)
    BY DEF AInv, TInv, JobsOK, Actors
  <1>3. ASSUME NEW s \in Requests, CreateJob(j, s)
        PROVE  AInv'
    <2>1. run[j].pc = "idle"
      BY <1>1, <1>2, <1>3 DEF CreateJob, TInv, TypeOK, Active, JobOK, Runs, Steps
    <2>2. RunAcc(j)'
      BY <1>3, <2>1 DEF CreateJob, RunAcc, Running, PerMessage
    <2>3. row'[j] = NewRow
      BY <1>1, <1>3 DEF CreateJob, TInv, TypeOK
    <2>4. RowAcc(j)'
      BY <1>3, <2>1, <2>3 DEF CreateJob, RowAcc, NewRow, NoRow
    <2>. QED  BY <1>1, <1>2, <1>3, <2>2, <2>4, AInvJobStep DEF CreateJob, arqVars, TInv, TypeOK
  <1>4. CASE SaveArqId(j)
    <2>1. RunAcc(j)'
      BY <1>2, <1>4 DEF SaveArqId, RunAcc, Settled, Counted, Own, Try, Current, apiVars, arqVars, dataVars
    <2>2. row'[j] = NewRow
      BY <1>1, <1>4 DEF SaveArqId, TInv, TypeOK
    <2>3. RowAcc(j)'
      BY <2>2 DEF RowAcc, Told, NewRow, NoRow
    <2>. QED  BY <1>1, <1>2, <1>4, <2>1, <2>3, AInvJobStep DEF SaveArqId, apiVars, arqVars, TInv, TypeOK
  <1>5. ASSUME UNCHANGED <<content, row, run, tries, dataVars>>
        PROVE  AInv'
    <2>1. RunAcc(j)'
      BY <1>2, <1>5 DEF RunAcc, Settled, Counted, Own, Try, Current, dataVars
    <2>2. RowAcc(j)'
      BY <1>2, <1>5 DEF RowAcc, Told, Accounted, Counted, InContent, dataVars
    <2>. QED  BY <1>1, <1>5, <2>1, <2>2, AInvJobStep
  <1>. QED
    BY <1>3, <1>4, <1>5 DEF Handler, Enqueue, EnqueueFails, SaveArqIdFails, arqVars

LEMMA AInvTask ==
  ASSUME AInv, NEW j \in Jobs, TaskStep(j) \/ Arq(j)
  PROVE  AInv'
  <1>1. TInv /\ TInv'
    BY TInvTask DEF AInv
  <1>2. /\ RunAcc(j) /\ RowAcc(j) /\ j \in Actors /\ JobOK(j)
        /\ run[j] \in Runs /\ RunOK(run[j], content[j])
        /\ row \in [Jobs -> Rows] /\ run \in [Actors -> Runs] /\ tries \in [Jobs -> 0..MaxTries]
    BY DEF AInv, TInv, TypeOK, RunsOK, JobsOK, Actors
  <1>3. /\ UNCHANGED <<content, dataVars>>
        /\ \A k \in Jobs \ {j} : tries'[k] = tries[k]
    BY <1>2 DEF TaskStep, Arq, Start, StartFails, Starts, Progress, Complete, Raise, MarkFailed,
                MarkFailedFails, TimeLimit, Forget, GiveUp, apiVars, arqVars, dataVars
  <1>4. CASE Start(j) \/ StartFails(j)
    <2>1. PICK pc \in {"look", "left"} : run' = [run EXCEPT ![j] = [IdleRun EXCEPT !.pc = pc]]
      BY <1>4 DEF Start, StartFails
    <2>2. run'[j] = [IdleRun EXCEPT !.pc = pc] /\ run'[j].pc = pc
      BY <1>2, <2>1 DEF IdleRun
    <2>3. RunAcc(j)'
      BY <2>2 DEF RunAcc, IdleRun, Running, PerMessage
    <2>4. /\ \A k \in Jobs \ {j} : row'[k] = row[k]
          /\ row'[j] = row[j] \/ row'[j].status = "processing"
      BY <1>2, <1>4 DEF Start, StartFails, Rows
    <2>5. RowAcc(j)'
      BY <1>2, <1>3, <2>2, <2>4 DEF RowAcc, Told, Accounted, Counted, InContent, dataVars
    <2>. QED  BY <1>1, <1>2, <1>3, <2>1, <2>3, <2>4, <2>5, AInvJobStep
  <1>5. CASE Progress(j)
    <2>. DEFINE next == IF run[j].pos > Len(content[j]) THEN "complete" ELSE "look"
    <2>1. run'[j] = [run[j] EXCEPT !.pc = next] /\ run[j].pc = "chunk"
      BY <1>2, <1>5 DEF Progress, Goto, At
    <2>2. row'[j] = [row[j] EXCEPT !.processed = run[j].processed, !.failed = run[j].failed]
      BY <1>2, <1>5 DEF Progress
    <2>3. RunAcc(j)'
      BY <1>2, <1>3, <2>1 DEF RunAcc, Settled, Counted, Runs, Running, PerMessage, dataVars
    <2>4. content[j] \in Requests /\ Len(content[j]) \in Nat
      BY <1>2, <2>1, RequestFacts DEF RunOK
    <2>5. next = "complete" => run[j].processed + run[j].failed = Len(content[j])
      BY <1>2, <2>1, <2>4 DEF RunAcc, RunOK, Runs, Running
    <2>6. /\ row'[j].processed = run[j].processed /\ row'[j].failed = run[j].failed
          /\ row'[j].status = row[j].status
      BY <1>2, <2>2 DEF Rows
    <2>7. row[j].status # "completed"
      BY <1>2, <2>1 DEF JobOK, Finished
    <2>8. run'[j].pc = next
      BY <1>2, <2>1 DEF Runs
    <2>9. RowAcc(j)'
      BY <1>3, <2>5, <2>6, <2>7, <2>8 DEF RowAcc, Told
    <2>. QED  BY <1>1, <1>2, <1>3, <1>5, <2>3, <2>9, AInvJobStep DEF Progress, Goto
  <1>6. ASSUME Goto(j, "left"), \A k \in Jobs \ {j} : row'[k] = row[k], RowAcc(j)'
        PROVE  AInv'
    <2>1. run' = [run EXCEPT ![j] = [run[j] EXCEPT !.pc = "left"]] /\ run'[j].pc = "left"
      BY <1>2, <1>6 DEF Goto, Runs
    <2>2. RunAcc(j)'
      BY <2>1 DEF RunAcc, Running, PerMessage
    <2>. QED  BY <1>1, <1>2, <1>3, <1>6, <2>1, <2>2, AInvJobStep
  <1>7. CASE Complete(j)
    <2>1. run[j].pc = "complete" /\ run'[j].pc = "left"
      BY <1>2, <1>7 DEF Complete, Goto, At, Runs
    <2>2. /\ row'[j].status = "completed" /\ row'[j].failedIds = run[j].failedIds
          /\ row'[j].processed = row[j].processed /\ row'[j].failed = row[j].failed
      BY <1>2, <1>7 DEF Complete, Rows
    <2>3. Told(j)'
      BY <1>2, <1>3, <2>1, <2>2 DEF RowAcc, Told
    <2>4. Accounted(j)'
      <3>1. content[j] \in Requests /\ Len(content[j]) \in Nat /\ run[j].pos = Len(content[j]) + 1
        BY <1>2, <2>1, RequestFacts DEF RunOK
      <3>2. \A i \in 1..Len(content[j]) : Settled(j, i)
        BY <1>2, <2>1, <3>1 DEF RunAcc, Running
      <3>. QED  BY <1>3, <2>2, <3>2 DEF Accounted, InContent, Settled, Counted, dataVars
    <2>5. RowAcc(j)'
      BY <2>1, <2>3, <2>4 DEF RowAcc
    <2>. QED  BY <1>2, <1>6, <1>7, <2>5 DEF Complete
  <1>8. CASE Raise(j)
    <2>1. run'[j] = [run[j] EXCEPT !.pc = "fail"] /\ row' = row
      BY <1>2, <1>8 DEF Raise, Goto
    <2>2. run'[j].pc = "fail"
      BY <1>2, <2>1 DEF Runs
    <2>3. RunAcc(j)'
      BY <2>2 DEF RunAcc
    <2>4. RowAcc(j)'
      BY <1>2, <1>3, <2>1, <2>2 DEF RowAcc, Told, Accounted, Counted, InContent, dataVars
    <2>. QED  BY <1>1, <1>2, <1>3, <1>8, <2>3, <2>4, AInvJobStep DEF Raise, Goto
  <1>9. CASE MarkFailed(j)
    <2>1. row'[j].status = "failed" /\ run'[j].pc = "left"
      BY <1>2, <1>9 DEF MarkFailed, Raised, Goto, Rows, Runs
    <2>2. RowAcc(j)'
      BY <2>1 DEF RowAcc
    <2>. QED  BY <1>2, <1>6, <1>9, <2>2 DEF MarkFailed, Raised
  <1>10. CASE MarkFailedFails(j) \/ TimeLimit(j)
    <2>1. row' = row /\ Goto(j, "left")
      BY <1>10 DEF MarkFailedFails, TimeLimit, Raised
    <2>2. run'[j].pc = "left"
      BY <1>2, <2>1 DEF Goto, Runs
    <2>3. RowAcc(j)'
      BY <1>2, <1>3, <2>1, <2>2 DEF RowAcc, Told, Accounted, Counted, InContent, dataVars
    <2>. QED  BY <1>6, <2>1, <2>3
  <1>11. CASE Forget(j)
    <2>1. run' = [run EXCEPT ![j] = IdleRun] /\ run'[j] = IdleRun /\ row' = row
      BY <1>2, <1>11 DEF Forget
    <2>2. RunAcc(j)'
      BY <2>1 DEF RunAcc, IdleRun, Running, PerMessage
    <2>3. RowAcc(j)'
      BY <1>2, <1>3, <2>1 DEF RowAcc, Told, Accounted, Counted, InContent, IdleRun, dataVars
    <2>. QED  BY <1>1, <1>2, <1>3, <2>1, <2>2, <2>3, AInvJobStep
  <1>12. CASE GiveUp(j)
    <2>1. UNCHANGED <<run, row, tries>>
      BY <1>12 DEF GiveUp
    <2>2. RunAcc(j)'
      BY <1>2, <1>3, <2>1 DEF RunAcc, Settled, Counted, Own, Try, Current, dataVars
    <2>3. RowAcc(j)'
      BY <1>2, <1>3, <2>1 DEF RowAcc, Told, Accounted, Counted, InContent, dataVars
    <2>. QED  BY <1>1, <1>3, <2>1, <2>2, <2>3, AInvJobStep
  <1>. QED
    BY <1>4, <1>5, <1>7, <1>8, <1>9, <1>10, <1>11, <1>12 DEF TaskStep, Arq

LEMMA AInvNext == AInv /\ [Next]_vars => AInv'
  <1>. SUFFICES ASSUME AInv, [Next]_vars  PROVE AInv'
    OBVIOUS
  <1>1. TInv /\ TInv'
    BY TInvNext DEF AInv
  <1>2. ASSUME NEW b \in Batches, NEW s \in Requests, ReceiveBatch(b, s)
        PROVE  AInv'
    <2>1. run[b] = IdleRun /\ b \notin Jobs /\ run \in [Actors -> Runs]
      BY <1>1, <1>2 DEF ReceiveBatch, At, TInv, TypeOK, RunsOK, RunOK, Actors
    <2>2. run' = [run EXCEPT ![b] = [IdleRun EXCEPT !.pc = "look"]]
      BY <1>2, <2>1 DEF ReceiveBatch, Goto
    <2>3. UNCHANGED <<row, dataVars>> /\ \A a \in Actors \ {b} : content'[a] = content[a] /\ run'[a] = run[a]
      BY <1>1, <1>2, <2>2 DEF ReceiveBatch, TInv, TypeOK
    <2>4. RecordsGrow /\ UNCHANGED tries
      BY <1>2, <2>3 DEF RecordsGrow, dataVars, ReceiveBatch, arqVars
    <2>5. RunAcc(b)'
      <3>1. run'[b] = [IdleRun EXCEPT !.pc = "look"]
        BY <2>1, <2>2 DEF Actors
      <3>. QED  BY <3>1 DEF RunAcc, IdleRun
    <2>6. \A a \in Actors : RunAcc(a)'
      <3>. SUFFICES ASSUME NEW a \in Actors, a # b  PROVE RunAcc(a)'
        BY <2>5
      <3>. QED  BY <1>1, <2>3, <2>4, RunAccStays DEF AInv
    <2>7. \A j \in Jobs : RowAcc(j)'
      <3>. SUFFICES ASSUME NEW j \in Jobs  PROVE RowAcc(j)'
        OBVIOUS
      <3>. QED  BY <1>1, <2>1, <2>3, <2>4, RowAccStays DEF AInv, Actors
    <2>8. summaries' \subseteq analyses'
      BY <2>3 DEF AInv, dataVars
    <2>. QED  BY <1>1, <2>6, <2>7, <2>8 DEF AInv
  <1>3. CASE WorkerStops
    <2>1. UNCHANGED <<content, row, dataVars>> /\ run \in [Actors -> Runs]
      BY <1>1, <1>3 DEF WorkerStops, apiVars, TInv, TypeOK
    <2>2. \A a \in Actors : run'[a] = IdleRun \/ run'[a] = run[a]
      BY <1>3 DEF WorkerStops
    <2>3. RecordsGrow /\ UNCHANGED tries
      BY <1>3, <2>1 DEF RecordsGrow, dataVars, WorkerStops, arqVars
    <2>4. ASSUME NEW a \in Actors  PROVE RunAcc(a)'
      <3>1. CASE run'[a] = IdleRun
        BY <3>1 DEF RunAcc, IdleRun, Running, PerMessage
      <3>2. CASE run'[a] = run[a]
        BY <1>1, <2>1, <2>3, <3>2, RunAccStays DEF AInv
      <3>. QED  BY <2>2, <3>1, <3>2
    <2>5. ASSUME NEW j \in Jobs  PROVE RowAcc(j)'
      <3>1. run'[j].pc = "complete" => run[j].pc = "complete"
        BY <2>2 DEF Actors, IdleRun
      <3>. QED  BY <1>1, <2>1, <2>3, <3>1, RowAccStays DEF AInv
    <2>6. summaries' \subseteq analyses'
      BY <2>1 DEF AInv, dataVars
    <2>. QED  BY <1>1, <2>4, <2>5, <2>6 DEF AInv
  <1>4. CASE UNCHANGED vars
    <2>1. UNCHANGED <<content, row, run, tries, dataVars>>
      BY <1>4 DEF vars, apiVars, arqVars
    <2>2. RecordsGrow
      BY <2>1 DEF RecordsGrow, dataVars
    <2>3. \A a \in Actors : RunAcc(a)'
      BY <1>1, <2>1, <2>2, RunAccStays DEF AInv
    <2>4. \A j \in Jobs : RowAcc(j)'
      BY <1>1, <2>1, <2>2, RowAccStays DEF AInv
    <2>5. summaries' \subseteq analyses'
      BY <2>1 DEF AInv, dataVars
    <2>. QED  BY <1>1, <2>3, <2>4, <2>5 DEF AInv
  <1>. QED
    BY <1>2, <1>3, <1>4, AInvHandler, AInvTask, AInvMessage DEF Next

\* Whatever was cancelled, started again or done by others meanwhile, every
\* message of a completed job has an analysis or is listed as failed
\* (analyze_batch_task).
THEOREM CompletedAccounts == Spec => []CompletedIsAccounted
  <1>1. AInv => CompletedIsAccounted
    BY DEF AInv, RowAcc, Accounted, CompletedIsAccounted
  <1>. QED  BY <1>1, AInvInit, AInvNext, PTL DEF Spec

\* The progress of a completed job is that of all its messages, or of none
\* where the handler's second save came last (analyze_batch_task, create_job).
THEOREM CompletedTells == Spec => []CompletedProgress
  <1>1. AInv => CompletedProgress
    BY DEF AInv, RowAcc, Told, CompletedProgress
  <1>. QED  BY <1>1, AInvInit, AInvNext, PTL DEF Spec

\* Once the handler is done, the row of a finished job changes only where a
\* worker stopped before arq had forgotten the job and a further try begins:
\* no other step of a task finds its row finished (analyze_batch_task, arq).
THEOREM FinishedRests == Spec => FinishedIsLeftAlone
  <1>. DEFINE Rests(j) == \/ row'[j] = row[j]
                          \/ /\ tries[j] > 0 /\ tries'[j] = tries[j] + 1
                             /\ row'[j] = [row[j] EXCEPT !.status = "processing"]
              Left == \A j \in Jobs :
                handler[j] = "returned" /\ row[j].status \in Finished => Rests(j)
  <1>1. TInv /\ [Next]_vars => [Left]_vars
    <2>. SUFFICES ASSUME TInv, [Next]_vars,
                         NEW j \in Jobs, handler[j] = "returned", row[j].status \in Finished
                  PROVE  Rests(j)
      OBVIOUS
    <2>1. /\ run[j].pc \in {"idle", "left"} /\ tries[j] > 0
          /\ row \in [Jobs -> Rows] /\ tries \in [Jobs -> 0..MaxTries]
      BY DEF TInv, TypeOK, JobsOK, JobOK
    <2>2. ASSUME NEW k \in Jobs, Handler(k)  PROVE row'[j] = row[j]
      BY <2>1, <2>2 DEF Handler, CreateJob, Enqueue, EnqueueFails, SaveArqId, SaveArqIdFails
    <2>3. ASSUME NEW k \in Jobs, TaskStep(k)  PROVE row'[j] = row[j]
      BY <2>1, <2>3 DEF TaskStep, Progress, Complete, Raise, MarkFailed, MarkFailedFails, At
    <2>4. ASSUME NEW k \in Jobs, Arq(k)  PROVE Rests(j)
      <3>1. CASE k = j /\ (Start(k) \/ StartFails(k))
        BY <2>1, <3>1 DEF Start, StartFails, Starts
      <3>2. CASE k # j /\ (Start(k) \/ StartFails(k))
        BY <2>1, <3>2 DEF Start, StartFails
      <3>. QED  BY <2>4, <3>1, <3>2 DEF Arq, TimeLimit, Forget, GiveUp
    <2>5. CASE UNCHANGED row
      BY <2>5
    <2>6. ASSUME NEW a \in Actors, AnalyseSingle(a)  PROVE UNCHANGED row
      BY <2>6 DEF AnalyseSingle, NotYetAnalysed, AlreadyAnalysed, InsertAnalysis, NoSummary,
                  SummaryUnreadable, InsertSummary, MessageFails
    <2>. QED  BY <2>2, <2>3, <2>4, <2>5, <2>6 DEF Next, ReceiveBatch, WorkerStops, vars
  <1>. QED  BY <1>1, TInvInit, TInvNext, PTL DEF Spec, FinishedIsLeftAlone

-----------------------------------------------------------------------------
(* How many records of a message, and summaries of a sender, there can be.  *)
(* Both are written after a look that found none, so the runs that write     *)
(* one are those that were waiting to when the first was written, and they   *)
(* were all under way at the time.                                           *)

\* The runs behind the records recs, each with one, and those that wait to
\* write a further one, together are no more than fit beside each other.
Makers(recs) == {r.by : r \in recs}
Bounded(recs, waiting) ==
  /\ \A q, r \in recs : q.by = r.by => q = r
  /\ Makers(recs) \cap waiting = {}
  /\ Cardinality(Makers(recs) \cup waiting) <= RunsAtOnce

Inserting(m) == {a \in Actors : run[a].pc = "insert" /\ Current(a) = m}
Summarising(s) == {a \in Actors : run[a].pc = "writeSummary" /\ Sender[Current(a)] = s}

RecInv ==
  /\ AInv
  /\ Cardinality(Active) <= MaxJobs
  /\ \A m \in Messages : Bounded(AnalysesOf(m), Inserting(m))
  /\ \A s \in Senders : Bounded(SummariesOf(s), Summarising(s))

LEMMA ActorsFinite ==
  /\ IsFiniteSet(Actors) /\ Cardinality(Batches) \in Nat /\ RunsAtOnce \in Nat
  /\ \A recs \in SUBSET Records : Makers(recs) \subseteq Actors
  <1>1. IsFiniteSet(Actors) /\ Cardinality(Batches) \in Nat
    BY FS_Union, FS_CardinalityType DEF Actors
  <1>2. RunsAtOnce \in Nat
    BY <1>1 DEF RunsAtOnce
  <1>3. \A recs \in SUBSET Records : Makers(recs) \subseteq Actors
    BY DEF Makers, Records
  <1>. QED  BY <1>1, <1>2, <1>3

\* The same records, and no run more that waits.
LEMMA BoundedOn ==
  ASSUME NEW recs \in SUBSET Records, NEW old \in SUBSET Actors, NEW new \in SUBSET old,
         Bounded(recs, old)
  PROVE  Bounded(recs, new)
  <1>1. IsFiniteSet(Makers(recs) \cup old)
    BY ActorsFinite, FS_Subset
  <1>2. Cardinality(Makers(recs) \cup new) <= Cardinality(Makers(recs) \cup old)
    BY <1>1, FS_Subset
  <1>3. /\ Cardinality(Makers(recs) \cup new) \in Nat
        /\ Cardinality(Makers(recs) \cup old) \in Nat
    <2>1. IsFiniteSet(Makers(recs) \cup new)
      BY <1>1, FS_Subset
    <2>. QED  BY <1>1, <2>1, FS_CardinalityType
  <1>4. Cardinality(Makers(recs) \cup new) <= RunsAtOnce
    BY <1>2, <1>3, ActorsFinite DEF Bounded
  <1>. QED  BY <1>4 DEF Bounded

\* No record yet: whoever waits is one of the runs that are under way.
LEMMA BoundedByRuns ==
  ASSUME NEW active \in SUBSET Jobs, Cardinality(active) <= MaxJobs,
         NEW waiting \in SUBSET (active \cup Batches)
  PROVE  Bounded({}, waiting)
  <1>1. IsFiniteSet(active) /\ Cardinality(active) \in Nat
    BY FS_Subset, FS_CardinalityType
  <1>2. /\ IsFiniteSet(active \cup Batches)
        /\ Cardinality(active \cup Batches) = Cardinality(active) + Cardinality(Batches)
    <2>1. active \cap Batches = {}
      OBVIOUS
    <2>2. Cardinality(active \cap Batches) = 0
      BY <2>1, FS_EmptySet
    <2>3. /\ IsFiniteSet(active \cup Batches)
          /\ Cardinality(active \cup Batches) =
               Cardinality(active) + Cardinality(Batches) - Cardinality(active \cap Batches)
      BY <1>1, FS_Union
    <2>. QED  BY <1>1, <2>2, <2>3, ActorsFinite
  <1>3. Cardinality(waiting) \in Nat /\ Cardinality(waiting) <= Cardinality(active \cup Batches)
    BY <1>2, FS_Subset, FS_CardinalityType
  <1>4. Cardinality(waiting) <= RunsAtOnce
    BY <1>1, <1>2, <1>3, ActorsFinite DEF RunsAtOnce
  <1>5. Makers({}) = {}
    BY DEF Makers
  <1>6. Makers({}) \cup waiting = waiting
    BY <1>5
  <1>. QED  BY <1>4, <1>5, <1>6 DEF Bounded

\* A run that waited writes its record.
LEMMA BoundedMore ==
  ASSUME NEW recs \in SUBSET Records, NEW old \in SUBSET Actors, NEW r \in Records,
         r.by \in old, NEW new \in SUBSET (old \ {r.by}), Bounded(recs, old)
  PROVE  Bounded(recs \cup {r}, new)
  <1>1. Makers(recs \cup {r}) = Makers(recs) \cup {r.by}
    BY DEF Makers
  <1>2. Makers(recs \cup {r}) \cup new \subseteq Makers(recs) \cup old
    BY <1>1
  <1>3. IsFiniteSet(Makers(recs) \cup old)
    BY ActorsFinite, FS_Subset
  <1>4. /\ Cardinality(Makers(recs \cup {r}) \cup new) \in Nat
        /\ Cardinality(Makers(recs) \cup old) \in Nat
        /\ Cardinality(Makers(recs \cup {r}) \cup new) <= Cardinality(Makers(recs) \cup old)
    <2>1. IsFiniteSet(Makers(recs \cup {r}) \cup new)
      BY <1>2, <1>3, FS_Subset
    <2>. QED  BY <1>2, <1>3, <2>1, FS_Subset, FS_CardinalityType
  <1>5. Cardinality(Makers(recs \cup {r}) \cup new) <= RunsAtOnce
    BY <1>4, ActorsFinite DEF Bounded
  <1>6. Makers(recs \cup {r}) \cap new = {}
    BY <1>1 DEF Bounded
  <1>7. \A q \in recs : q.by # r.by
    BY DEF Bounded, Makers
  <1>8. \A p, q \in recs \cup {r} : p.by = q.by => p = q
    BY <1>7 DEF Bounded
  <1>. QED  BY <1>5, <1>6, <1>8 DEF Bounded

LEMMA BoundedFits ==
  ASSUME NEW recs \in SUBSET Records, NEW waiting \in SUBSET Actors, Bounded(recs, waiting)
  PROVE  Cardinality(recs) <= RunsAtOnce
  <1>. DEFINE by == [r \in recs |-> r.by]
              all == Makers(recs) \cup waiting
  <1>1. by \in Injection(recs, Makers(recs))
    BY DEF Bounded, Makers, Injection, IsInjective
  <1>2. IsFiniteSet(all) /\ IsFiniteSet(Makers(recs))
    BY ActorsFinite, FS_Subset
  <1>3. Cardinality(recs) <= Cardinality(Makers(recs)) /\ IsFiniteSet(recs)
    BY <1>1, <1>2, FS_Injection
  <1>4. Cardinality(Makers(recs)) <= Cardinality(all)
    BY <1>2, FS_Subset
  <1>5. Cardinality(recs) \in Nat /\ Cardinality(Makers(recs)) \in Nat /\ Cardinality(all) \in Nat
    BY <1>2, <1>3, FS_CardinalityType
  <1>6. Cardinality(all) <= RunsAtOnce
    BY DEF Bounded
  <1>. QED  BY <1>3, <1>4, <1>5, <1>6, ActorsFinite

LEMMA RecInvInit == Init => RecInv
  <1>. SUFFICES ASSUME Init  PROVE RecInv
    OBVIOUS
  <1>1. AInv
    BY AInvInit
  <1>2. Active = {}
    BY DEF Init, Active, IdleRun, Running, PerMessage, Actors
  <1>3. Cardinality(Active) <= MaxJobs
    BY <1>2, FS_EmptySet
  <1>4. Bounded({}, {})
    BY <1>2, <1>3, BoundedByRuns
  <1>5. ASSUME NEW m \in Messages  PROVE AnalysesOf(m) = {} /\ Inserting(m) = {}
    BY DEF Init, AnalysesOf, Inserting, IdleRun
  <1>6. ASSUME NEW s \in Senders  PROVE SummariesOf(s) = {} /\ Summarising(s) = {}
    BY DEF Init, SummariesOf, Summarising, IdleRun
  <1>7. \A m \in Messages : Bounded(AnalysesOf(m), Inserting(m))
    BY <1>4, <1>5
  <1>8. \A s \in Senders : Bounded(SummariesOf(s), Summarising(s))
    BY <1>4, <1>6
  <1>. QED  BY <1>1, <1>3, <1>7, <1>8 DEF RecInv

\* The tasks that run are more after a start only, which sees that there is
\* room.
LEMMA ActiveBounded ==
  ASSUME RecInv, [Next]_vars
  PROVE  Cardinality(Active') <= MaxJobs
  <1>1. /\ IsFiniteSet(Active) /\ Cardinality(Active) \in Nat /\ Cardinality(Active) <= MaxJobs
        /\ run \in [Actors -> Runs]
    BY FS_Subset, FS_CardinalityType DEF Active, RecInv, AInv, TInv, TypeOK
  <1>2. ASSUME Active' \subseteq Active  PROVE Cardinality(Active') <= MaxJobs
    <2>1. IsFiniteSet(Active') /\ Cardinality(Active') <= Cardinality(Active)
      BY <1>1, <1>2, FS_Subset
    <2>. QED  BY <1>1, <2>1, FS_CardinalityType
  <1>3. ASSUME NEW j \in Jobs, Start(j) \/ StartFails(j)  PROVE Cardinality(Active') <= MaxJobs
    <2>1. Active' \subseteq Active \cup {j}
      BY <1>1, <1>3 DEF Start, StartFails, Active, Actors
    <2>2. Cardinality(Active) < MaxJobs
      BY <1>3 DEF Start, StartFails, Starts
    <2>3. IsFiniteSet(Active \cup {j}) /\ Cardinality(Active \cup {j}) <= MaxJobs
      <3>1. /\ IsFiniteSet(Active \cup {j})
            /\ Cardinality(Active \cup {j}) =
                 IF j \in Active THEN Cardinality(Active) ELSE Cardinality(Active) + 1
        BY <1>1, FS_AddElement
      <3>. QED  BY <1>1, <2>2, <3>1
    <2>4. IsFiniteSet(Active') /\ Cardinality(Active') <= Cardinality(Active \cup {j})
      BY <2>1, <2>3, FS_Subset
    <2>. QED  BY <2>3, <2>4, FS_CardinalityType
  <1>4. ASSUME NEW a \in Actors, AnalyseSingle(a)  PROVE Active' \subseteq Active
    <2>1. PICK r \in Runs : run' = [run EXCEPT ![a] = r] /\ run[a].pc \in PerMessage
      BY <1>4, MessageStep DEF RecInv, AInv
    <2>. QED  BY <1>1, <2>1 DEF Active, Running, Actors
  <1>5. ASSUME NEW j \in Jobs, Handler(j) \/ TaskStep(j) \/ TimeLimit(j) \/ Forget(j) \/ GiveUp(j)
        PROVE  Active' \subseteq Active
    <2>1. CASE UNCHANGED run
      BY <2>1 DEF Active
    <2>2. CASE Forget(j)
      BY <1>1, <2>2 DEF Forget, Active, IdleRun, Running, PerMessage, Actors
    <2>3. CASE run[j].pc \in Running /\ \E pc \in Steps : Goto(j, pc)
      BY <1>1, <2>3 DEF Goto, Active, Actors
    <2>. QED
      BY <1>5, <2>1, <2>2, <2>3
      DEF Handler, CreateJob, Enqueue, EnqueueFails, SaveArqId, SaveArqIdFails, TaskStep, Progress,
          Complete, Raise, MarkFailed, MarkFailedFails, TimeLimit, GiveUp, Raised, At, Steps, Running,
          PerMessage
  <1>6. ASSUME NEW b \in Batches, NEW s \in Requests, ReceiveBatch(b, s)
        PROVE  Active' \subseteq Active
    BY <1>1, <1>6 DEF ReceiveBatch, Goto, Active, Actors
  <1>7. ASSUME WorkerStops \/ UNCHANGED vars  PROVE Active' \subseteq Active
    BY <1>1, <1>7 DEF WorkerStops, vars, Active, IdleRun, Running, PerMessage, Actors
  <1>. QED  BY <1>2, <1>3, <1>4, <1>5, <1>6, <1>7 DEF Next, Arq

\* Steps that write no record and let nobody wait.
LEMMA RecordsQuiet ==
  ASSUME RecInv, AInv', Cardinality(Active') <= MaxJobs, UNCHANGED dataVars,
         \A a \in Actors : run'[a].pc \in {"insert", "writeSummary"} =>
                             run'[a] = run[a] /\ content'[a] = content[a]
  PROVE  RecInv'
  <1>1. ASSUME NEW m \in Messages  PROVE Bounded(AnalysesOf(m), Inserting(m))'
    <2>1. Inserting(m)' \subseteq Inserting(m)
      BY DEF Inserting, Current
    <2>2. AnalysesOf(m)' = AnalysesOf(m) /\ AnalysesOf(m) \in SUBSET Records
      BY DEF AnalysesOf, dataVars, RecInv, AInv, TInv, TypeOK
    <2>3. Bounded(AnalysesOf(m), Inserting(m)) /\ Inserting(m) \in SUBSET Actors
      BY DEF RecInv, Inserting
    <2>. DEFINE new == Inserting(m)'
    <2>4. Bounded(AnalysesOf(m), new)
      <3>. HIDE DEF new
      <3>. QED  BY <2>1, <2>2, <2>3, BoundedOn DEF new
    <2>. QED  BY <2>2, <2>4 DEF Bounded, Makers
  <1>2. ASSUME NEW s \in Senders  PROVE Bounded(SummariesOf(s), Summarising(s))'
    <2>1. Summarising(s)' \subseteq Summarising(s)
      BY DEF Summarising, Current
    <2>2. SummariesOf(s)' = SummariesOf(s) /\ SummariesOf(s) \in SUBSET Records
      BY DEF SummariesOf, dataVars, RecInv, AInv, TInv, TypeOK
    <2>3. Bounded(SummariesOf(s), Summarising(s)) /\ Summarising(s) \in SUBSET Actors
      BY DEF RecInv, Summarising
    <2>. DEFINE new == Summarising(s)'
    <2>4. Bounded(SummariesOf(s), new)
      <3>. HIDE DEF new
      <3>. QED  BY <2>1, <2>2, <2>3, BoundedOn DEF new
    <2>. QED  BY <2>2, <2>4 DEF Bounded, Makers
  <1>. QED  BY <1>1, <1>2 DEF RecInv

LEMMA RecordsMessage ==
  ASSUME RecInv, AInv', Cardinality(Active') <= MaxJobs, NEW a \in Actors, AnalyseSingle(a)
  PROVE  RecInv'
  <1>1. /\ TInv /\ run \in [Actors -> Runs] /\ run[a].pc \in PerMessage /\ content' = content
        /\ analyses \subseteq Records /\ summaries \subseteq Records
    <2>1. run[a].pc \in PerMessage
      BY MessageStep DEF RecInv, AInv
    <2>2. content' = content
      BY DEF AnalyseSingle, NotYetAnalysed, AlreadyAnalysed, InsertAnalysis, NoSummary,
             SummaryUnreadable, InsertSummary, MessageFails, apiVars
    <2>. QED  BY <2>1, <2>2 DEF RecInv, AInv, TInv, TypeOK
  <1>2. /\ Own(a) \in Records /\ Own(a).by = a /\ Own(a).of = Current(a)
        /\ Current(a) \in Messages /\ Sender[Current(a)] \in Senders
    BY <1>1, OwnType, CurrentType DEF Own
  <1>3. ASSUME Failed(a), UNCHANGED dataVars  PROVE RecInv'
    <2>1. /\ run'[a].pc = AfterMessage(a) /\ AfterMessage(a) \notin {"insert", "writeSummary"}
          /\ \A b \in Actors \ {a} : run'[b] = run[b]
      BY <1>1, <1>3 DEF Failed, AfterMessage, Runs
    <2>. QED  BY <1>1, <1>3, <2>1, RecordsQuiet
  <1>4. ASSUME NEW m \in Messages, AnalysesOf(m)' = AnalysesOf(m), Inserting(m)' \subseteq Inserting(m)
        PROVE  Bounded(AnalysesOf(m), Inserting(m))'
    <2>1. /\ Bounded(AnalysesOf(m), Inserting(m)) /\ Inserting(m) \in SUBSET Actors
          /\ AnalysesOf(m) \in SUBSET Records
      BY <1>1 DEF RecInv, Inserting, AnalysesOf
    <2>. DEFINE new == Inserting(m)'
    <2>2. Bounded(AnalysesOf(m), new)
      <3>. HIDE DEF new
      <3>. QED  BY <1>4, <2>1, BoundedOn DEF new
    <2>. QED  BY <1>4, <2>2 DEF Bounded, Makers
  <1>5. ASSUME NEW s \in Senders, SummariesOf(s)' = SummariesOf(s),
               Summarising(s)' \subseteq Summarising(s)
        PROVE  Bounded(SummariesOf(s), Summarising(s))'
    <2>1. /\ Bounded(SummariesOf(s), Summarising(s)) /\ Summarising(s) \in SUBSET Actors
          /\ SummariesOf(s) \in SUBSET Records
      BY <1>1 DEF RecInv, Summarising, SummariesOf
    <2>. DEFINE new == Summarising(s)'
    <2>2. Bounded(SummariesOf(s), new)
      <3>. HIDE DEF new
      <3>. QED  BY <1>5, <2>1, BoundedOn DEF new
    <2>. QED  BY <1>5, <2>2 DEF Bounded, Makers
  <1>6. ASSUME NEW pc \in PerMessage, Goto(a, pc)
        PROVE  /\ run'[a].pc = pc /\ \A b \in Actors : Current(b)' = Current(b)
               /\ \A b \in Actors \ {a} : run'[b] = run[b]
               /\ \A b \in Jobs : run'[b].pc \in PerMessage => b \in Active'
    <2>1. run'[a].pc = pc /\ run'[a].pos = run[a].pos /\ \A b \in Actors \ {a} : run'[b] = run[b]
      BY <1>1, <1>6 DEF Goto, Runs
    <2>2. \A b \in Jobs : run'[b].pc \in PerMessage => b \in Active'
      BY DEF Active, Running
    <2>. QED  BY <1>1, <2>1, <2>2 DEF Current
  <1>7. CASE NotYetAnalysed(a)
    <2>1. Goto(a, "insert") /\ UNCHANGED dataVars /\ AnalysesOf(Current(a)) = {} /\ At(a, "look")
      BY <1>7 DEF NotYetAnalysed
    <2>2. /\ run'[a].pc = "insert" /\ \A b \in Actors : Current(b)' = Current(b)
          /\ \A b \in Actors \ {a} : run'[b] = run[b]
          /\ \A b \in Jobs : run'[b].pc \in PerMessage => b \in Active'
      BY <1>6, <2>1 DEF PerMessage
    <2>3. ASSUME NEW m \in Messages  PROVE Bounded(AnalysesOf(m), Inserting(m))'
      <3>1. AnalysesOf(m)' = AnalysesOf(m)
        BY <2>1 DEF AnalysesOf, dataVars
      <3>2. CASE m = Current(a)
        <4>. DEFINE new == Inserting(m)'
                    active == Active'
        <4>1. active \in SUBSET Jobs /\ Cardinality(active) <= MaxJobs
          BY DEF Active
        <4>2. new \in SUBSET (active \cup Batches)
          BY <2>2 DEF Inserting, Actors, PerMessage
        <4>3. Bounded({}, new)
          <5>. HIDE DEF new, active
          <5>. QED  BY <4>1, <4>2, BoundedByRuns
        <4>4. AnalysesOf(m)' = {}
          BY <2>1, <3>1, <3>2
        <4>. QED  BY <4>3, <4>4 DEF Bounded, Makers
      <3>3. CASE m # Current(a)
        <4>1. Inserting(m)' \subseteq Inserting(m)
          BY <2>2, <3>3 DEF Inserting
        <4>. QED  BY <1>4, <3>1, <4>1
      <3>. QED  BY <3>2, <3>3
    <2>4. ASSUME NEW s \in Senders  PROVE Bounded(SummariesOf(s), Summarising(s))'
      <3>1. SummariesOf(s)' = SummariesOf(s)
        BY <2>1 DEF SummariesOf, dataVars
      <3>2. Summarising(s)' \subseteq Summarising(s)
        BY <2>2 DEF Summarising
      <3>. QED  BY <1>5, <3>1, <3>2
    <2>. QED  BY <2>3, <2>4 DEF RecInv
  <1>8. CASE InsertAnalysis(a)
    <2>1. /\ Goto(a, "readSummary") /\ analyses' = analyses \cup {Own(a)} /\ summaries' = summaries
          /\ run[a].pc = "insert"
      BY <1>8 DEF InsertAnalysis, At
    <2>2. /\ run'[a].pc = "readSummary" /\ \A b \in Actors : Current(b)' = Current(b)
          /\ \A b \in Actors \ {a} : run'[b] = run[b]
      BY <1>6, <2>1 DEF PerMessage
    <2>3. ASSUME NEW m \in Messages  PROVE Bounded(AnalysesOf(m), Inserting(m))'
      <3>1. CASE m = Current(a)
        <4>. DEFINE new == Inserting(m)'
        <4>1. new \in SUBSET (Inserting(m) \ {a}) /\ a \in Inserting(m) /\ Inserting(m) \in SUBSET Actors
          BY <2>1, <2>2, <3>1 DEF Inserting
        <4>2. Bounded(AnalysesOf(m), Inserting(m)) /\ AnalysesOf(m) \in SUBSET Records
          BY <1>1 DEF RecInv, AnalysesOf
        <4>3. Bounded(AnalysesOf(m) \cup {Own(a)}, new)
          <5>. HIDE DEF new
          <5>. QED  BY <1>2, <4>1, <4>2, BoundedMore
        <4>4. AnalysesOf(m)' = AnalysesOf(m) \cup {Own(a)}
          BY <1>2, <2>1, <3>1 DEF AnalysesOf
        <4>. QED  BY <4>3, <4>4 DEF Bounded, Makers
      <3>2. CASE m # Current(a)
        <4>1. Inserting(m)' \subseteq Inserting(m)
          BY <2>2 DEF Inserting
        <4>2. AnalysesOf(m)' = AnalysesOf(m)
          BY <1>2, <2>1, <3>2 DEF AnalysesOf
        <4>. QED  BY <1>4, <4>1, <4>2
      <3>. QED  BY <3>1, <3>2
    <2>4. ASSUME NEW s \in Senders  PROVE Bounded(SummariesOf(s), Summarising(s))'
      <3>1. SummariesOf(s)' = SummariesOf(s)
        BY <2>1 DEF SummariesOf
      <3>2. Summarising(s)' \subseteq Summarising(s)
        BY <2>2 DEF Summarising
      <3>. QED  BY <1>5, <3>1, <3>2
    <2>. QED  BY <2>3, <2>4 DEF RecInv
  <1>9. CASE NoSummary(a)
    <2>1. /\ Goto(a, "writeSummary") /\ UNCHANGED dataVars /\ SummariesOf(Sender[Current(a)]) = {}
      BY <1>9 DEF NoSummary
    <2>2. /\ run'[a].pc = "writeSummary" /\ \A b \in Actors : Current(b)' = Current(b)
          /\ \A b \in Actors \ {a} : run'[b] = run[b]
          /\ \A b \in Jobs : run'[b].pc \in PerMessage => b \in Active'
      BY <1>6, <2>1 DEF PerMessage
    <2>3. ASSUME NEW m \in Messages  PROVE Bounded(AnalysesOf(m), Inserting(m))'
      <3>1. AnalysesOf(m)' = AnalysesOf(m)
        BY <2>1 DEF AnalysesOf, dataVars
      <3>2. Inserting(m)' \subseteq Inserting(m)
        BY <2>2 DEF Inserting
      <3>. QED  BY <1>4, <3>1, <3>2
    <2>4. ASSUME NEW s \in Senders  PROVE Bounded(SummariesOf(s), Summarising(s))'
      <3>1. SummariesOf(s)' = SummariesOf(s)
        BY <2>1 DEF SummariesOf, dataVars
      <3>2. CASE s = Sender[Current(a)]
        <4>. DEFINE new == Summarising(s)'
                    active == Active'
        <4>1. active \in SUBSET Jobs /\ Cardinality(active) <= MaxJobs
          BY DEF Active
        <4>2. new \in SUBSET (active \cup Batches)
          BY <2>2 DEF Summarising, Actors, PerMessage
        <4>3. Bounded({}, new)
          <5>. HIDE DEF new, active
          <5>. QED  BY <4>1, <4>2, BoundedByRuns
        <4>4. SummariesOf(s)' = {}
          BY <2>1, <3>1, <3>2
        <4>. QED  BY <4>3, <4>4 DEF Bounded, Makers
      <3>3. CASE s # Sender[Current(a)]
        <4>1. Summarising(s)' \subseteq Summarising(s)
          BY <2>2, <3>3 DEF Summarising
        <4>. QED  BY <1>5, <3>1, <4>1
      <3>. QED  BY <3>2, <3>3
    <2>. QED  BY <2>3, <2>4 DEF RecInv
  <1>10. CASE InsertSummary(a)
    <2>1. /\ Processed(a) /\ summaries' = summaries \cup {Own(a)} /\ analyses' = analyses
          /\ run[a].pc = "writeSummary"
      BY <1>10 DEF InsertSummary, At
    <2>2. /\ run'[a].pc \notin {"insert", "writeSummary"} /\ \A b \in Actors \ {a} : run'[b] = run[b]
          /\ \A b \in Actors \ {a} : Current(b)' = Current(b)
      <3>1. run'[a].pc = AfterMessage(a) /\ \A b \in Actors \ {a} : run'[b] = run[b]
        BY <1>1, <2>1 DEF Processed, Runs
      <3>. QED  BY <1>1, <3>1 DEF AfterMessage, Current
    <2>3. ASSUME NEW m \in Messages  PROVE Bounded(AnalysesOf(m), Inserting(m))'
      <3>1. AnalysesOf(m)' = AnalysesOf(m)
        BY <2>1 DEF AnalysesOf
      <3>2. Inserting(m)' \subseteq Inserting(m)
        BY <2>2 DEF Inserting
      <3>. QED  BY <1>4, <3>1, <3>2
    <2>4. ASSUME NEW s \in Senders  PROVE Bounded(SummariesOf(s), Summarising(s))'
      <3>1. CASE s = Sender[Current(a)]
        <4>. DEFINE new == Summarising(s)'
        <4>1. /\ new \in SUBSET (Summarising(s) \ {a}) /\ a \in Summarising(s)
              /\ Summarising(s) \in SUBSET Actors
          BY <2>1, <2>2, <3>1 DEF Summarising
        <4>2. Bounded(SummariesOf(s), Summarising(s)) /\ SummariesOf(s) \in SUBSET Records
          BY <1>1 DEF RecInv, SummariesOf
        <4>3. Bounded(SummariesOf(s) \cup {Own(a)}, new)
          <5>. HIDE DEF new
          <5>. QED  BY <1>2, <4>1, <4>2, BoundedMore
        <4>4. SummariesOf(s)' = SummariesOf(s) \cup {Own(a)}
          BY <1>2, <2>1, <3>1 DEF SummariesOf
        <4>. QED  BY <4>3, <4>4 DEF Bounded, Makers
      <3>2. CASE s # Sender[Current(a)]
        <4>1. Summarising(s)' \subseteq Summarising(s)
          BY <2>2 DEF Summarising
        <4>2. SummariesOf(s)' = SummariesOf(s)
          BY <1>2, <2>1, <3>2 DEF SummariesOf
        <4>. QED  BY <1>5, <4>1, <4>2
      <3>. QED  BY <3>1, <3>2
    <2>. QED  BY <2>3, <2>4 DEF RecInv
  <1>. QED
    BY <1>3, <1>7, <1>8, <1>9, <1>10 DEF AnalyseSingle, AlreadyAnalysed, SummaryUnreadable, MessageFails

LEMMA RecInvNext == RecInv /\ [Next]_vars => RecInv'
  <1>. SUFFICES ASSUME RecInv, [Next]_vars  PROVE RecInv'
    OBVIOUS
  <1>1. AInv /\ AInv' /\ Cardinality(Active') <= MaxJobs
    BY AInvNext, ActiveBounded DEF RecInv
  <1>. DEFINE Quiet == /\ UNCHANGED dataVars
                       /\ \A a \in Actors : run'[a].pc \in {"insert", "writeSummary"} =>
                                              run'[a] = run[a] /\ content'[a] = content[a]
  <1>2. run \in [Actors -> Runs] /\ content \in [Actors -> Requests \cup {<< >>}]
    BY <1>1 DEF AInv, TInv, TypeOK
  <1>3. ASSUME NEW a \in Actors, NEW pc \in Steps \ {"insert", "writeSummary"},
               Goto(a, pc), UNCHANGED <<content, dataVars>>
        PROVE  Quiet
    BY <1>2, <1>3 DEF Goto, Runs
  <1>4. ASSUME NEW j \in Jobs, Handler(j)  PROVE Quiet
    <2>1. ASSUME NEW s \in Requests, CreateJob(j, s)  PROVE Quiet
      <3>1. run[j].pc = "idle" /\ run' = run /\ UNCHANGED dataVars
        BY <1>1, <2>1 DEF CreateJob, AInv, TInv, JobsOK, JobOK, TypeOK, Active, Runs, Steps, Actors
      <3>. QED  BY <1>2, <2>1, <3>1 DEF CreateJob, Actors
    <2>. QED
      BY <1>4, <2>1 DEF Handler, Enqueue, EnqueueFails, SaveArqId, SaveArqIdFails
  <1>5. ASSUME NEW j \in Jobs, TaskStep(j) \/ Arq(j)  PROVE Quiet
    <2>1. CASE Start(j) \/ StartFails(j) \/ Forget(j)
      BY <1>2, <2>1 DEF Start, StartFails, Starts, Forget, IdleRun, apiVars, Actors
    <2>2. CASE GiveUp(j)
      BY <2>2 DEF GiveUp, apiVars
    <2>3. CASE TaskStep(j) \/ TimeLimit(j)
      <3>1. UNCHANGED <<content, dataVars>> /\ \E pc \in Steps \ {"insert", "writeSummary"} : Goto(j, pc)
        BY <2>3 DEF TaskStep, Progress, Complete, Raise, MarkFailed, MarkFailedFails, TimeLimit,
                    Raised, apiVars, Steps, Running, PerMessage
      <3>. QED  BY <1>3, <3>1 DEF Actors
    <2>. QED  BY <1>5, <2>1, <2>2, <2>3 DEF Arq
  <1>6. ASSUME NEW b \in Batches, NEW s \in Requests, ReceiveBatch(b, s)  PROVE Quiet
    BY <1>2, <1>6 DEF ReceiveBatch, Goto, Runs
  <1>7. ASSUME WorkerStops \/ UNCHANGED vars  PROVE Quiet
    BY <1>2, <1>7 DEF WorkerStops, vars, apiVars, IdleRun
  <1>8. CASE Quiet
    BY <1>1, <1>8, RecordsQuiet
  <1>9. ASSUME NEW a \in Actors, AnalyseSingle(a)  PROVE RecInv'
    BY <1>1, <1>9, RecordsMessage
  <1>. HIDE DEF Quiet
  <1>. QED  BY <1>4, <1>5, <1>6, <1>7, <1>8, <1>9 DEF Next

\* No two records are of one message and one run, whatever is repeated, no
\* summary counts what its own try did not record, and the races of look-up and
\* insertion make at most as many records of a message, and summaries of a
\* sender, as runs fit beside each other (analyze_single, update_for_analysis).
THEOREM RecordsAlwaysFit == Spec => []RecordsFit
  <1>1. RecInv => RecordsFit
    <2>. SUFFICES ASSUME RecInv  PROVE RecordsFit
      OBVIOUS
    <2>1. ASSUME NEW m \in Messages  PROVE Cardinality(AnalysesOf(m)) <= RunsAtOnce
      <3>1. /\ Bounded(AnalysesOf(m), Inserting(m)) /\ Inserting(m) \in SUBSET Actors
            /\ AnalysesOf(m) \in SUBSET Records
        BY DEF RecInv, AInv, TInv, TypeOK, Inserting, AnalysesOf
      <3>. QED  BY <3>1, BoundedFits
    <2>2. ASSUME NEW s \in Senders  PROVE Cardinality(SummariesOf(s)) <= RunsAtOnce
      <3>1. /\ Bounded(SummariesOf(s), Summarising(s)) /\ Summarising(s) \in SUBSET Actors
            /\ SummariesOf(s) \in SUBSET Records
        BY DEF RecInv, AInv, TInv, TypeOK, Summarising, SummariesOf
      <3>. QED  BY <3>1, BoundedFits
    <2>3. ASSUME NEW q \in analyses, NEW r \in analyses, q.by = r.by, q.of = r.of
          PROVE  q = r
      <3>1. q.of \in Messages
        BY DEF RecInv, AInv, TInv, TypeOK, Records
      <3>2. Bounded(AnalysesOf(q.of), Inserting(q.of))
        BY <3>1 DEF RecInv
      <3>. QED  BY <2>3, <3>2 DEF Bounded, AnalysesOf
    <2>4. ASSUME NEW q \in summaries, NEW r \in summaries, q.by = r.by, Sender[q.of] = Sender[r.of]
          PROVE  q = r
      <3>1. Sender[q.of] \in Senders
        BY DEF RecInv, AInv, TInv, TypeOK, Records
      <3>2. Bounded(SummariesOf(Sender[q.of]), Summarising(Sender[q.of]))
        BY <3>1 DEF RecInv
      <3>. QED  BY <2>4, <3>2 DEF Bounded, SummariesOf
    <2>. QED  BY <2>1, <2>2, <2>3, <2>4 DEF RecordsFit, RecInv, AInv
  <1>. QED  BY <1>1, RecInvInit, RecInvNext, PTL DEF Spec
=============================================================================
