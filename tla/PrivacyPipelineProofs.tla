----------------------- MODULE PrivacyPipelineProofs -----------------------
(***************************************************************************)
(* Theorems about PrivacyPipeline, for every value of its constants.       *)
(***************************************************************************)
EXTENDS PrivacyPipeline, FiniteSetTheorems, TLAPS

-----------------------------------------------------------------------------
(* Type correctness.                                                       *)

\* A task sleeps only between two attempts, so there is another to make.
BackoffInv == \A n \in Calls : task[n] = "backoff" => attempt[n] < MaxRetries

TInv == TypeOK /\ BackoffInv

LEMMA TInvInit == Init => TInv
  BY BoundsAssumption, StoreAssumption, DeliveryAssumption
  DEF Init, TInv, TypeOK, BackoffInv, Calls, Responses, NoEntry, Entries, TaskStates,
      ProtectionAction, NoStats

LEMMA TInvWebhook == TInv /\ Webhook => TInv'
  <1>. SUFFICES ASSUME TInv, Webhook  PROVE TInv'
    OBVIOUS
  <1>. USE BoundsAssumption DEF TInv, TypeOK, BackoffInv, Answer, NextCall, Calls, Responses, Answered202,
           taskVars, storeVars, mailVars
  <1>1. CASE RefuseRecipient
    BY <1>1, SMTT(30) DEF RefuseRecipient
  <1>2. CASE RejectWebhook
    BY <1>2, SMTT(30) DEF RejectWebhook
  <1>3. ASSUME NEW m \in Messages, AcceptWebhook(m)
        PROVE  TInv'
    <2>1. emails' \in [Messages -> Entries \cup {NoEntry}]
      BY <1>3 DEF AcceptWebhook, Stored, Entries, NoEntry, Held
    <2>2. /\ calls + 1 \in Calls
          /\ calls' \in 0..MaxCalls
          /\ response' \in [Calls -> Responses]
      BY <1>3 DEF AcceptWebhook
    <2>3. /\ created' \in [Calls -> Nat]
          /\ task' \in [Calls -> TaskStates]
      BY <1>3, <2>2 DEF AcceptWebhook, TaskStates
    <2>4. BackoffInv'
      BY <1>3, <2>2 DEF AcceptWebhook, TaskStates
    <2>. QED  BY <1>3, <2>1, <2>2, <2>3, <2>4 DEF AcceptWebhook
  <1>. QED  BY <1>1, <1>2, <1>3 DEF Webhook

LEMMA CountType ==
  ASSUME stats \in [processed : Nat, success : Nat, error : Nat], NEW s
  PROVE  /\ Count(s) \in [processed : Nat, success : Nat, error : Nat]
         /\ [Count(s) EXCEPT !.processed = @ + 1]
              \in [processed : Nat, success : Nat, error : Nat]
  BY DEF Count

LEMMA TInvTaskStep == ASSUME NEW n \in Calls PROVE TInv /\ TaskStep(n) => TInv'
  <1>. SUFFICES ASSUME TInv, TaskStep(n)  PROVE TInv'
    OBVIOUS
  <1>. USE DeliveryAssumption, TimeAssumption, CountType
       DEF TInv, TypeOK, BackoffInv, emailVars, storeVars, mailVars, ProtectionAction, TaskStates,
           Started, Suspended, Succeeded, Errored, Finish, FinishAtOnce
  <1>1. CASE AnalysisFails(n)
    BY <1>1 DEF AnalysisFails
  <1>2. CASE BlockEmail(n)
    BY <1>2 DEF BlockEmail
  <1>3. CASE ComposeFails(n)
    BY <1>3 DEF ComposeFails
  <1>4. CASE StartDelivery(n)
    BY <1>4 DEF StartDelivery
  <1>5. CASE SendSucceeds(n)
    BY <1>5 DEF SendSucceeds
  <1>6. CASE SendFails(n)
    <2>1. CASE MoreAttempts(n)
      BY <1>6, <2>1 DEF SendFails, MoreAttempts
    <2>2. CASE ~ MoreAttempts(n)
      <3>1. Finish(n, "failed")
        BY <1>6, <2>2 DEF SendFails
      <3>2. stats' \in [processed : Nat, success : Nat, error : Nat]
        BY <3>1
      <3>. QED  BY <1>6, <3>1, <3>2 DEF SendFails
    <2>. QED  BY <2>1, <2>2
  <1>7. CASE Retry(n)
    BY <1>7 DEF Retry, RetryReady
  <1>8. CASE TimeOut(n)
    BY <1>8 DEF TimeOut
  <1>. QED  BY <1>1, <1>2, <1>3, <1>4, <1>5, <1>6, <1>7, <1>8 DEF TaskStep, RunTask

LEMMA TInvNext == TInv /\ [Next]_vars => TInv'
  <1>. SUFFICES ASSUME TInv, [Next]_vars  PROVE TInv'
    OBVIOUS
  <1>. USE DEF TInv, TypeOK, BackoffInv, emailVars, storeVars, mailVars, taskVars
  <1>1. CASE Webhook
    BY <1>1, TInvWebhook DEF TInv
  <1>2. ASSUME NEW n \in Calls, TaskStep(n)  PROVE TInv'
    BY <1>2, TInvTaskStep DEF TInv
  <1>3. CASE MailService
    BY <1>3 DEF MailService, MailAccepted, MailDropped
  <1>4. CASE Cleanup
    BY <1>4, TimeAssumption DEF Cleanup
  <1>5. CASE Restart
    BY <1>5, BoundsAssumption DEF Restart, NoStats, TaskStates, Started
  <1>6. CASE Tick
    BY <1>6 DEF Tick
  <1>7. CASE UNCHANGED vars
    BY <1>7 DEF vars
  <1>. QED  BY <1>1, <1>2, <1>3, <1>4, <1>5, <1>6, <1>7 DEF Next

\* Every reachable state of the pipeline is well typed; in particular no
\* delivery attempt beyond max_retries is made (IntegratedDeliveryManager).
THEOREM TypeCorrect == Spec => []TypeOK
  <1>1. TInv => TypeOK
    BY DEF TInv
  <1>. QED  BY <1>1, TInvInit, TInvNext, PTL DEF Spec

-----------------------------------------------------------------------------
(* The store: capacity, retention, and the refinement of EphemeralStore.   *)

\* A new call changes the email of no entry that is already in the store.
KeyInv == \A m \in Held : emails[m].obj <= calls

\* The next clean-up is never further away than one interval.
ClockInv == nextCleanup <= now + Interval

\* What the last clean-up left was no older than TTL + Grace at the time,
\* which was Interval before the next one is due.
RetentionInv ==
  \A m \in Held : nextCleanup <= created[emails[m].obj] + TTL + Grace + Interval

SInv == TInv /\ KeyInv /\ CapacityBound /\ ClockInv /\ RetentionInv

LEMMA HeldFinite == IsFiniteSet(Held) /\ Cardinality(Held) \in Nat
  BY StoreAssumption, FS_Subset, FS_CardinalityType DEF Held

\* Facts about the entries of the store that its type gives.
LEMMA EntryFacts ==
  ASSUME TypeOK, NEW m \in Held
  PROVE  /\ m \in Messages
         /\ emails[m].obj \in Calls /\ emails[m].pos \in Calls
         /\ created[emails[m].obj] \in Nat
  BY DEF TypeOK, Held, Entries, NoEntry

\* A clean-up looks at every stored email: the batch is as large as the store.
LEMMA BatchIsHeld ==
  ASSUME TypeOK, CapacityBound
  PROVE  Batch = Held
  <1>. SUFFICES ASSUME NEW m \in Held  PROVE m \in Batch
    BY DEF Batch
  <1>. DEFINE Before == {k \in Held : emails[k].pos < emails[m].pos}
  <1>1. m \notin Before
    BY EntryFacts DEF Calls
  <1>2. /\ IsFiniteSet(Before \cup {m})
        /\ Cardinality(Before \cup {m}) <= Cardinality(Held)
    BY HeldFinite, FS_Subset
  <1>3. IsFiniteSet(Before) /\ Cardinality(Before) \in Nat
    BY HeldFinite, FS_Subset, FS_CardinalityType
  <1>4. Cardinality(Before \cup {m}) = Cardinality(Before) + 1
    BY <1>1, <1>3, FS_AddElement
  <1>5. Cardinality(Before) < BatchSize
    BY <1>2, <1>3, <1>4, HeldFinite, StoreAssumption DEF CapacityBound
  <1>. QED  BY <1>5 DEF Batch

LEMMA SInvInit == Init => SInv
  <1>. SUFFICES ASSUME Init  PROVE SInv
    OBVIOUS
  <1>1. Held = {}
    BY DEF Init, Held
  <1>2. CapacityBound
    BY <1>1, FS_EmptySet, StoreAssumption DEF CapacityBound
  <1>. QED  BY <1>1, <1>2, TInvInit, TimeAssumption
            DEF Init, SInv, KeyInv, ClockInv, RetentionInv

\* Steps that leave the store, the clean-up and the emails alone.
LEMMA SInvFrame ==
  ASSUME SInv, TInv', emails' = emails, created' = created, nextCleanup' = nextCleanup,
         calls' = calls \/ calls' = calls + 1, now' = now \/ now' = now + 1
  PROVE  SInv'
  <1>1. Held' = Held
    BY DEF Held
  <1>2. KeyInv'
    <2>. SUFFICES ASSUME NEW m \in Held  PROVE emails[m].obj <= calls'
      BY <1>1 DEF KeyInv
    <2>1. emails[m].obj \in Nat /\ emails[m].obj <= calls
      BY EntryFacts DEF SInv, TInv, KeyInv, Calls
    <2>2. calls \in Nat
      BY DEF SInv, TInv, TypeOK
    <2>. QED  BY <2>1, <2>2
  <1>3. ClockInv'
    <2>1. nextCleanup \in Nat /\ now \in Nat /\ nextCleanup <= now + Interval
      BY DEF SInv, TInv, TypeOK, ClockInv
    <2>. QED  BY <2>1, TimeAssumption DEF ClockInv
  <1>. QED  BY <1>1, <1>2, <1>3 DEF SInv, CapacityBound, RetentionInv

LEMMA SInvAccept ==
  ASSUME SInv, NEW m \in Messages, AcceptWebhook(m)
  PROVE  SInv'
  <1>. DEFINE n == calls + 1
  <1>1. TInv'
    BY TInvWebhook DEF SInv, Webhook
  <1>2. n \in Calls /\ calls' = n /\ calls \in Nat
    BY BoundsAssumption DEF SInv, TInv, TypeOK, AcceptWebhook, Answer, NextCall, Calls
  <1>3. /\ created' = [created EXCEPT ![n] = now] /\ created \in [Calls -> Nat]
        /\ UNCHANGED <<now, nextCleanup>> /\ now \in Nat /\ nextCleanup \in Nat
    BY DEF SInv, TInv, TypeOK, AcceptWebhook, NextCall
  <1>4. /\ emails'[m] \in Entries /\ emails'[m].obj = n
        /\ \A k \in Messages \ {m} : emails'[k] = emails[k]
    BY <1>2, EntryFacts
       DEF SInv, TInv, TypeOK, AcceptWebhook, Stored, NextCall, Entries, Held
  <1>5. Held' = Held \cup {m}
    <2>1. emails'[m] # NoEntry
      BY <1>4 DEF Entries, NoEntry, Calls
    <2>2. \A k \in Messages : k \in Held' <=> k \in Held \cup {m}
      <3>. SUFFICES ASSUME NEW k \in Messages  PROVE k \in Held' <=> k \in Held \cup {m}
        OBVIOUS
      <3>1. CASE k = m
        BY <2>1, <3>1 DEF Held, NoEntry
      <3>2. CASE k # m
        BY <1>4, <3>2 DEF Held, NoEntry
      <3>. QED  BY <3>1, <3>2
    <2>3. Held' \subseteq Messages /\ Held \cup {m} \subseteq Messages
      BY DEF Held
    <2>. QED  BY <2>2, <2>3
  <1>6. CapacityBound'
    <2>1. Cardinality(Held \cup {m}) <= Cardinality(Held) + 1
      <3>1. Cardinality(Held \cup {m}) =
              IF m \in Held THEN Cardinality(Held) ELSE Cardinality(Held) + 1
        BY HeldFinite, FS_AddElement
      <3>. QED  BY <3>1, HeldFinite
    <2>2. Cardinality(Held) < Capacity
      BY HeldFinite, StoreAssumption DEF AcceptWebhook, AtCapacity
    <2>3. Cardinality(Held \cup {m}) \in Nat
      BY HeldFinite, FS_AddElement, FS_CardinalityType
    <2>. QED  BY <1>5, <2>1, <2>2, <2>3, HeldFinite, StoreAssumption DEF CapacityBound
  <1>7. ASSUME NEW k \in Held'
        PROVE  /\ emails'[k].obj <= calls'
               /\ nextCleanup' <= created'[emails'[k].obj] + TTL + Grace + Interval
    <2>1. CASE k = m
      BY <1>2, <1>3, <1>4, <2>1, TimeAssumption DEF SInv, ClockInv
    <2>2. CASE k # m
      <3>1. k \in Held /\ emails'[k] = emails[k]
        BY <1>4, <1>5, <2>2 DEF Held
      <3>2. emails[k].obj \in Calls /\ emails[k].obj <= calls
        BY <3>1, EntryFacts DEF SInv, TInv, KeyInv
      <3>3. created'[emails[k].obj] = created[emails[k].obj]
        BY <1>2, <1>3, <3>2 DEF Calls
      <3>. QED  BY <1>2, <1>3, <3>1, <3>2, <3>3 DEF SInv, RetentionInv, Calls
    <2>. QED  BY <2>1, <2>2
  <1>8. ClockInv'
    BY <1>3, TimeAssumption DEF SInv, ClockInv
  <1>. QED  BY <1>1, <1>6, <1>7, <1>8 DEF SInv, KeyInv, RetentionInv

LEMMA SInvCleanup ==
  ASSUME SInv, TInv', Cleanup
  PROVE  SInv'
  <1>1. /\ now \in Nat /\ now' = now /\ nextCleanup' = now + Interval
        /\ UNCHANGED <<calls, created>>
    BY DEF SInv, TInv, TypeOK, Cleanup, emailVars
  <1>2. ASSUME NEW m \in Held'
        PROVE  m \in Held /\ ~ Outlived(m) /\ emails'[m] = emails[m]
    BY BatchIsHeld DEF SInv, TInv, Cleanup, Held
  <1>3. CapacityBound'
    <2>1. Cardinality(Held') <= Cardinality(Held) /\ Cardinality(Held') \in Nat
      BY <1>2, HeldFinite, FS_Subset, FS_CardinalityType
    <2>. QED  BY <2>1, HeldFinite, StoreAssumption DEF SInv, CapacityBound
  <1>4. KeyInv'
    BY <1>1, <1>2 DEF SInv, KeyInv
  <1>5. ClockInv'
    BY <1>1, TimeAssumption DEF ClockInv
  <1>6. RetentionInv'
    BY <1>1, <1>2, EntryFacts, TimeAssumption DEF SInv, TInv, Outlived, RetentionInv
  <1>. QED  BY <1>3, <1>4, <1>5, <1>6 DEF SInv

LEMMA SInvRestart ==
  ASSUME SInv, TInv', Restart
  PROVE  SInv'
  <1>1. Held' = {}
    BY DEF Restart, Held
  <1>2. CapacityBound'
    BY <1>1, FS_EmptySet, StoreAssumption DEF CapacityBound
  <1>. QED  BY <1>1, <1>2, TimeAssumption
            DEF SInv, TInv, TypeOK, Restart, KeyInv, ClockInv, RetentionInv

LEMMA SInvNext == SInv /\ [Next]_vars => SInv'
  <1>. SUFFICES ASSUME SInv, [Next]_vars  PROVE SInv'
    OBVIOUS
  <1>1. TInv'
    BY TInvNext DEF SInv
  <1>2. calls \in Nat /\ now \in Nat
    BY DEF SInv, TInv, TypeOK
  <1>3. CASE RefuseRecipient \/ RejectWebhook
    BY <1>1, <1>2, <1>3, SInvFrame
       DEF RefuseRecipient, RejectWebhook, Answer, NextCall, storeVars
  <1>4. ASSUME NEW m \in Messages, AcceptWebhook(m)
        PROVE  SInv'
    BY <1>4, SInvAccept
  <1>5. ASSUME NEW n \in Calls, TaskStep(n)  PROVE SInv'
    BY <1>1, <1>2, <1>5, SInvFrame
       DEF TaskStep, RunTask, AnalysisFails, BlockEmail, ComposeFails, StartDelivery,
           SendSucceeds, SendFails, Retry, TimeOut, emailVars, storeVars
  <1>6. CASE MailService
    BY <1>1, <1>2, <1>6, SInvFrame
       DEF MailService, MailAccepted, MailDropped, emailVars, storeVars
  <1>7. CASE Cleanup
    BY <1>1, <1>7, SInvCleanup
  <1>8. CASE Restart
    BY <1>1, <1>8, SInvRestart
  <1>9. CASE Tick
    BY <1>1, <1>2, <1>9, SInvFrame DEF Tick, emailVars, storeVars
  <1>10. CASE UNCHANGED vars
    BY <1>1, <1>2, <1>10, SInvFrame DEF vars, emailVars, storeVars
  <1>. QED  BY <1>3, <1>4, <1>5, <1>6, <1>7, <1>8, <1>9, <1>10 DEF Next, Webhook

THEOREM StoreInvariant == Spec => []SInv
  BY SInvInit, SInvNext, PTL DEF Spec

\* The store never holds more emails than its capacity (store_email), in any
\* interleaving of webhooks, duplicates, tasks, clean-ups and restarts.
THEOREM CapacityKept == Spec => []CapacityBound
  <1>1. SInv => CapacityBound
    BY DEF SInv
  <1>. QED  BY <1>1, StoreInvariant, PTL

\* While the clean-up is not overdue no content in the store is older than
\* TTL + Grace + Interval (cleanup_expired_emails and its loop).
THEOREM RetentionKept == Spec => []RetentionBound
  <1>1. SInv => RetentionBound
    <2>. SUFFICES ASSUME SInv, now <= nextCleanup, NEW m \in Held
                  PROVE  now - created[emails[m].obj] <= TTL + Grace + Interval
      BY DEF RetentionBound
    <2>. QED  BY EntryFacts, TimeAssumption DEF SInv, TInv, TypeOK, RetentionInv
  <1>. QED  BY <1>1, StoreInvariant, PTL

-----------------------------------------------------------------------------
(* The tasks: statistics, verdicts and the requests sent.                  *)

\* A call that has not been made has no task.
UnusedInv == \A n \in Calls : n > calls => task[n] = "none"

AInv == TInv /\ UnusedInv /\ StatsAccount

LEMMA TasksFinite ==
  ASSUME NEW S
  PROVE  IsFiniteSet(TasksIn(S)) /\ Cardinality(TasksIn(S)) \in Nat
  <1>1. IsFiniteSet(Calls)
    BY BoundsAssumption, FS_Interval DEF Calls
  <1>2. TasksIn(S) \in SUBSET Calls
    BY DEF TasksIn
  <1>. QED  BY <1>1, <1>2, FS_Subset, FS_CardinalityType

\* How the states of a task are divided.
LEMMA StateSets ==
  /\ Suspended \subseteq Started /\ Succeeded \subseteq Started /\ Errored \subseteq Started
  /\ Suspended \cap Succeeded = {} /\ Suspended \cap Errored = {}
  /\ Succeeded \cap Errored = {}
  /\ {"none", "queued", "lost"} \cap Started = {}
  /\ {"sending", "backoff"} = Suspended
  /\ {"delivered", "blocked"} = Succeeded
  /\ {"failed", "timed_out"} = Errored
  BY DEF Started, Suspended, Succeeded, Errored

\* One task changes its state: what happens to the number of tasks in S.
LEMMA TaskMoves ==
  ASSUME NEW S, NEW n \in Calls, NEW s, task \in [Calls -> TaskStates],
         task' = [task EXCEPT ![n] = s]
  PROVE  /\ task[n] \notin S /\ s \in S =>
              Cardinality(TasksIn(S)') = Cardinality(TasksIn(S)) + 1
         /\ (task[n] \in S <=> s \in S) =>
              Cardinality(TasksIn(S)') = Cardinality(TasksIn(S))
  <1>1. ASSUME task[n] \notin S, s \in S
        PROVE  Cardinality(TasksIn(S)') = Cardinality(TasksIn(S)) + 1
    <2>1. TasksIn(S)' = TasksIn(S) \cup {n} /\ n \notin TasksIn(S)
      BY <1>1 DEF TasksIn
    <2>. QED  BY <2>1, TasksFinite, FS_AddElement
  <1>2. ASSUME task[n] \in S <=> s \in S
        PROVE  TasksIn(S)' = TasksIn(S)
    BY <1>2 DEF TasksIn
  <1>. QED  BY <1>1, <1>2

LEMMA AInvInit == Init => AInv
  <1>. SUFFICES ASSUME Init  PROVE AInv
    OBVIOUS
  <1>1. TasksIn(Started) = {} /\ TasksIn(Succeeded) = {} /\ TasksIn(Errored) = {}
    BY DEF Init, TasksIn, Started, Suspended, Succeeded, Errored
  <1>2. StatsAccount
    BY <1>1, FS_EmptySet DEF Init, NoStats, StatsAccount
  <1>. QED  BY <1>2, TInvInit DEF Init, AInv, UnusedInv

\* A task that ends raises exactly its own counter.
LEMMA FinishCounted ==
  ASSUME AInv, NEW n \in Calls, NEW s \in Succeeded \cup Errored,
         task' = [task EXCEPT ![n] = s],
         \/ task[n] \in Suspended /\ stats' = Count(s)
         \/ task[n] = "queued" /\ stats' = [Count(s) EXCEPT !.processed = @ + 1]
  PROVE  StatsAccount'
  <1>1. /\ task \in [Calls -> TaskStates]
        /\ stats \in [processed : Nat, success : Nat, error : Nat]
    BY DEF AInv, TInv, TypeOK
  <1>2. stats'.processed = Cardinality(TasksIn(Started)')
    <2>1. CASE task[n] \in Suspended
      <3>1. Cardinality(TasksIn(Started)') = Cardinality(TasksIn(Started))
        BY <1>1, <2>1, TaskMoves, StateSets
      <3>2. stats'.processed = stats.processed
        BY <1>1, <2>1, StateSets DEF Count
      <3>. QED  BY <3>1, <3>2 DEF AInv, StatsAccount
    <2>2. CASE task[n] = "queued"
      <3>1. Cardinality(TasksIn(Started)') = Cardinality(TasksIn(Started)) + 1
        BY <1>1, <2>2, TaskMoves, StateSets
      <3>2. stats'.processed = stats.processed + 1
        BY <1>1, <2>2, StateSets DEF Count
      <3>. QED  BY <3>1, <3>2 DEF AInv, StatsAccount
    <2>. QED  BY <2>1, <2>2
  <1>3. task[n] \notin Succeeded \cup Errored
    BY StateSets
  <1>4. CASE s \in Succeeded
    <2>1. /\ Cardinality(TasksIn(Succeeded)') = Cardinality(TasksIn(Succeeded)) + 1
          /\ Cardinality(TasksIn(Errored)') = Cardinality(TasksIn(Errored))
      BY <1>1, <1>3, <1>4, TaskMoves, StateSets
    <2>2. stats'.success = stats.success + 1 /\ stats'.error = stats.error
      BY <1>1, <1>4 DEF Count
    <2>. QED  BY <1>2, <2>1, <2>2, StateSets DEF AInv, StatsAccount
  <1>5. CASE s \in Errored
    <2>1. /\ Cardinality(TasksIn(Succeeded)') = Cardinality(TasksIn(Succeeded))
          /\ Cardinality(TasksIn(Errored)') = Cardinality(TasksIn(Errored)) + 1
      BY <1>1, <1>3, <1>5, TaskMoves, StateSets
    <2>2. stats'.success = stats.success /\ stats'.error = stats.error + 1
      BY <1>1, <1>5, StateSets DEF Count
    <2>. QED  BY <1>2, <2>1, <2>2, StateSets DEF AInv, StatsAccount
  <1>. QED  BY <1>4, <1>5

LEMMA AInvTaskStep ==
  ASSUME AInv, NEW n \in Calls, TaskStep(n)
  PROVE  UnusedInv' /\ StatsAccount'
  <1>1. /\ task \in [Calls -> TaskStates] /\ calls' = calls
        /\ stats \in [processed : Nat, success : Nat, error : Nat]
    BY DEF AInv, TInv, TypeOK, TaskStep, RunTask, AnalysisFails, BlockEmail, ComposeFails,
           StartDelivery, SendSucceeds, SendFails, Retry, TimeOut, emailVars
  <1>2. task[n] # "none" /\ \E s : task' = [task EXCEPT ![n] = s]
    BY <1>1 DEF TaskStep, RunTask, AnalysisFails, BlockEmail, ComposeFails, StartDelivery,
           SendSucceeds, SendFails, Retry, RetryReady, TimeOut, Finish, FinishAtOnce, Suspended
  <1>3. UnusedInv'
    BY <1>1, <1>2 DEF AInv, UnusedInv
  <1>4. CASE AnalysisFails(n) \/ BlockEmail(n) \/ ComposeFails(n)
    BY <1>3, <1>4, FinishCounted, StateSets
       DEF AnalysisFails, BlockEmail, ComposeFails, FinishAtOnce
  <1>5. CASE StartDelivery(n)
    <2>1. /\ task' = [task EXCEPT ![n] = "sending"] /\ task[n] = "queued"
          /\ stats' = [stats EXCEPT !.processed = @ + 1]
      BY <1>5 DEF StartDelivery
    <2>2. Cardinality(TasksIn(Started)') = Cardinality(TasksIn(Started)) + 1
      BY <1>1, <2>1, TaskMoves, StateSets
    <2>3. /\ Cardinality(TasksIn(Succeeded)') = Cardinality(TasksIn(Succeeded))
          /\ Cardinality(TasksIn(Errored)') = Cardinality(TasksIn(Errored))
      BY <1>1, <2>1, TaskMoves, StateSets
    <2>. QED  BY <1>1, <1>3, <2>1, <2>2, <2>3
              DEF AInv, StatsAccount
  <1>6. CASE SendSucceeds(n) \/ TimeOut(n)
    BY <1>3, <1>6, FinishCounted, StateSets DEF SendSucceeds, TimeOut, Finish
  <1>7. CASE SendFails(n) /\ ~ MoreAttempts(n)
    BY <1>3, <1>7, FinishCounted, StateSets DEF SendFails, Finish
  <1>8. CASE (SendFails(n) /\ MoreAttempts(n)) \/ Retry(n)
    <2>1. PICK s \in Suspended : /\ task' = [task EXCEPT ![n] = s] /\ task[n] \in Suspended
                                 /\ stats' = stats
      BY <1>8 DEF SendFails, Finish, Retry, RetryReady, Suspended
    <2>2. /\ Cardinality(TasksIn(Started)') = Cardinality(TasksIn(Started))
          /\ Cardinality(TasksIn(Succeeded)') = Cardinality(TasksIn(Succeeded))
          /\ Cardinality(TasksIn(Errored)') = Cardinality(TasksIn(Errored))
      BY <1>1, <2>1, TaskMoves, StateSets
    <2>. QED  BY <1>3, <2>1, <2>2
              DEF AInv, StatsAccount
  <1>. QED  BY <1>3, <1>4, <1>5, <1>6, <1>7, <1>8 DEF TaskStep, RunTask

LEMMA AInvNext == AInv /\ [Next]_vars => AInv'
  <1>. SUFFICES ASSUME AInv, [Next]_vars  PROVE AInv'
    OBVIOUS
  <1>1. TInv'
    BY TInvNext DEF AInv
  <1>2. /\ task \in [Calls -> TaskStates] /\ calls \in Nat
    BY DEF AInv, TInv, TypeOK
  <1>. SUFFICES UnusedInv' /\ StatsAccount'
    BY <1>1 DEF AInv
  <1>3. ASSUME UNCHANGED <<task, stats>>, calls' = calls \/ calls' = calls + 1
        PROVE  UnusedInv' /\ StatsAccount'
    BY <1>2, <1>3 DEF AInv, UnusedInv, StatsAccount, TasksIn, Calls
  <1>4. CASE RefuseRecipient \/ RejectWebhook
    BY <1>3, <1>4 DEF RefuseRecipient, RejectWebhook, Answer, NextCall, taskVars
  <1>5. ASSUME NEW m \in Messages, AcceptWebhook(m)
        PROVE  UnusedInv' /\ StatsAccount'
    <2>1. /\ calls + 1 \in Calls /\ calls' = calls + 1 /\ stats' = stats
          /\ task' = [task EXCEPT ![calls + 1] = "queued"] /\ task[calls + 1] = "none"
      BY <1>2, <1>5, BoundsAssumption
         DEF AcceptWebhook, Answer, NextCall, Calls, AInv, UnusedInv
    <2>2. UnusedInv'
      BY <1>2, <2>1 DEF AInv, UnusedInv, Calls
    <2>3. /\ Cardinality(TasksIn(Started)') = Cardinality(TasksIn(Started))
          /\ Cardinality(TasksIn(Succeeded)') = Cardinality(TasksIn(Succeeded))
          /\ Cardinality(TasksIn(Errored)') = Cardinality(TasksIn(Errored))
      BY <1>2, <2>1, TaskMoves, StateSets
    <2>. QED  BY <2>1, <2>2, <2>3 DEF AInv, StatsAccount
  <1>6. ASSUME NEW n \in Calls, TaskStep(n)  PROVE UnusedInv' /\ StatsAccount'
    BY <1>6, AInvTaskStep
  <1>7. CASE MailService \/ Cleanup \/ Tick \/ UNCHANGED vars
    BY <1>3, <1>7 DEF MailService, MailAccepted, MailDropped, Cleanup, Tick, vars, emailVars, taskVars
  <1>8. CASE Restart
    <2>1. UnusedInv'
      BY <1>8 DEF Restart, AInv, UnusedInv, emailVars
    <2>2. TasksIn(Started)' = {} /\ TasksIn(Succeeded)' = {} /\ TasksIn(Errored)' = {}
      BY <1>8 DEF Restart, TasksIn, Started, Suspended, Succeeded, Errored
    <2>. QED  BY <1>8, <2>1, <2>2, FS_EmptySet
              DEF Restart, NoStats, StatsAccount
  <1>. QED  BY <1>4, <1>5, <1>6, <1>7, <1>8 DEF Next, Webhook

\* Each task is counted once, in the counter that tells how it ended
\* (_processing_stats): by a block, an acknowledgement, an error status after
\* the last attempt, an exception or the timeout.
THEOREM StatsCorrect == Spec => []StatsAccount
  <1>1. AInv => StatsAccount
    BY DEF AInv
  <1>. QED  BY <1>1, AInvInit, AInvNext, PTL DEF Spec

-----------------------------------------------------------------------------
(* The requests a task sends.                                              *)

MInv == TInv /\ UnusedInv /\ VerdictMatchesMail

LEMMA MInvInit == Init => MInv
  BY TInvInit DEF Init, MInv, UnusedInv, VerdictMatchesMail

LEMMA MInvTaskStep ==
  ASSUME MInv, NEW n \in Calls, TaskStep(n)
  PROVE  VerdictMatchesMail'
  <1>1. /\ task \in [Calls -> TaskStates] /\ attempt \in [Calls -> 0..MaxRetries]
        /\ wire \subseteq Calls \X (1..MaxRetries)
        /\ delivered \subseteq Calls \X (1..MaxRetries)
    BY DEF MInv, TInv, TypeOK
  <1>. USE DEF VerdictMatchesMail
  <1>2. CASE AnalysisFails(n) \/ BlockEmail(n) \/ ComposeFails(n)
    BY <1>1, <1>2 DEF MInv, AnalysisFails, BlockEmail, ComposeFails, FinishAtOnce, mailVars
  <1>3. CASE StartDelivery(n)
    <2>1. /\ wire' = wire \cup {<<n, 1>>} /\ delivered' = delivered /\ task[n] = "queued"
          /\ task' = [task EXCEPT ![n] = "sending"] /\ attempt' = [attempt EXCEPT ![n] = 1]
      BY <1>3 DEF StartDelivery
    <2>2. ASSUME NEW p \in Calls, p # n
          PROVE  /\ task'[p] = task[p] /\ attempt'[p] = attempt[p]
                 /\ \A k \in 1..MaxRetries : <<p, k>> \in wire' <=> <<p, k>> \in wire
      BY <1>1, <2>1, <2>2
    <2>3. \A k \in 1..MaxRetries : <<n, k>> \in wire' \cup delivered' => k = 1
      BY <2>1 DEF MInv
    <2>4. task'[n] = "sending" /\ attempt'[n] = 1
      BY <1>1, <2>1
    <2>. QED  BY <2>1, <2>2, <2>3, <2>4 DEF MInv
  <1>4. CASE SendSucceeds(n)
    <2>1. \E k \in 1..MaxRetries : <<n, k>> \in delivered
      BY <1>1, <1>4 DEF SendSucceeds, Acknowledged
    <2>. QED  BY <1>1, <1>4, <2>1 DEF MInv, SendSucceeds, Finish, mailVars
  <1>5. CASE SendFails(n)
    <2>1. PICK s \in {"backoff", "failed"} : task' = [task EXCEPT ![n] = s]
      BY <1>5 DEF SendFails, Finish
    <2>2. UNCHANGED <<attempt, wire, delivered>> /\ task[n] = "sending"
      BY <1>5 DEF SendFails, mailVars
    <2>. QED  BY <1>1, <2>1, <2>2 DEF MInv
  <1>6. CASE Retry(n)
    <2>1. /\ wire' = wire \cup {<<n, attempt[n] + 1>>} /\ delivered' = delivered
          /\ task' = [task EXCEPT ![n] = "sending"] /\ task[n] = "backoff"
          /\ attempt' = [attempt EXCEPT ![n] = @ + 1]
      BY <1>6 DEF Retry, RetryReady
    <2>2. ASSUME NEW p \in Calls, p # n
          PROVE  /\ task'[p] = task[p] /\ attempt'[p] = attempt[p]
                 /\ \A k \in 1..MaxRetries : <<p, k>> \in wire' <=> <<p, k>> \in wire
      BY <1>1, <2>1, <2>2
    <2>3. task'[n] = "sending" /\ attempt'[n] = attempt[n] + 1 /\ attempt[n] \in Nat
      BY <1>1, <2>1
    <2>4. ASSUME NEW k \in 1..MaxRetries, <<n, k>> \in wire' \cup delivered'
          PROVE  ~ (k > attempt'[n])
      <3>1. CASE k = attempt[n] + 1
        BY <2>3, <3>1
      <3>2. CASE <<n, k>> \in wire \cup delivered
        BY <2>3, <3>2 DEF MInv
      <3>. QED  BY <2>1, <2>4, <3>1, <3>2
    <2>. QED  BY <2>1, <2>2, <2>3, <2>4 DEF MInv
  <1>7. CASE TimeOut(n)
    BY <1>1, <1>7 DEF MInv, TimeOut, Finish, Suspended, mailVars
  <1>. QED  BY <1>2, <1>3, <1>4, <1>5, <1>6, <1>7 DEF TaskStep, RunTask

LEMMA MInvNext == MInv /\ [Next]_vars => MInv'
  <1>. SUFFICES ASSUME MInv, [Next]_vars  PROVE MInv'
    OBVIOUS
  <1>1. TInv'
    BY TInvNext DEF MInv
  <1>2. /\ task \in [Calls -> TaskStates] /\ calls \in Nat
    BY DEF MInv, TInv, TypeOK
  <1>3. CASE RefuseRecipient \/ RejectWebhook
    <2>1. UNCHANGED <<task, attempt, wire, delivered>> /\ calls' = calls + 1
      BY <1>3 DEF RefuseRecipient, RejectWebhook, Answer, NextCall, taskVars, mailVars
    <2>2. UnusedInv'
      BY <1>2, <2>1 DEF MInv, UnusedInv, Calls
    <2>3. VerdictMatchesMail'
      BY <2>1 DEF MInv, VerdictMatchesMail
    <2>. QED  BY <1>1, <2>2, <2>3 DEF MInv
  <1>4. ASSUME NEW m \in Messages, AcceptWebhook(m)
        PROVE  MInv'
    <2>1. /\ calls + 1 \in Calls /\ calls' = calls + 1
          /\ task' = [task EXCEPT ![calls + 1] = "queued"] /\ task[calls + 1] = "none"
          /\ UNCHANGED <<attempt, wire, delivered>>
      BY <1>2, <1>4, BoundsAssumption
         DEF AcceptWebhook, Answer, NextCall, Calls, MInv, UnusedInv, mailVars
    <2>2. UnusedInv'
      BY <1>2, <2>1 DEF MInv, UnusedInv, Calls
    <2>3. VerdictMatchesMail'
      BY <1>2, <2>1 DEF MInv, VerdictMatchesMail
    <2>. QED  BY <1>1, <2>2, <2>3 DEF MInv
  <1>5. ASSUME NEW n \in Calls, TaskStep(n)  PROVE MInv'
    <2>1. calls' = calls /\ task[n] # "none" /\ \E s : task' = [task EXCEPT ![n] = s]
      BY <1>5 DEF TaskStep, RunTask, AnalysisFails, BlockEmail, ComposeFails, StartDelivery,
           SendSucceeds, SendFails, Retry, RetryReady, TimeOut, Finish, FinishAtOnce, Suspended,
           emailVars
    <2>2. UnusedInv'
      BY <1>2, <2>1 DEF MInv, UnusedInv
    <2>. QED  BY <1>1, <1>5, <2>2, MInvTaskStep DEF MInv
  <1>6. CASE MailService
    BY <1>1, <1>6
       DEF MailService, MailAccepted, MailDropped, emailVars, taskVars, MInv, UnusedInv,
           VerdictMatchesMail
  <1>7. CASE Cleanup \/ Tick \/ UNCHANGED vars
    BY <1>1, <1>7 DEF Cleanup, Tick, vars, emailVars, taskVars, mailVars, MInv, UnusedInv,
           VerdictMatchesMail
  <1>8. CASE Restart
    BY <1>1, <1>8 DEF Restart, emailVars, mailVars, MInv, UnusedInv, VerdictMatchesMail
  <1>. QED  BY <1>3, <1>4, <1>5, <1>6, <1>7, <1>8 DEF Next, Webhook

\* A task counted as delivered has a copy at the mail service, and a blocked
\* or waiting one has sent nothing (deliver_email, _process_email_steps).
THEOREM VerdictsCorrect == Spec => []VerdictMatchesMail
  <1>1. MInv => VerdictMatchesMail
    BY DEF MInv
  <1>. QED  BY <1>1, MInvInit, MInvNext, PTL DEF Spec

\* A task that has not begun has made no attempt.
GInv ==
  /\ \A n \in Calls : task[n] \in {"none", "queued"} => attempt[n] = 0
  /\ GivenUpAfterAllAttempts

LEMMA GInvTaskStep ==
  ASSUME TypeOK, GInv, NEW n \in Calls, TaskStep(n)
  PROVE  GInv'
  <1>1. task \in [Calls -> TaskStates] /\ attempt \in [Calls -> 0..MaxRetries]
    BY DEF TypeOK
  <1>. USE <1>1, DeliveryAssumption DEF GInv, GivenUpAfterAllAttempts
  <1>2. CASE AnalysisFails(n) \/ BlockEmail(n) \/ ComposeFails(n)
    BY <1>2 DEF AnalysisFails, BlockEmail, ComposeFails, FinishAtOnce
  <1>3. CASE StartDelivery(n)
    BY <1>3 DEF StartDelivery
  <1>4. CASE SendSucceeds(n) \/ TimeOut(n)
    BY <1>4 DEF SendSucceeds, TimeOut, Finish
  <1>5. CASE SendFails(n)
    BY <1>5 DEF SendFails, MoreAttempts, Finish
  <1>6. CASE Retry(n)
    BY <1>6 DEF Retry, RetryReady
  <1>. QED  BY <1>2, <1>3, <1>4, <1>5, <1>6 DEF TaskStep, RunTask

LEMMA GInvNext == MInv /\ GInv /\ [Next]_vars => GInv'
  <1>. SUFFICES ASSUME MInv, GInv, [Next]_vars  PROVE GInv'
    OBVIOUS
  <1>1. TypeOK /\ UnusedInv
    BY DEF MInv, TInv
  <1>. USE DEF GInv, GivenUpAfterAllAttempts
  <1>2. ASSUME NEW m \in Messages, AcceptWebhook(m)  PROVE GInv'
    <2>1. /\ calls + 1 \in Calls /\ calls \in Nat
          /\ task' = [task EXCEPT ![calls + 1] = "queued"] /\ UNCHANGED attempt
      BY <1>1, <1>2, BoundsAssumption DEF AcceptWebhook, Answer, NextCall, TypeOK, Calls
    <2>2. attempt[calls + 1] = 0
      BY <1>1, <2>1 DEF UnusedInv, Calls
    <2>. QED  BY <1>1, <2>1, <2>2 DEF TypeOK
  <1>3. ASSUME NEW n \in Calls, TaskStep(n)  PROVE GInv'
    BY <1>1, <1>3, GInvTaskStep
  <1>4. CASE Restart
    BY <1>1, <1>4 DEF Restart, TypeOK
  <1>5. CASE UNCHANGED <<task, attempt>>
    BY <1>5
  <1>. QED  BY <1>2, <1>3, <1>4, <1>5 DEF Next, Webhook, RefuseRecipient, RejectWebhook, MailService,
              MailAccepted, MailDropped, Cleanup, Tick, taskVars, vars

\* A delivery that has begun is given up after max_retries attempts and not
\* before, in every order of failures, late answers, timeouts and restarts
\* (the loop of deliver_email).
THEOREM GivenUpLate == Spec => []GivenUpAfterAllAttempts
  <1>1. Init => GInv
    BY DEF Init, GInv, GivenUpAfterAllAttempts
  <1>2. GInv => GivenUpAfterAllAttempts
    BY DEF GInv
  <1>3. MInv /\ GInv /\ [Next]_vars => GInv'
    BY GInvNext
  <1>. QED  BY <1>1, <1>2, <1>3, MInvInit, MInvNext, PTL DEF Spec

\* After a task has ended, none of its requests is sent any more, whatever the
\* timeout interrupted (asyncio.wait_for around the retry loop).
THEOREM SilentAfterEnd == Spec => NoSendAfterEnd
  <1>. DEFINE Quiet == \A n \in Calls :
                 task[n] \notin Suspended \cup {"queued"} =>
                   \A k \in 1..MaxRetries : <<n, k>> \in wire' => <<n, k>> \in wire
  <1>1. TypeOK /\ [Next]_vars => [Quiet]_vars
    <2>. SUFFICES ASSUME TypeOK, Next  PROVE Quiet
      OBVIOUS
    <2>1. CASE Webhook \/ Cleanup \/ Restart \/ Tick
      BY <2>1 DEF Webhook, RefuseRecipient, RejectWebhook, AcceptWebhook, Cleanup, Restart, Tick,
                  mailVars
    <2>2. CASE MailService
      BY <2>2 DEF MailService, MailAccepted, MailDropped
    <2>3. ASSUME NEW n \in Calls, TaskStep(n)  PROVE Quiet
      <3>1. CASE wire' = wire
        BY <3>1
      <3>2. CASE StartDelivery(n) \/ Retry(n)
        BY <3>2 DEF StartDelivery, Retry, RetryReady, Suspended
      <3>. QED  BY <2>3, <3>1, <3>2 DEF TaskStep, RunTask, AnalysisFails, BlockEmail,
                  ComposeFails, SendSucceeds, SendFails, TimeOut, mailVars
    <2>. QED  BY <2>1, <2>2, <2>3 DEF Next
  <1>. QED  BY <1>1, TypeCorrect, PTL DEF Spec, NoSendAfterEnd

-----------------------------------------------------------------------------
(* PrivacyPipeline implements EphemeralStore.                              *)

\* Each stored email is one element of the abstract store.
LEMMA ContentsSize ==
  /\ IsFiniteSet(Contents)
  /\ Cardinality(Contents) = Cardinality(Held)
  <1>. DEFINE f == [m \in Held |-> <<m, created[emails[m].obj]>>]
  <1>1. f \in Bijection(Held, Contents)
    <2>1. f \in [Held -> Contents]
      BY DEF Contents
    <2>2. \A a, b \in Held : f[a] = f[b] => a = b
      OBVIOUS
    <2>3. \A c \in Contents : \E a \in Held : f[a] = c
      BY DEF Contents
    <2>. QED  BY <2>1, <2>2, <2>3 DEF Bijection, Injection, Surjection, IsInjective
  <1>2. ExistsBijection(Held, Contents)
    BY <1>1 DEF ExistsBijection
  <1>. QED  BY <1>2, HeldFinite, FS_Bijection

LEMMA StoreInit == Init => Store!Init
  BY DEF Init, Store!Init, Contents, Held

LEMMA StoreStep ==
  ASSUME SInv, SInv', [Next]_vars
  PROVE  [Store!Next]_Store!vars
  <1>. USE DEF Store!Next, Store!vars
  <1>1. ASSUME UNCHANGED <<emails, nextCleanup, now>>,
               created' = created
        PROVE  UNCHANGED Store!vars
    BY <1>1 DEF Contents, Held
  <1>2. CASE RefuseRecipient \/ RejectWebhook \/ MailService \/ UNCHANGED vars
    BY <1>1, <1>2 DEF RefuseRecipient, RejectWebhook, MailService, MailAccepted, MailDropped,
           vars, emailVars, storeVars
  <1>3. ASSUME NEW n \in Calls, TaskStep(n)  PROVE UNCHANGED Store!vars
    BY <1>1, <1>3
       DEF TaskStep, RunTask, AnalysisFails, BlockEmail, ComposeFails, StartDelivery,
           SendSucceeds, SendFails, Retry, TimeOut, emailVars, storeVars
  <1>4. CASE Tick
    BY <1>4 DEF Tick, Store!Pass, Contents, Held, emailVars, storeVars
  <1>5. CASE Restart
    <2>1. Contents' = {}
      BY <1>5 DEF Restart, Contents, Held
    <2>. QED  BY <1>5, <2>1 DEF Restart, Store!Lose
  <1>6. CASE Cleanup
    <2>1. /\ now' = now /\ nextCleanup <= now /\ nextCleanup' = now + Interval
          /\ created' = created
          /\ emails' = [m \in Messages |->
                          IF m \in Held /\ Outlived(m) THEN NoEntry ELSE emails[m]]
      BY <1>6, BatchIsHeld DEF Cleanup, SInv, TInv, emailVars
    <2>2. Contents' = {h \in Contents : now - h[2] <= TTL + Grace}
      <3>1. ASSUME NEW m \in Held  PROVE Outlived(m) <=> ~ (now - created[emails[m].obj] <= TTL + Grace)
        BY EntryFacts, TimeAssumption DEF Outlived, SInv, TInv, TypeOK
      <3>2. Held' = {m \in Held : now - created[emails[m].obj] <= TTL + Grace}
        BY <2>1, <3>1 DEF Held
      <3>3. \A m \in Held' : emails'[m] = emails[m]
        BY <2>1, <3>1, <3>2 DEF Held
      <3>4. Contents' = {<<m, created[emails[m].obj]>> : m \in Held'}
        BY <2>1, <3>3 DEF Contents
      <3>5. ASSUME NEW h
            PROVE  h \in Contents' <=> h \in Contents /\ now - h[2] <= TTL + Grace
        BY <3>2, <3>4 DEF Contents
      <3>. QED  BY <3>5
    <2>. QED  BY <2>1, <2>2 DEF Store!Sweep
  <1>7. ASSUME NEW m \in Messages, AcceptWebhook(m)
        PROVE  Store!Accept(m)
    <2>1. /\ calls + 1 \in Calls /\ calls \in Nat /\ UNCHANGED <<now, nextCleanup>>
          /\ created' = [created EXCEPT ![calls + 1] = now] /\ created \in [Calls -> Nat]
      BY <1>7, BoundsAssumption
         DEF AcceptWebhook, Answer, NextCall, SInv, TInv, TypeOK, Calls
    <2>2. /\ emails'[m] \in Entries /\ emails'[m].obj = calls + 1
          /\ \A k \in Messages \ {m} : emails'[k] = emails[k]
      BY <1>7, <2>1, EntryFacts
         DEF SInv, TInv, TypeOK, AcceptWebhook, Stored, NextCall, Entries, Held
    <2>3. ASSUME NEW k \in Held  PROVE created'[emails[k].obj] = created[emails[k].obj]
      BY <2>1, EntryFacts DEF SInv, TInv, KeyInv, Calls
    <2>4. Held' = Held \cup {m}
      <3>1. emails'[m] # NoEntry
        BY <2>2 DEF Entries, NoEntry, Calls
      <3>2. \A k \in Messages : k \in Held' <=> k \in Held \cup {m}
        BY <2>2, <3>1 DEF Held, NoEntry
      <3>. QED  BY <3>2 DEF Held
    <2>5. created'[emails'[m].obj] = now
      BY <2>1, <2>2
    <2>6. \A k \in Held' \ {m} : created'[emails'[k].obj] = created[emails[k].obj]
      BY <2>2, <2>3, <2>4 DEF Held
    <2>7. Contents' = {h \in Contents : h[1] # m} \cup {<<m, now>>}
      BY <2>4, <2>5, <2>6 DEF Contents
    <2>8. Cardinality(Contents) < Capacity
      BY <1>7, ContentsSize, HeldFinite, StoreAssumption DEF AcceptWebhook, AtCapacity
    <2>9. Store!Cardinality(Contents) = Cardinality(Contents)
      BY Zenon DEF Store!Cardinality, Cardinality
    <2>. QED  BY <2>1, <2>7, <2>8, <2>9 DEF Store!Accept
  <1>. QED  BY <1>2, <1>3, <1>4, <1>5, <1>6, <1>7 DEF Next, Webhook

\* The webhook, the clean-up and the restarts together behave as the abstract
\* store: full means full, nothing is forgotten early, and a clean-up leaves
\* nothing that has outlived its time.
THEOREM ImplementsStore == Spec => StoreSpec
  BY StoreInit, StoreStep, StoreInvariant, PTL DEF Spec, StoreSpec, Store!Spec
=============================================================================
