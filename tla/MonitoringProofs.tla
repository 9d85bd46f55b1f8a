--------------------------- MODULE MonitoringProofs ---------------------------
(***************************************************************************)
(* Theorems about ObservabilityManager: the probes, what the collector of  *)
(* metrics keeps, and the alerts, for every interval, limit, configuration *)
(* and campaign.                                                           *)
(***************************************************************************)
EXTENDS ObservabilityManager, FiniteSetTheorems, SequenceTheorems, TLAPS

-----------------------------------------------------------------------------
(* The probes.                                                             *)

\* What is not critical was never found unhealthy.
ProbeInv ==
  \A c \in Health!Components \ Health!Critical : lastCheck.status[c] # "unhealthy"

LEMMA ProbeInvInit == Init => ProbeInv
  BY DEF Init, Health!HealthInit, ProbeInv, Health!NoCheck

LEMMA CheckAnswersBenign ==
  ASSUME NEW c \in Health!Components \ Health!Critical
  PROVE  c # "memory_manager" /\ "unhealthy" \notin Health!CheckAnswers(c)
  <1>1. c \in {"email_delivery", "background_tasks"}
    BY DEF Health!Components, Health!Critical
  <1>2. Health!CheckAnswers("email_delivery") = {"healthy", "degraded"}
    BY Zenon DEF Health!CheckAnswers
  <1>3. Health!CheckAnswers("background_tasks") = {"healthy"}
    BY Zenon DEF Health!CheckAnswers
  <1>. QED  BY <1>1, <1>2, <1>3

LEMMA ProbeInvNext == ProbeInv /\ [Next]_vars => ProbeInv'
  <1>. SUFFICES ASSUME ProbeInv, [Next]_vars  PROVE ProbeInv'
    OBVIOUS
  <1>1. ASSUME NEW c \in checks, Health!EndCheck(c)  PROVE ProbeInv'
    <2>1. PICK status \in [Health!Components -> {"healthy", "degraded", "unhealthy"}] :
            /\ \A d \in Health!Components \ {"memory_manager"} : status[d] \in Health!CheckAnswers(d)
            /\ lastCheck' = [at |-> now, on |-> TRUE, status |-> status]
      BY <1>1 DEF Health!EndCheck
    <2>2. \A d \in Health!Components \ Health!Critical : status[d] # "unhealthy"
      BY <2>1, CheckAnswersBenign
    <2>. QED  BY <2>1, <2>2 DEF ProbeInv
  <1>2. CASE UNCHANGED lastCheck
    BY <1>2 DEF ProbeInv
  <1>3. Health!HealthStep => UNCHANGED lastCheck \/ \E c \in checks : Health!EndCheck(c)
    BY DEF Health!HealthStep, Health!BeginCheck, Health!StoreChanges
  <1>4. ObservabilityStep => UNCHANGED lastCheck
    BY DEF ObservabilityStep, LogEmailProcessed, RecordHighToxicityEmail,
           RecordPerformanceDegradation, ResolveAlert, ConfigureAlerting, ConfigureLogging, healthVars
  <1>. QED  BY <1>1, <1>2, <1>3, <1>4 DEF Next, Call, Tick, vars, healthVars

\* The readiness probe and the overall verdict never contradict each other, however
\* checks overlap and whatever the capacity of the store.
THEOREM ProbesAlwaysAgree == Spec => []Probes
  <1>1. ProbeInv => Probes
    <2>. SUFFICES ASSUME ProbeInv  PROVE Probes
      OBVIOUS
    <2>. DEFINE status == Health!OverallHealth
    <2>1. \A c \in Health!Components \ Health!Critical : status[c] # "unhealthy"
      BY DEF ProbeInv, Health!OverallHealth, Health!NoCheck
    <2>2. Health!Critical \subseteq Health!Components
      BY DEF Health!Components
    <2>. HIDE DEF status
    <2>3. Health!Ready(status) <=> Health!IsHealthy(status)
      BY <2>1, <2>2 DEF Health!Ready, Health!IsHealthy, Health!FailedComponents
    <2>4. Health!Ready(status) \in BOOLEAN /\ Health!IsHealthy(status) \in BOOLEAN
      BY DEF Health!Ready, Health!IsHealthy
    <2>. QED  BY <2>3, <2>4 DEF Probes, Health!ProbesAgree, status
  <1>. QED  BY <1>1, ProbeInvInit, ProbeInvNext, PTL DEF Spec

-----------------------------------------------------------------------------
(* The counters of processed messages.                                     *)

EmailRecord(total, safe, toxic, redirected, times, least, most) ==
  [total |-> total, safe |-> safe, toxic |-> toxic, redirected |-> redirected,
   times |-> times, least |-> least, most |-> most]

\* The kinds stay within the total, the kept times between the extremes.
EmailFits(e) ==
  /\ e = EmailRecord(e.total, e.safe, e.toxic, e.redirected, e.times, e.least, e.most)
  /\ e.total \in Nat /\ e.safe \in Nat /\ e.toxic \in Nat /\ e.redirected \in Nat
  /\ e.safe + e.toxic + e.redirected <= e.total
  /\ e.times \in Seq(Int) /\ e.least \in Int /\ e.most \in Int
  /\ \A i \in DOMAIN e.times : e.least <= e.times[i] /\ e.times[i] <= e.most

LEMMA NewestFits ==
  ASSUME NEW seq \in Seq(Int), NEW n \in Nat
  PROVE  /\ Newest(seq, n) \in Seq(Int)
         /\ \A i \in DOMAIN Newest(seq, n) : \E j \in DOMAIN seq : Newest(seq, n)[i] = seq[j]
  <1>1. CASE Len(seq) > n
    <2>1. Newest(seq, n) = SubSeq(seq, Len(seq) - n + 1, Len(seq))
      BY <1>1 DEF Newest
    <2>2. Len(seq) - n + 1 \in 1 .. Len(seq) + 1
      BY <1>1
    <2>3. Len(SubSeq(seq, Len(seq) - n + 1, Len(seq))) = n
      BY <1>1, <2>2
    <2>4. \A i \in 1 .. n : SubSeq(seq, Len(seq) - n + 1, Len(seq))[i] = seq[Len(seq) - n + i]
      BY <1>1, <2>2
    <2>5. \A i \in 1 .. n : Len(seq) - n + i \in DOMAIN seq
      BY <1>1
    <2>. DEFINE tail == SubSeq(seq, Len(seq) - n + 1, Len(seq))
    <2>6. tail \in Seq(Int) /\ DOMAIN tail = 1 .. n
      BY <2>2, <2>3
    <2>7. \A i \in DOMAIN tail : \E j \in DOMAIN seq : tail[i] = seq[j]
      <3>. SUFFICES ASSUME NEW i \in DOMAIN tail  PROVE \E j \in DOMAIN seq : tail[i] = seq[j]
        OBVIOUS
      <3>1. Len(seq) - n + i \in DOMAIN seq /\ tail[i] = seq[Len(seq) - n + i]
        BY <2>4, <2>5, <2>6
      <3>. QED  BY <3>1, Zenon
    <2>. HIDE DEF tail
    <2>8. Newest(seq, n) = tail
      BY <2>1 DEF tail
    <2>. QED  BY <2>6, <2>7, <2>8, Zenon
  <1>2. CASE ~ (Len(seq) > n)
    BY <1>2 DEF Newest
  <1>. QED  BY <1>1, <1>2

\* What the two updates of the record do to its fields.
LEMMA CountedRecord ==
  ASSUME NEW n, NEW a, NEW b, NEW c, NEW times, NEW least, NEW most, NEW action,
         NEW e, e = EmailRecord(n, a, b, c, times, least, most), NEW f, f = Counted(e, action)
  PROVE  f = EmailRecord(n + 1, IF action = "SAFE" THEN a + 1 ELSE a,
                         IF action \in {"TOXIC", "REDIRECT"} THEN b + 1 ELSE b, c, times, least, most)
  BY DEF Counted, EmailRecord

LEMMA WithTimeRecord ==
  ASSUME NEW n, NEW a, NEW b, NEW c, NEW times, NEW least, NEW most, NEW t,
         NEW e, e = EmailRecord(n, a, b, c, times, least, most), NEW f, f = WithTime(e, t)
  PROVE  f = EmailRecord(n, a, b, c, Newest(Append(times, t), MaxMeasurements),
                         Smaller(least, t), Larger(most, t))
  BY DEF WithTime, EmailRecord

LEMMA EmailRecordFits ==
  ASSUME NEW n \in Nat, NEW a \in Nat, NEW b \in Nat, NEW c \in Nat, a + b + c <= n,
         NEW times \in Seq(Int), NEW least \in Int, NEW most \in Int,
         \A i \in DOMAIN times : least <= times[i] /\ times[i] <= most
  PROVE  EmailFits(EmailRecord(n, a, b, c, times, least, most))
  BY DEF EmailFits, EmailRecord

LEMMA CountedFits ==
  ASSUME NEW e, NEW action, EmailFits(e)  PROVE EmailFits(Counted(e, action))
  <1>. DEFINE safe == IF action = "SAFE" THEN e.safe + 1 ELSE e.safe
              toxic == IF action \in {"TOXIC", "REDIRECT"} THEN e.toxic + 1 ELSE e.toxic
  <1>1. Counted(e, action) = EmailRecord(e.total + 1, safe, toxic, e.redirected, e.times, e.least, e.most)
    BY CountedRecord DEF EmailFits
  <1>2. /\ safe \in Nat /\ toxic \in Nat /\ e.total + 1 \in Nat
        /\ safe + toxic + e.redirected <= e.total + 1
    <2>1. /\ e.total \in Nat /\ e.safe \in Nat /\ e.toxic \in Nat /\ e.redirected \in Nat
          /\ e.safe + e.toxic + e.redirected <= e.total
      BY DEF EmailFits
    <2>2. safe = e.safe \/ toxic = e.toxic
      OBVIOUS
    <2>. QED  BY <2>1, <2>2
  <1>3. /\ e.redirected \in Nat /\ e.times \in Seq(Int) /\ e.least \in Int /\ e.most \in Int
        /\ \A i \in DOMAIN e.times : e.least <= e.times[i] /\ e.times[i] <= e.most
    BY DEF EmailFits
  <1>. HIDE DEF safe, toxic
  <1>. QED  BY <1>1, <1>2, <1>3, EmailRecordFits, SMTT(30)

LEMMA WithTimeFits ==
  ASSUME NEW e, NEW t \in Int, EmailFits(e)  PROVE EmailFits(WithTime(e, t))
  <1>. DEFINE times == Newest(Append(e.times, t), MaxMeasurements)
              least == Smaller(e.least, t)
              most == Larger(e.most, t)
  <1>1. WithTime(e, t) = EmailRecord(e.total, e.safe, e.toxic, e.redirected, times, least, most)
    BY WithTimeRecord DEF EmailFits
  <1>2. Append(e.times, t) \in Seq(Int) /\ MaxMeasurements \in Nat
    BY MetricsAssumption DEF EmailFits
  <1>3. /\ times \in Seq(Int)
        /\ \A i \in DOMAIN times : \E j \in DOMAIN Append(e.times, t) : times[i] = Append(e.times, t)[j]
    BY <1>2, NewestFits
  <1>4. least \in Int /\ most \in Int /\ least <= t /\ least <= e.least /\ t <= most /\ e.most <= most
    BY DEF Smaller, Larger, EmailFits
  <1>. HIDE DEF times, least, most
  <1>5. \A j \in DOMAIN Append(e.times, t) :
          least <= Append(e.times, t)[j] /\ Append(e.times, t)[j] <= most
    <2>1. /\ e.times \in Seq(Int) /\ e.least \in Int /\ e.most \in Int
          /\ \A i \in DOMAIN e.times : e.least <= e.times[i] /\ e.times[i] <= e.most
      BY DEF EmailFits
    <2>. QED  BY <1>4, <2>1, SMTT(30)
  <1>6. \A i \in DOMAIN times : least <= times[i] /\ times[i] <= most
    BY <1>3, <1>5
  <1>7. /\ e.total \in Nat /\ e.safe \in Nat /\ e.toxic \in Nat /\ e.redirected \in Nat
        /\ e.safe + e.toxic + e.redirected <= e.total
    BY DEF EmailFits
  <1>8. times \in Seq(Int)
    BY <1>3
  <1>9. EmailFits(EmailRecord(e.total, e.safe, e.toxic, e.redirected, times, least, most))
    BY <1>4, <1>6, <1>7, <1>8, EmailRecordFits
  <1>. QED  BY <1>1, <1>9

-----------------------------------------------------------------------------
(* The states of messages under way.                                       *)

\* The keys under which states of a message are kept, one for each salt.
KeysIn(S, m) == {k \in {s.key : s \in S} : k[2] = m}

StatesFit(S) ==
  /\ IsFiniteSet(S) /\ Cardinality(S) <= MaxStates + 1
  /\ \A s \in S : s = [key |-> s.key, at |-> s.at, start |-> s.start] /\ s.start \in Nat

\* No message has more states than receptions that were not counted yet.
BalanceFits(S, bal) ==
  /\ bal \in [Messages -> Int]
  /\ \A m \in Messages : IsFiniteSet(KeysIn(S, m)) /\ Cardinality(KeysIn(S, m)) <= bal[m]

LEMMA FiniteCard == ASSUME NEW S, IsFiniteSet(S) PROVE Cardinality(S) \in Nat
  BY FS_CardinalityType

LEMMA OneMore ==
  ASSUME NEW S, NEW x, IsFiniteSet(S)
  PROVE  IsFiniteSet(S \cup {x}) /\ Cardinality(S \cup {x}) <= Cardinality(S) + 1
  <1>1. Cardinality(S \cup {x}) = IF x \in S THEN Cardinality(S) ELSE Cardinality(S) + 1
    BY FS_AddElement
  <1>. QED  BY <1>1, FS_AddElement, FiniteCard

LEMMA SubsetFits ==
  ASSUME NEW S, NEW T, T \subseteq S, StatesFit(S)  PROVE StatesFit(T)
  <1>1. IsFiniteSet(T) /\ Cardinality(T) <= Cardinality(S)
    BY FS_Subset DEF StatesFit
  <1>2. Cardinality(T) \in Nat /\ Cardinality(S) \in Nat
    BY <1>1, FiniteCard DEF StatesFit
  <1>. QED  BY <1>1, <1>2, MetricsAssumption DEF StatesFit

\* Fewer keys, and no smaller balance.
LEMMA BalanceShrinks ==
  ASSUME NEW S, NEW T, NEW bal, BalanceFits(S, bal),
         \A t \in T : \E s \in S : s.key = t.key
  PROVE  BalanceFits(T, bal)
  <1>. SUFFICES ASSUME NEW m \in Messages
                PROVE  IsFiniteSet(KeysIn(T, m)) /\ Cardinality(KeysIn(T, m)) <= bal[m]
    BY DEF BalanceFits
  <1>1. KeysIn(T, m) \subseteq KeysIn(S, m)
    BY DEF KeysIn
  <1>2. IsFiniteSet(KeysIn(S, m)) /\ Cardinality(KeysIn(S, m)) <= bal[m] /\ bal[m] \in Int
    BY DEF BalanceFits
  <1>3. IsFiniteSet(KeysIn(T, m)) /\ Cardinality(KeysIn(T, m)) <= Cardinality(KeysIn(S, m))
    BY <1>1, <1>2, FS_Subset
  <1>. QED  BY <1>2, <1>3, FiniteCard

\* The clean-up leaves room for one more state.
LEMMA CleanedFits ==
  ASSUME StatesFit(states), NEW K \in Cleaned(states)
  PROVE  K \subseteq states /\ IsFiniteSet(K) /\ Cardinality(K) \in Nat /\ Cardinality(K) <= MaxStates
  <1>1. CASE Cardinality(states) <= MaxStates
    BY <1>1, FiniteCard DEF Cleaned, StatesFit
  <1>2. CASE ~ (Cardinality(states) <= MaxStates)
    <2>1. K \subseteq states /\ Cardinality(K) = (MaxStates + 1) \div 2
      BY <1>2 DEF Cleaned
    <2>2. IsFiniteSet(K)
      BY <2>1, FS_Subset DEF StatesFit
    <2>3. MaxStates \in Nat => (MaxStates + 1) \div 2 <= MaxStates
      OBVIOUS
    <2>. QED  BY <2>1, <2>2, <2>3, FiniteCard, MetricsAssumption
  <1>. QED  BY <1>1, <1>2

StatesInv == now \in Nat /\ StatesFit(states) /\ BalanceFits(states, balance)

LEMMA ReceivedKeeps ==
  ASSUME StatesInv, NEW m, RecordEmailReceived(m)
  PROVE  StatesFit(states') /\ BalanceFits(states', balance')
  <1>1. PICK K \in Cleaned(states) :
          states' = {s \in K : s.key # Key(m)} \cup {[key |-> Key(m), at |-> now, start |-> Never]}
    BY DEF RecordEmailReceived
  <1>. DEFINE L == {s \in K : s.key # Key(m)}
              new == [key |-> Key(m), at |-> now, start |-> Never]
  <1>2. K \subseteq states /\ IsFiniteSet(K) /\ Cardinality(K) \in Nat /\ Cardinality(K) <= MaxStates
    BY CleanedFits DEF StatesInv
  <1>3. StatesFit(states')
    <2>1. IsFiniteSet(L) /\ Cardinality(L) <= Cardinality(K) /\ Cardinality(L) \in Nat
      BY <1>2, FS_Subset, FiniteCard
    <2>2. IsFiniteSet(L \cup {new}) /\ Cardinality(L \cup {new}) <= Cardinality(L) + 1
      BY <2>1, OneMore, Zenon
    <2>3. IsFiniteSet(states') /\ Cardinality(states') <= MaxStates + 1
      BY <1>1, <1>2, <2>1, <2>2, FiniteCard, MetricsAssumption
    <2>4. \A s \in states' : s = [key |-> s.key, at |-> s.at, start |-> s.start] /\ s.start \in Nat
      BY <1>1, <1>2 DEF StatesInv, StatesFit, Never
    <2>. QED  BY <2>3, <2>4 DEF StatesFit
  <1>4. BalanceFits(states', balance')
    <2>. SUFFICES ASSUME NEW n \in Messages
                  PROVE  /\ IsFiniteSet(KeysIn(states', n))
                         /\ Cardinality(KeysIn(states', n)) <= balance'[n]
      <3>1. balance' \in [Messages -> Int]
        <4>1. balance \in [Messages -> Int] /\ balance' = [balance EXCEPT ![m] = balance[m] + 1]
          BY DEF BalanceFits, StatesInv, RecordEmailReceived
        <4>2. CASE m \in Messages
          BY <4>1, <4>2
        <4>3. CASE m \notin Messages
          BY <4>1, <4>3
        <4>. QED  BY <4>2, <4>3
      <3>. QED  BY <3>1 DEF BalanceFits
    <2>1. /\ IsFiniteSet(KeysIn(states, n)) /\ Cardinality(KeysIn(states, n)) <= balance[n]
          /\ balance[n] \in Int
      BY DEF StatesInv, BalanceFits
    <2>2. Key(m)[2] = m
      BY DEF Key
    <2>3. CASE n = m
      <3>1. KeysIn(states', n) \subseteq KeysIn(states, n) \cup {Key(m)}
        BY <1>1, <1>2 DEF KeysIn
      <3>2. /\ IsFiniteSet(KeysIn(states, n) \cup {Key(m)})
            /\ Cardinality(KeysIn(states, n) \cup {Key(m)}) <= Cardinality(KeysIn(states, n)) + 1
        BY <2>1, FS_AddElement, FiniteCard
      <3>3. IsFiniteSet(KeysIn(states', n)) /\
            Cardinality(KeysIn(states', n)) <= Cardinality(KeysIn(states, n) \cup {Key(m)})
        BY <3>1, <3>2, FS_Subset
      <3>4. balance'[n] = balance[n] + 1
        BY <2>3 DEF RecordEmailReceived, StatesInv, BalanceFits
      <3>. QED  BY <2>1, <3>2, <3>3, <3>4, FiniteCard
    <2>4. CASE n # m
      <3>1. KeysIn(states', n) \subseteq KeysIn(states, n)
        BY <1>1, <1>2, <2>2, <2>4 DEF KeysIn
      <3>2. IsFiniteSet(KeysIn(states', n)) /\
            Cardinality(KeysIn(states', n)) <= Cardinality(KeysIn(states, n))
        BY <2>1, <3>1, FS_Subset
      <3>3. balance'[n] = balance[n]
        BY <2>4 DEF RecordEmailReceived, StatesInv, BalanceFits
      <3>. QED  BY <2>1, <3>2, <3>3, FiniteCard
    <2>. QED  BY <2>3, <2>4
  <1>. QED  BY <1>3, <1>4

LEMMA StartedKeeps ==
  ASSUME StatesInv, NEW m, RecordProcessingStart(m)
  PROVE  StatesFit(states') /\ BalanceFits(states', balance')
  <1>. DEFINE F == StateOf(m)
              g == [s \in states |-> IF s \in F THEN [s EXCEPT !.start = now] ELSE s]
  <1>1. states' = (states \ F) \cup {[s EXCEPT !.start = now] : s \in F} /\ F \subseteq states
    BY DEF RecordProcessingStart, StateOf
  <1>2. ASSUME NEW s \in states
        PROVE  [s EXCEPT !.start = now] = [key |-> s.key, at |-> s.at, start |-> now]
    BY DEF StatesInv, StatesFit
  <1>3. g \in Surjection(states, states')
    BY <1>1 DEF Surjection
  <1>4. IsFiniteSet(states') /\ Cardinality(states') <= Cardinality(states)
    BY <1>3, FS_Surjection DEF StatesInv, StatesFit
  <1>5. \A t \in states' : /\ t = [key |-> t.key, at |-> t.at, start |-> t.start] /\ t.start \in Nat
                           /\ \E s \in states : s.key = t.key
    <2>. SUFFICES ASSUME NEW t \in states'
                  PROVE  /\ t = [key |-> t.key, at |-> t.at, start |-> t.start] /\ t.start \in Nat
                         /\ \E s \in states : s.key = t.key
      OBVIOUS
    <2>1. CASE t \in states
      BY <2>1 DEF StatesInv, StatesFit
    <2>2. ASSUME NEW s \in F, t = [s EXCEPT !.start = now]
          PROVE  /\ t = [key |-> t.key, at |-> t.at, start |-> t.start] /\ t.start \in Nat
                 /\ s \in states /\ s.key = t.key
      <3>1. s \in states /\ t = [key |-> s.key, at |-> s.at, start |-> now] /\ now \in Nat
        BY <1>1, <1>2, <2>2 DEF StatesInv
      <3>. QED  BY <3>1
    <2>. QED  BY <1>1, <2>1, <2>2
  <1>6. StatesFit(states')
    BY <1>4, <1>5, FiniteCard, MetricsAssumption DEF StatesInv, StatesFit
  <1>7. balance' = balance
    BY DEF RecordProcessingStart
  <1>. QED  BY <1>5, <1>6, <1>7, BalanceShrinks DEF StatesInv

LEMMA CompletedKeeps ==
  ASSUME StatesInv, NEW m, NEW action, NEW score, RecordProcessingComplete(m, action, score)
  PROVE  StatesFit(states') /\ BalanceFits(states', balance')
  <1>1. /\ states' = states \ StateOf(m)
        /\ StateOf(m) = {} => balance' = balance
        /\ StateOf(m) # {} => balance' = [balance EXCEPT ![m] = balance[m] - 1]
    BY DEF RecordProcessingComplete, Complete
  <1>2. StatesFit(states') /\ BalanceFits(states', balance)
    BY <1>1, SubsetFits, BalanceShrinks DEF StatesInv
  <1>3. CASE StateOf(m) = {} \/ m \notin Messages
    <2>1. balance' = balance
      BY <1>1, <1>3 DEF StatesInv, BalanceFits
    <2>. QED  BY <1>2, <2>1
  <1>4. CASE StateOf(m) # {} /\ m \in Messages
    <2>1. /\ balance' \in [Messages -> Int] /\ balance'[m] = balance[m] - 1
          /\ \A n \in Messages \ {m} : balance'[n] = balance[n]
      BY <1>1, <1>4 DEF StatesInv, BalanceFits
    <2>2. /\ IsFiniteSet(KeysIn(states, m)) /\ Cardinality(KeysIn(states, m)) <= balance[m]
          /\ balance[m] \in Int
      BY <1>4 DEF StatesInv, BalanceFits
    <2>3. Key(m) \in KeysIn(states, m)
      BY <1>4 DEF StateOf, KeysIn, Key
    <2>4. KeysIn(states', m) \subseteq KeysIn(states, m) \ {Key(m)}
      BY <1>1 DEF StateOf, KeysIn
    <2>5. /\ IsFiniteSet(KeysIn(states, m) \ {Key(m)})
          /\ Cardinality(KeysIn(states, m) \ {Key(m)}) = Cardinality(KeysIn(states, m)) - 1
      BY <2>2, <2>3, FS_RemoveElement
    <2>6. IsFiniteSet(KeysIn(states', m)) /\
          Cardinality(KeysIn(states', m)) <= Cardinality(KeysIn(states, m) \ {Key(m)})
      BY <2>4, <2>5, FS_Subset
    <2>7. Cardinality(KeysIn(states', m)) <= balance'[m]
      BY <2>1, <2>2, <2>5, <2>6, FiniteCard
    <2>8. \A n \in Messages \ {m} :
            IsFiniteSet(KeysIn(states', n)) /\ Cardinality(KeysIn(states', n)) <= balance'[n]
      BY <1>2, <2>1 DEF BalanceFits
    <2>. QED  BY <1>2, <2>1, <2>6, <2>7, <2>8 DEF BalanceFits
  <1>. QED  BY <1>2, <1>3, <1>4

LEMMA LoggedKeeps ==
  ASSUME StatesInv, NEW m, NEW ms, NEW score, NEW action, LogEmailProcessed(m, ms, score, action)
  PROVE  StatesFit(states') /\ BalanceFits(states', balance')
  <1>1. PICK K \in Cleaned(states) : states' = {s \in K : s.key # Key(m)}
    BY DEF LogEmailProcessed
  <1>2. states' \subseteq states /\ balance' = balance
    BY <1>1, CleanedFits DEF StatesInv, LogEmailProcessed
  <1>. QED  BY <1>2, SubsetFits, BalanceShrinks DEF StatesInv

-----------------------------------------------------------------------------
(* The invariant of the collector.                                         *)

MetricsInv == StatesInv /\ EmailFits(email)

LEMMA MetricsInvInit == Init => MetricsInv
  <1>. SUFFICES ASSUME Init  PROVE MetricsInv
    OBVIOUS
  <1>1. StatesFit(states)
    BY FS_EmptySet, MetricsAssumption DEF Init, MetricsInit, StatesFit
  <1>2. BalanceFits(states, balance)
    <2>1. states = {} /\ balance = [n \in Messages |-> 0]
      BY DEF Init, MetricsInit
    <2>2. \A n : KeysIn({}, n) = {}
      BY DEF KeysIn
    <2>. QED  BY <2>1, <2>2, FS_EmptySet DEF BalanceFits
  <1>3. email = EmailRecord(0, 0, 0, 0, <<>>, Never, 0) /\ now = 0
    BY DEF Init, MetricsInit, EmailRecord
  <1>4. EmailFits(email)
    BY <1>3 DEF EmailFits, EmailRecord, Never
  <1>. QED  BY <1>1, <1>2, <1>3, <1>4 DEF MetricsInv, StatesInv

LEMMA CompletedEmailFits ==
  ASSUME MetricsInv, NEW m, NEW action, NEW score, RecordProcessingComplete(m, action, score)
  PROVE  EmailFits(email')
  <1>1. CASE StateOf(m) = {}
    BY <1>1 DEF RecordProcessingComplete, Complete, MetricsInv
  <1>2. CASE StateOf(m) # {}
    <2>1. PICK s \in StateOf(m) :
            email' = Counted(IF s.start = Never THEN email ELSE WithTime(email, now - s.start), action)
      BY <1>2 DEF RecordProcessingComplete, Complete
    <2>2. now - s.start \in Int
      BY DEF StateOf, MetricsInv, StatesInv, StatesFit
    <2>. QED  BY <2>1, <2>2, WithTimeFits, CountedFits DEF MetricsInv
  <1>. QED  BY <1>1, <1>2

LEMMA MetricsInvNext == MetricsInv /\ [Next]_vars => MetricsInv'
  <1>. SUFFICES ASSUME MetricsInv, [Next]_vars  PROVE MetricsInv'
    OBVIOUS
  <1>1. now' \in Nat
    BY DEF MetricsInv, StatesInv, Next, Call, Tick, vars
  <1>2. ASSUME StatesStep(campaign.messages, campaign.actions, Scores)  PROVE MetricsInv'
    <2>1. ASSUME NEW m, RecordEmailReceived(m)  PROVE MetricsInv'
      BY <1>1, <2>1, ReceivedKeeps DEF MetricsInv, StatesInv, RecordEmailReceived
    <2>2. ASSUME NEW m, RecordProcessingStart(m)  PROVE MetricsInv'
      BY <1>1, <2>2, StartedKeeps DEF MetricsInv, StatesInv, RecordProcessingStart
    <2>3. ASSUME NEW m, NEW a, NEW s, RecordProcessingComplete(m, a, s)  PROVE MetricsInv'
      BY <1>1, <2>3, CompletedKeeps, CompletedEmailFits DEF MetricsInv, StatesInv
    <2>. QED  BY <1>2, <2>1, <2>2, <2>3 DEF StatesStep
  <1>3. ASSUME NEW m, NEW ms, NEW s, NEW a, LogEmailProcessed(m, ms, s, a)  PROVE MetricsInv'
    <2>1. EmailFits(email')
      BY <1>3, WithTimeFits, CountedFits DEF LogEmailProcessed, MetricsInv
    <2>. QED  BY <1>1, <1>3, <2>1, LoggedKeeps DEF MetricsInv, StatesInv
  <1>4. CASE UNCHANGED <<states, balance, email>>
    BY <1>1, <1>4 DEF MetricsInv, StatesInv
  <1>5. CountersStep => UNCHANGED <<states, balance, email>>
    BY DEF CountersStep, RecordRateLimitExceeded, RecordToxicEmailDetected, RecordApiCall,
           RecordCache, RecordSecurity
  <1>6. ObservabilityStep =>
          \/ UNCHANGED <<states, balance, email>>
          \/ \E m \in campaign.messages, ms \in Times, s \in Scores, a \in campaign.actions :
               LogEmailProcessed(m, ms, s, a)
    BY DEF ObservabilityStep, RecordHighToxicityEmail, RecordToxicEmailDetected,
           RecordPerformanceDegradation, ResolveAlert, ConfigureAlerting, ConfigureLogging, metricsVars
  <1>. QED  BY <1>2, <1>3, <1>4, <1>5, <1>6 DEF Next, Call, Tick, vars, metricsVars

\* What the collector keeps agrees with what it was told, across rotations of the
\* salt and evictions, for every limit, every salt interval and every message.
THEOREM MetricsAlwaysAddUp == Spec => []MetricsAddUp
  <1>1. MetricsInv => StatesStayBounded /\ AverageBetweenExtremes
    BY DEF MetricsInv, StatesInv, StatesFit, EmailFits, StatesStayBounded, AverageBetweenExtremes
  <1>2. MetricsInv => CountedOnce
    <2>. SUFFICES ASSUME MetricsInv, NEW m \in Messages  PROVE balance[m] >= 0
      BY DEF CountedOnce
    <2>1. /\ IsFiniteSet(KeysIn(states, m)) /\ Cardinality(KeysIn(states, m)) <= balance[m]
          /\ balance[m] \in Int
      BY DEF MetricsInv, StatesInv, BalanceFits
    <2>. QED  BY <2>1, FiniteCard
  <1>3. MetricsInv => MetricsAddUp
    BY <1>1, <1>2 DEF MetricsAddUp
  <1>. QED  BY <1>3, MetricsInvInit, MetricsInvNext, PTL DEF Spec

-----------------------------------------------------------------------------
(* The alerts.  No bound is known for the history but the one of           *)
(* AlertingAssumption, so how far the last alert about a toxic message can *)
(* be pushed back is shown by induction over the alerts that follow it.    *)

\* A set of numbers has a least one.
LEMMA LeastOf ==
  ASSUME NEW S, S \subseteq Nat, S # {}
  PROVE  \E x \in S : \A y \in S : x <= y
  <1>. DEFINE less == OpToRel(<, Nat)
  <1>1. PICK x \in S : \A y \in S : ~ (<<y, x>> \in less)
    <2>1. IsWellFoundedOn(less, Nat)
      BY NatLessThanWellFounded
    <2>. HIDE DEF less
    <2>. QED  BY <2>1, WFMin
  <1>2. \A a, b \in Nat : a < b => <<a, b>> \in less
    BY DEF OpToRel
  <1>. HIDE DEF less
  <1>3. \A y \in S : ~ (y < x)
    BY <1>1, <1>2
  <1>. QED  BY <1>3

\* What holds of 0 and of each successor holds of every number.
LEMMA Induction ==
  ASSUME NEW S, 0 \in S, \A n \in S \cap Nat : n + 1 \in S
  PROVE  Nat \subseteq S
  <1>. SUFFICES ASSUME Nat \ S # {}  PROVE FALSE
    OBVIOUS
  <1>1. PICK x \in Nat \ S : \A y \in Nat \ S : x <= y
    BY LeastOf
  <1>2. x # 0 /\ x - 1 \in Nat /\ ~ (x <= x - 1)
    OBVIOUS
  <1>3. x - 1 \in S
    BY <1>1, <1>2
  <1>4. (x - 1) + 1 \in S
    BY <1>2, <1>3, Zenon
  <1>. QED  BY <1>4

Alerts == [type : AlertTypes, at : Nat, severity : {"high", "medium"}, resolved : BOOLEAN,
           resolvedAt : Nat]
Cooldowns == {c.cooldown : c \in Configs}

\* A history in the order of time, whose alerts of one type are apart.
InOrder(h, t, apart) ==
  /\ \A i \in 1 .. Len(h) : h[i].at <= t
  /\ \A i, j \in 1 .. Len(h) : i <= j => h[i].at <= h[j].at
  /\ \A i, j \in 1 .. Len(h) : i < j /\ h[i].type = h[j].type => h[j].at - h[i].at >= apart

\* The last alert about a toxic message.
LastToxic(h, i) ==
  /\ i \in 1 .. Len(h) /\ h[i].type = "high_toxicity"
  /\ \A j \in i + 1 .. Len(h) : h[j].type # "high_toxicity"

\* All alerts after it are of the other type, so they are apart.
LEMMA OthersSpread ==
  ASSUME NEW h \in Seq(Alerts), NEW t, NEW apart \in Nat, InOrder(h, t, apart),
         NEW i, LastToxic(h, i), NEW m \in Nat, i + 1 + m <= Len(h)
  PROVE  h[i + 1 + m].at >= h[i].at + m * apart
  <1>. DEFINE S == {n \in Nat : i + 1 + n <= Len(h) => h[i + 1 + n].at >= h[i].at + n * apart}
  <1>1. i \in 1 .. Len(h) /\ Len(h) \in Nat
    BY DEF LastToxic
  <1>2. \A j \in 1 .. Len(h) : h[j].at \in Nat /\ h[j].type \in AlertTypes
    <2>. SUFFICES ASSUME NEW j \in 1 .. Len(h)  PROVE h[j].at \in Nat /\ h[j].type \in AlertTypes
      OBVIOUS
    <2>1. h[j] \in Alerts
      OBVIOUS
    <2>. QED  BY <2>1 DEF Alerts
  <1>3. 0 \in S
    <2>1. i + 1 + 0 = i + 1 /\ 0 * apart = 0
      BY <1>1
    <2>2. i + 1 <= Len(h) => h[i + 1].at >= h[i].at
      BY <1>1 DEF InOrder
    <2>3. h[i].at + 0 = h[i].at
      BY <1>1, <1>2
    <2>. QED  BY <2>1, <2>2, <2>3
  <1>4. ASSUME NEW n \in S \cap Nat  PROVE n + 1 \in S
    <2>. SUFFICES ASSUME i + 1 + (n + 1) <= Len(h)
                  PROVE  h[i + 1 + (n + 1)].at >= h[i].at + (n + 1) * apart
      OBVIOUS
    <2>. DEFINE p == i + 1 + n
                q == i + 1 + (n + 1)
                x == n * apart
    <2>1. p \in 1 .. Len(h) /\ q \in 1 .. Len(h) /\ p < q /\ p \in i + 1 .. Len(h) /\ q \in i + 1 .. Len(h)
      BY <1>1
    <2>2. (n + 1) * apart = x + apart
      OBVIOUS
    <2>8. x \in Nat
      OBVIOUS
    <2>3. h[p].at >= h[i].at + x
      BY <2>1
    <2>. HIDE DEF S, p, q, x
    <2>4. h[p].type = h[q].type
      BY <1>2, <2>1 DEF LastToxic, AlertTypes
    <2>5. h[q].at - h[p].at >= apart
      BY <2>1, <2>4 DEF InOrder
    <2>6. h[p].at \in Nat /\ h[q].at \in Nat /\ h[i].at \in Nat
      BY <1>1, <1>2, <2>1
    <2>7. h[q].at >= h[i].at + (x + apart)
      <3>1. \A a, b, c \in Nat : b >= a + x /\ c - b >= apart => c >= a + (x + apart)
        BY <2>8
      <3>. QED  BY <2>3, <2>5, <2>6, <3>1, Zenon
    <2>. QED  BY <2>2, <2>7 DEF q
  <1>5. m \in S
    <2>. HIDE DEF S
    <2>. QED  BY <1>3, <1>4, Induction
  <1>. QED  BY <1>5

\* An alert of the last cool-down is among the last n.
LEMMA RecentIsKept ==
  ASSUME NEW h \in Seq(Alerts), NEW t \in Nat, NEW apart \in Nat \ {0}, InOrder(h, t, apart),
         NEW i, LastToxic(h, i), NEW c \in Nat, NEW n \in Nat, c <= (n - 1) * apart,
         t - h[i].at < c
  PROVE  i > Len(h) - n
  <1>1. /\ i \in 1 .. Len(h) /\ Len(h) \in Nat /\ h[i].at <= t
        /\ \A j \in 1 .. Len(h) : h[j].at \in Nat /\ h[j].at <= t
    <2>1. \A j \in 1 .. Len(h) : h[j] \in Alerts
      OBVIOUS
    <2>. QED  BY <2>1 DEF LastToxic, InOrder, Alerts
  <1>2. c >= 1
    BY <1>1
  <1>3. n # 0
    <2>. SUFFICES ASSUME n = 0  PROVE FALSE
      OBVIOUS
    <2>1. (n - 1) * apart = 0 - apart
      OBVIOUS
    <2>. QED  BY <1>2, <2>1
  <1>. SUFFICES ASSUME i <= Len(h) - n  PROVE FALSE
    BY <1>1
  <1>. DEFINE m == n - 1
              x == m * apart
  <1>4. m \in Nat /\ x \in Int /\ i + 1 + m = i + n
    BY <1>1, <1>3
  <1>5. i + 1 + m <= Len(h) /\ i + 1 + m \in 1 .. Len(h)
    BY <1>1, <1>4
  <1>6. h[i + 1 + m].at >= h[i].at + x
    BY <1>4, <1>5, OthersSpread
  <1>7. c <= x
    OBVIOUS
  <1>. HIDE DEF m, x
  <1>. QED  BY <1>1, <1>4, <1>5, <1>6, <1>7

\* The newest entries are what follows the first ones.
LEMMA NewestOf ==
  ASSUME NEW T, NEW h \in Seq(T), NEW n \in Nat
  PROVE  LET g == Newest(h, n)
             k == Len(h) - Len(g)
         IN  /\ g \in Seq(T) /\ k \in 0 .. Len(h) /\ Len(g) = Len(h) - k
             /\ \A i \in 1 .. Len(g) : g[i] = h[k + i]
             /\ k = 0 \/ k = Len(h) - n
  <1>1. CASE ~ (Len(h) > n)
    BY <1>1 DEF Newest
  <1>2. CASE Len(h) > n
    <2>. DEFINE m == Len(h) - n
                g == SubSeq(h, m + 1, Len(h))
    <2>1. m \in 0 .. Len(h)
      BY <1>2
    <2>2. Newest(h, n) = g
      BY <1>2 DEF Newest
    <2>3. /\ g \in Seq(T) /\ Len(g) = Len(h) - m
          /\ \A i \in 1 .. Len(h) - m : g[i] = h[m + i]
      <3>. HIDE DEF m
      <3>. QED  BY <2>1, SubSeqProperties
    <2>. HIDE DEF g
    <2>4. Len(h) - Len(g) = m
      BY <2>1, <2>3
    <2>. QED  BY <2>1, <2>2, <2>3, <2>4
  <1>. QED  BY <1>1, <1>2

LEMMA NewestInOrder ==
  ASSUME NEW h \in Seq(Alerts), NEW n \in Nat, NEW t, NEW apart, InOrder(h, t, apart)
  PROVE  LET g == Newest(h, n)
         IN  /\ g \in Seq(Alerts) /\ InOrder(g, t, apart)
             /\ \A i \in 1 .. Len(g) : \E j \in 1 .. Len(h) : g[i] = h[j]
             /\ \A i : LastToxic(h, i) /\ i > Len(h) - n =>
                         \E j : LastToxic(g, j) /\ g[j].at = h[i].at
  <1>. DEFINE g == Newest(h, n)
              k == Len(h) - Len(g)
  <1>1. /\ g \in Seq(Alerts) /\ k \in 0 .. Len(h) /\ Len(g) = Len(h) - k
        /\ \A i \in 1 .. Len(g) : g[i] = h[k + i]
        /\ k = 0 \/ k = Len(h) - n
    BY NewestOf
  <1>. HIDE DEF g, k
  <1>2. Len(h) \in Nat /\ \A i \in 1 .. Len(g) : k + i \in 1 .. Len(h)
    BY <1>1
  <1>3. InOrder(g, t, apart)
    <2>1. \A i, j \in 1 .. Len(g) : (i <= j => k + i <= k + j) /\ (i < j => k + i < k + j)
      BY <1>1
    <2>. QED  BY <1>1, <1>2, <2>1 DEF InOrder
  <1>4. \A i \in 1 .. Len(g) : \E j \in 1 .. Len(h) : g[i] = h[j]
    BY <1>1, <1>2
  <1>5. ASSUME NEW i, LastToxic(h, i), i > Len(h) - n
        PROVE  \E j : LastToxic(g, j) /\ g[j].at = h[i].at
    <2>. DEFINE p == i - k
    <2>1. i \in 1 .. Len(h) /\ h[i].type = "high_toxicity"
      BY <1>5 DEF LastToxic
    <2>2. p \in 1 .. Len(g) /\ k + p = i
      BY <1>1, <1>2, <1>5, <2>1
    <2>. HIDE DEF p
    <2>3. g[p] = h[i]
      BY <1>1, <2>2
    <2>4. ASSUME NEW j \in p + 1 .. Len(g)  PROVE g[j].type # "high_toxicity"
      <3>1. j \in 1 .. Len(g) /\ k + j \in i + 1 .. Len(h)
        BY <1>1, <2>1, <2>2
      <3>. QED  BY <1>1, <1>5, <3>1 DEF LastToxic
    <2>. QED  BY <2>1, <2>2, <2>3, <2>4 DEF LastToxic
  <1>. QED  BY <1>1, <1>3, <1>4, <1>5 DEF g

\* An alert that is apart from those of its type comes after them.
LEMMA OneMoreAlert ==
  ASSUME NEW h \in Seq(Alerts), NEW t, NEW apart, InOrder(h, t, apart), NEW a \in Alerts, a.at = t,
         \A i \in 1 .. Len(h) : h[i].type = a.type => t - h[i].at >= apart
  PROVE  LET g == h \o <<a>>
         IN  /\ g \in Seq(Alerts) /\ InOrder(g, t, apart)
             /\ Len(g) = Len(h) + 1 /\ g[Len(h) + 1] = a /\ \A i \in 1 .. Len(h) : g[i] = h[i]
             /\ a.type # "high_toxicity" => \A i : LastToxic(h, i) => LastToxic(g, i)
             /\ a.type = "high_toxicity" => LastToxic(g, Len(h) + 1)
  <1>. DEFINE g == h \o <<a>>
              n == Len(h) + 1
  <1>1. /\ g \in Seq(Alerts) /\ Len(g) = n /\ g[n] = a /\ \A i \in 1 .. Len(h) : g[i] = h[i]
        /\ Len(h) \in Nat /\ t \in Nat
    BY DEF Alerts
  <1>. HIDE DEF g
  <1>2. \A i \in 1 .. n : i \in 1 .. Len(h) \/ i = n
    BY <1>1
  <1>3. \A i \in 1 .. n : g[i].at <= t
    BY <1>1, <1>2 DEF InOrder
  <1>4. ASSUME NEW i \in 1 .. n, NEW j \in 1 .. n, i <= j  PROVE g[i].at <= g[j].at
    <2>1. CASE j = n
      BY <1>1, <1>3, <2>1
    <2>2. CASE i \in 1 .. Len(h) /\ j \in 1 .. Len(h)
      BY <1>1, <1>4, <2>2 DEF InOrder
    <2>. QED  BY <1>1, <1>2, <1>4, <2>1, <2>2
  <1>5. ASSUME NEW i \in 1 .. n, NEW j \in 1 .. n, i < j, g[i].type = g[j].type
        PROVE  g[j].at - g[i].at >= apart
    <2>1. i \in 1 .. Len(h)
      BY <1>1, <1>5
    <2>2. CASE j = n
      BY <1>1, <1>5, <2>1, <2>2
    <2>3. CASE j \in 1 .. Len(h)
      BY <1>1, <1>5, <2>1, <2>3 DEF InOrder
    <2>. QED  BY <1>2, <2>2, <2>3
  <1>6. ASSUME NEW i, LastToxic(h, i), a.type # "high_toxicity"  PROVE LastToxic(g, i)
    <2>1. i \in 1 .. Len(h) /\ i \in 1 .. n /\ g[i].type = "high_toxicity"
      BY <1>1, <1>6 DEF LastToxic
    <2>2. \A j \in i + 1 .. n : j = n \/ j \in i + 1 .. Len(h)
      BY <1>1, <2>1
    <2>3. \A j \in i + 1 .. Len(h) : j \in 1 .. Len(h) /\ h[j].type # "high_toxicity"
      BY <1>6, <2>1 DEF LastToxic
    <2>4. \A j \in i + 1 .. n : g[j].type # "high_toxicity"
      BY <1>1, <1>6, <2>2, <2>3
    <2>. QED  BY <1>1, <2>1, <2>4 DEF LastToxic
  <1>7. a.type = "high_toxicity" => LastToxic(g, n)
    BY <1>1 DEF LastToxic
  <1>8. InOrder(g, t, apart)
    BY <1>1, <1>3, <1>4, <1>5 DEF InOrder
  <1>. QED  BY <1>1, <1>6, <1>7, <1>8 DEF g

\* What is known of the times of the last alerts: no alert of the type is newer; a
\* type without a time has had none for a cool-down; and an alert about a toxic
\* message that still cools down is in the history.
TimesFit(times) ==
  /\ DOMAIN times \subseteq AlertTypes
  /\ \A t \in DOMAIN times : times[t] \in Nat /\ times[t] <= now
  /\ \A i \in 1 .. Len(alertHistory) :
       LET a == alertHistory[i]
       IN  IF a.type \in DOMAIN times THEN a.at <= times[a.type] ELSE now - a.at >= leastCooldown
  /\ "high_toxicity" \in DOMAIN times =>
       \A c \in Cooldowns : now - times["high_toxicity"] < c =>
         \E i : LastToxic(alertHistory, i) /\ alertHistory[i].at = times["high_toxicity"]

\* The message of this moment was reported, or one of the last cool-down.
ReportFits ==
  toxicAt.on =>
    /\ toxicAt.at \in Nat /\ toxicAt.at <= now
    /\ toxicAt.at = now =>
         /\ toxicAt.cooldown \in Cooldowns
         /\ \E i : LastToxic(alertHistory, i) /\ now - alertHistory[i].at < toxicAt.cooldown

AlertsInv ==
  /\ now \in Nat /\ config \in Configs
  /\ leastCooldown \in Cooldowns /\ leastCooldown <= config.cooldown
  /\ active \subseteq Alerts
  /\ alertHistory \in Seq(Alerts) /\ InOrder(alertHistory, now, leastCooldown)
  /\ TimesFit(lastAlert)
  /\ ReportFits

LEMMA CooldownFacts ==
  /\ MaxAlerts \in Nat
  /\ \A c \in Cooldowns : c \in Nat \ {0}
  /\ \A c, d \in Cooldowns : c <= (MaxAlerts - 1) * d
  /\ \A c \in Configs : c.cooldown \in Cooldowns
  BY AlertingAssumption DEF Cooldowns

\* An alert about a toxic message that cools down stays in the history.
LEMMA CoolingIsKept ==
  ASSUME NEW h \in Seq(Alerts), NEW t \in Nat, NEW apart \in Cooldowns, InOrder(h, t, apart),
         NEW i, LastToxic(h, i), NEW c \in Cooldowns, t - h[i].at < c
  PROVE  \E j : LastToxic(Newest(h, MaxAlerts), j) /\ Newest(h, MaxAlerts)[j].at = h[i].at
  <1>1. /\ MaxAlerts \in Nat /\ c \in Nat /\ apart \in Nat \ {0} /\ c <= (MaxAlerts - 1) * apart
    BY CooldownFacts
  <1>2. i > Len(h) - MaxAlerts
    BY <1>1, RecentIsKept
  <1>3. \A k : LastToxic(h, k) /\ k > Len(h) - MaxAlerts =>
               \E j : LastToxic(Newest(h, MaxAlerts), j) /\ Newest(h, MaxAlerts)[j].at = h[k].at
    <2>1. MaxAlerts \in Nat
      BY <1>1
    <2>. QED  BY <2>1, NewestInOrder, Zenon
  <1>. QED  BY <1>2, <1>3, Zenon

\* The clean-up forgets only times that cool nothing down any more.
LEMMA CleanedTimesFit == AlertsInv => TimesFit(TimesAfterCleanup) /\ AfterCleanup \subseteq Alerts
  <1>. SUFFICES ASSUME AlertsInv
                PROVE  TimesFit(TimesAfterCleanup) /\ AfterCleanup \subseteq Alerts
    OBVIOUS
  <1>1. AfterCleanup \subseteq Alerts
    BY DEF AlertsInv, AfterCleanup, KeptAlerts
  <1>2. CASE ~ CleanupDue
    BY <1>1, <1>2 DEF AlertsInv, TimesAfterCleanup
  <1>3. CASE CleanupDue
    <2>. DEFINE times == [t \in KeptTimes(config.cooldown) |-> lastAlert[t]]
    <2>1. TimesAfterCleanup = times
      BY <1>3 DEF TimesAfterCleanup
    <2>2. /\ DOMAIN times \subseteq DOMAIN lastAlert /\ DOMAIN lastAlert \subseteq AlertTypes
          /\ \A t \in DOMAIN times : times[t] = lastAlert[t]
          /\ \A t \in DOMAIN lastAlert \ DOMAIN times : ~ (now - lastAlert[t] < 2 * config.cooldown)
          /\ \A t \in DOMAIN lastAlert : lastAlert[t] \in Nat /\ lastAlert[t] <= now
      BY DEF KeptTimes, AlertsInv, TimesFit
    <2>. HIDE DEF times
    <2>3. /\ now \in Nat /\ config.cooldown \in Nat /\ leastCooldown \in Nat
          /\ leastCooldown <= config.cooldown
      BY CooldownFacts DEF AlertsInv
    <2>4. ASSUME NEW i \in 1 .. Len(alertHistory)
          PROVE  LET a == alertHistory[i]
                 IN  IF a.type \in DOMAIN times THEN a.at <= times[a.type]
                     ELSE now - a.at >= leastCooldown
      <3>. DEFINE a == alertHistory[i]
      <3>1. a \in Alerts
        BY DEF AlertsInv
      <3>2. a.at \in Nat
        BY <3>1 DEF Alerts
      <3>3. IF a.type \in DOMAIN lastAlert THEN a.at <= lastAlert[a.type]
            ELSE now - a.at >= leastCooldown
        BY DEF AlertsInv, TimesFit
      <3>. HIDE DEF a
      <3>4. IF a.type \in DOMAIN times THEN a.at <= times[a.type] ELSE now - a.at >= leastCooldown
        <4>1. CASE a.type \in DOMAIN times
          BY <2>2, <3>3, <4>1
        <4>2. CASE a.type \in DOMAIN lastAlert \ DOMAIN times
          BY <2>2, <2>3, <3>2, <3>3, <4>2
        <4>3. CASE a.type \notin DOMAIN lastAlert
          BY <2>2, <3>3, <4>3
        <4>. QED  BY <4>1, <4>2, <4>3
      <3>. QED  BY <3>4 DEF a
    <2>5. ASSUME "high_toxicity" \in DOMAIN times, NEW c \in Cooldowns, now - times["high_toxicity"] < c
          PROVE  \E i : LastToxic(alertHistory, i) /\ alertHistory[i].at = times["high_toxicity"]
      BY <2>2, <2>5 DEF AlertsInv, TimesFit
    <2>6. TimesFit(times)
      BY <2>2, <2>4, <2>5 DEF TimesFit
    <2>. QED  BY <1>1, <2>1, <2>6
  <1>. QED  BY <1>1, <1>2, <1>3

\* An alert of a type that is cool is apart from all of its type.
LEMMA RaisedApart ==
  ASSUME AlertsInv, NEW times, TimesFit(times), NEW score, NEW ms, NEW t \in Raised(score, ms, times)
  PROVE  \A i \in 1 .. Len(alertHistory) :
           alertHistory[i].type = t => now - alertHistory[i].at >= leastCooldown
  <1>. SUFFICES ASSUME NEW i \in 1 .. Len(alertHistory), alertHistory[i].type = t
                PROVE  now - alertHistory[i].at >= leastCooldown
    OBVIOUS
  <1>1. Cool(t, times)
    BY DEF Raised
  <1>2. alertHistory[i] \in Alerts
    BY DEF AlertsInv
  <1>3. alertHistory[i].at \in Nat
    BY <1>2 DEF Alerts
  <1>4. /\ now \in Nat /\ leastCooldown \in Nat /\ config.cooldown \in Nat
        /\ leastCooldown <= config.cooldown
    BY CooldownFacts DEF AlertsInv
  <1>5. CASE t \in DOMAIN times
    <2>1. times[t] \in Nat /\ now - times[t] >= config.cooldown /\ alertHistory[i].at <= times[t]
      BY <1>1, <1>5 DEF Cool, TimesFit
    <2>. QED  BY <1>3, <1>4, <2>1
  <1>6. CASE t \notin DOMAIN times
    BY <1>6 DEF TimesFit
  <1>. QED  BY <1>5, <1>6

\* The history with the alerts a message raises: only those are new.
Grown(h, types) ==
  /\ h \in Seq(Alerts) /\ InOrder(h, now, leastCooldown)
  /\ \A i \in 1 .. Len(h) : \/ \E j \in 1 .. Len(alertHistory) : h[i] = alertHistory[j]
                            \/ h[i].type \in types /\ h[i].at = now
  /\ "high_toxicity" \in types => \E i : LastToxic(h, i) /\ h[i].at = now
  /\ "high_toxicity" \notin types =>
       \A i : LastToxic(alertHistory, i) =>
         \E j : LastToxic(h, j) /\ h[j].at = alertHistory[i].at

LEMMA HistoryGrows ==
  ASSUME AlertsInv, NEW times, TimesFit(times), NEW score, NEW ms, NEW added,
         added = (IF "high_toxicity" \in Raised(score, ms, times)
                  THEN <<Alert("high_toxicity", score)>> ELSE <<>>)
                 \o (IF "performance_degradation" \in Raised(score, ms, times)
                     THEN <<Alert("performance_degradation", score)>> ELSE <<>>)
  PROVE  Grown(alertHistory \o added, Raised(score, ms, times))
  <1>. DEFINE types == Raised(score, ms, times)
              g == alertHistory
              a == Alert("high_toxicity", score)
              b == Alert("performance_degradation", score)
              A == IF "high_toxicity" \in types THEN <<a>> ELSE <<>>
              B == IF "performance_degradation" \in types THEN <<b>> ELSE <<>>
              f == g \o A
              h == f \o B
  <1>1. /\ now \in Nat /\ g \in Seq(Alerts) /\ InOrder(g, now, leastCooldown)
        /\ a \in Alerts /\ b \in Alerts
        /\ a.at = now /\ b.at = now /\ a.type = "high_toxicity" /\ b.type = "performance_degradation"
    BY DEF AlertsInv, Alert, Alerts, AlertTypes
  <1>2. \A t \in types : \A i \in 1 .. Len(g) : g[i].type = t => now - g[i].at >= leastCooldown
    BY RaisedApart
  <1>3. g \o added = h
    <2>1. A \in Seq(Alerts) /\ B \in Seq(Alerts)
      BY <1>1
    <2>2. added = A \o B
      OBVIOUS
    <2>3. \A x, y, z \in Seq(Alerts) : x \o (y \o z) = (x \o y) \o z
      BY ConcatAssociative
    <2>. HIDE DEF A, B, g
    <2>4. g \o (A \o B) = (g \o A) \o B
      BY <1>1, <2>1, <2>3
    <2>. QED  BY <2>2, <2>4
  <1>. HIDE DEF types, g, a, b
  <1>4. /\ f \in Seq(Alerts) /\ InOrder(f, now, leastCooldown)
        /\ \A i \in 1 .. Len(f) : \/ i \in 1 .. Len(g) /\ f[i] = g[i]
                                  \/ f[i] = a /\ "high_toxicity" \in types
        /\ "high_toxicity" \in types => LastToxic(f, Len(g) + 1) /\ f[Len(g) + 1] = a
        /\ "high_toxicity" \notin types => f = g
    <2>1. CASE "high_toxicity" \in types
      <3>1. f = g \o <<a>>
        BY <2>1
      <3>. HIDE DEF f
      <3>2. /\ f \in Seq(Alerts) /\ InOrder(f, now, leastCooldown)
            /\ Len(f) = Len(g) + 1 /\ f[Len(g) + 1] = a /\ \A i \in 1 .. Len(g) : f[i] = g[i]
            /\ LastToxic(f, Len(g) + 1)
        BY <1>1, <1>2, <2>1, <3>1, OneMoreAlert
      <3>3. Len(g) \in Nat
        BY <1>1
      <3>4. \A i \in 1 .. Len(f) : i \in 1 .. Len(g) \/ i = Len(g) + 1
        BY <3>2, <3>3
      <3>. QED  BY <2>1, <3>2, <3>4
    <2>2. CASE "high_toxicity" \notin types
      <3>1. f = g
        BY <1>1, <2>2
      <3>. HIDE DEF f
      <3>. QED  BY <1>1, <2>2, <3>1
    <2>. QED  BY <2>1, <2>2
  <1>. HIDE DEF f
  <1>5. /\ h \in Seq(Alerts) /\ InOrder(h, now, leastCooldown)
        /\ \A i \in 1 .. Len(h) : \/ i \in 1 .. Len(f) /\ h[i] = f[i]
                                  \/ h[i] = b /\ "performance_degradation" \in types
        /\ \A i : LastToxic(f, i) => LastToxic(h, i) /\ h[i] = f[i]
    <2>1. CASE "performance_degradation" \in types
      <3>1. h = f \o <<b>>
        BY <2>1
      <3>. HIDE DEF h
      <3>2. \A i \in 1 .. Len(f) : f[i].type = b.type => now - f[i].at >= leastCooldown
        BY <1>1, <1>2, <1>4, <2>1
      <3>3. /\ h \in Seq(Alerts) /\ InOrder(h, now, leastCooldown)
            /\ Len(h) = Len(f) + 1 /\ h[Len(f) + 1] = b /\ \A i \in 1 .. Len(f) : h[i] = f[i]
            /\ \A i : LastToxic(f, i) => LastToxic(h, i)
        BY <1>1, <1>4, <3>1, <3>2, OneMoreAlert
      <3>4. Len(f) \in Nat
        BY <1>4
      <3>5. \A i \in 1 .. Len(h) : i \in 1 .. Len(f) \/ i = Len(f) + 1
        BY <3>3, <3>4
      <3>6. \A i : LastToxic(f, i) => h[i] = f[i]
        BY <3>3 DEF LastToxic
      <3>. QED  BY <2>1, <3>3, <3>5, <3>6
    <2>2. CASE "performance_degradation" \notin types
      <3>1. h = f
        BY <1>4, <2>2
      <3>. HIDE DEF h
      <3>. QED  BY <1>4, <2>2, <3>1
    <2>. QED  BY <2>1, <2>2
  <1>. HIDE DEF h
  <1>6. ASSUME NEW i \in 1 .. Len(h)
        PROVE  (\E j \in 1 .. Len(g) : h[i] = g[j]) \/ (h[i].type \in types /\ h[i].at = now)
    <2>1. CASE i \in 1 .. Len(f) /\ h[i] = f[i]
      BY <1>1, <1>4, <2>1
    <2>2. CASE h[i] = b /\ "performance_degradation" \in types
      BY <1>1, <2>2
    <2>. QED  BY <1>5, <2>1, <2>2
  <1>7. "high_toxicity" \in types => \E i : LastToxic(h, i) /\ h[i].at = now
    BY <1>1, <1>4, <1>5
  <1>8. "high_toxicity" \notin types =>
          \A i : LastToxic(g, i) => \E j : LastToxic(h, j) /\ h[j].at = g[i].at
    BY <1>4, <1>5
  <1>. QED  BY <1>3, <1>5, <1>6, <1>7, <1>8 DEF Grown, g, types

\* A message: its alerts are in the history, and those that cool down stay there.
LEMMA CheckAlertsKeeps ==
  ASSUME AlertsInv, NEW times, TimesFit(times), NEW A, A \subseteq Alerts,
         NEW score, NEW ms, NEW entries, CheckAlerts(score, ms, entries, A, times),
         UNCHANGED <<now, config, leastCooldown>>
  PROVE  AlertsInv' /\ A \subseteq active'
  <1>. DEFINE types == Raised(score, ms, times)
              Added(t) == IF t \in types THEN <<Alert(t, score)>> ELSE <<>>
              added == Added("high_toxicity") \o Added("performance_degradation")
              h == alertHistory \o added
              g == Newest(h, MaxAlerts)
              toxic == "high_toxicity"
  <1>1. /\ active' = A \cup {Alert(t, score) : t \in types}
        /\ alertHistory' = g
        /\ lastAlert' = [t \in DOMAIN times \cup types |-> IF t \in types THEN now ELSE times[t]]
        /\ toxicAt' = IF config.enabled /\ score >= config.toxicity
                      THEN [on |-> TRUE, at |-> now, cooldown |-> config.cooldown] ELSE toxicAt
    BY DEF CheckAlerts
  <1>2. types \subseteq AlertTypes
    BY DEF Raised
  <1>3. active' \subseteq Alerts /\ A \subseteq active'
    <2>1. \A t \in types : Alert(t, score) \in Alerts
      BY <1>2 DEF Alert, Alerts, AlertsInv
    <2>. QED  BY <1>1, <2>1
  <1>4. /\ now \in Nat /\ leastCooldown \in Cooldowns /\ leastCooldown \in Nat
        /\ MaxAlerts \in Nat /\ config.cooldown \in Cooldowns /\ config.cooldown \in Nat \ {0}
        /\ \A c \in Cooldowns : c \in Nat \ {0}
    BY CooldownFacts DEF AlertsInv
  <1>5. Grown(h, types)
    <2>1. added = (IF "high_toxicity" \in types THEN <<Alert("high_toxicity", score)>> ELSE <<>>)
                  \o (IF "performance_degradation" \in types
                      THEN <<Alert("performance_degradation", score)>> ELSE <<>>)
      OBVIOUS
    <2>. HIDE DEF added
    <2>. QED  BY <2>1, HistoryGrows
  <1>6. (~ (toxic \in types)) =>
          (config.enabled /\ score >= config.toxicity => toxic \in DOMAIN times
             /\ ~ (now - times[toxic] >= config.cooldown))
    BY DEF Raised, Cool, AlertTypes
  <1>. HIDE DEF types, h, added
  <1>7. /\ g \in Seq(Alerts) /\ InOrder(g, now, leastCooldown)
        /\ \A i \in 1 .. Len(g) : \E j \in 1 .. Len(h) : g[i] = h[j]
    BY <1>4, <1>5, NewestInOrder DEF Grown
  <1>8. \A i : \A c \in Cooldowns : LastToxic(h, i) /\ now - h[i].at < c =>
                 \E j : LastToxic(g, j) /\ g[j].at = h[i].at
    BY <1>4, <1>5, CoolingIsKept DEF Grown
  <1>. HIDE DEF g
  <1>9. toxic \in types => \E j : LastToxic(g, j) /\ g[j].at = now
    <2>. SUFFICES ASSUME toxic \in types  PROVE \E j : LastToxic(g, j) /\ g[j].at = now
      OBVIOUS
    <2>1. PICK i : LastToxic(h, i) /\ h[i].at = now
      BY <1>5 DEF Grown
    <2>2. now - h[i].at < config.cooldown
      BY <1>4, <2>1
    <2>3. PICK j : LastToxic(g, j) /\ g[j].at = h[i].at
      BY <1>4, <1>8, <2>1, <2>2
    <2>. QED  BY <2>1, <2>3
  <1>10. ASSUME toxic \notin types, NEW at, NEW c \in Cooldowns, now - at < c,
                \E i : LastToxic(alertHistory, i) /\ alertHistory[i].at = at
         PROVE  \E j : LastToxic(g, j) /\ g[j].at = at
    <2>1. PICK i : LastToxic(alertHistory, i) /\ alertHistory[i].at = at
      BY <1>10
    <2>2. PICK k : LastToxic(h, k) /\ h[k].at = alertHistory[i].at
      BY <1>5, <1>10, <2>1 DEF Grown
    <2>3. PICK j : LastToxic(g, j) /\ g[j].at = h[k].at
      BY <1>8, <1>10, <2>1, <2>2
    <2>. QED  BY <2>1, <2>2, <2>3
  <1>11. TimesFit(lastAlert)'
    <2>. DEFINE later == [t \in DOMAIN times \cup types |-> IF t \in types THEN now ELSE times[t]]
    <2>1. /\ DOMAIN later = DOMAIN times \cup types
          /\ \A t \in types : later[t] = now
          /\ \A t \in DOMAIN times \ types : later[t] = times[t]
      OBVIOUS
    <2>2. lastAlert' = later
      BY <1>1
    <2>. HIDE DEF later
    <2>3. /\ DOMAIN times \subseteq AlertTypes
          /\ \A t \in DOMAIN times : times[t] \in Nat /\ times[t] <= now
      BY DEF TimesFit
    <2>4. DOMAIN later \subseteq AlertTypes /\ \A t \in DOMAIN later : later[t] \in Nat /\ later[t] <= now
      BY <1>2, <1>4, <2>1, <2>3
    <2>5. ASSUME NEW i \in 1 .. Len(g)
          PROVE  IF g[i].type \in DOMAIN later THEN g[i].at <= later[g[i].type]
                 ELSE now - g[i].at >= leastCooldown
      <3>1. PICK k \in 1 .. Len(h) : g[i] = h[k]
        BY <1>7
      <3>2. CASE h[k].type \in types
        <4>1. h[k].at <= now
          BY <1>5 DEF Grown, InOrder
        <4>. QED  BY <2>1, <3>1, <3>2, <4>1
      <3>3. CASE h[k].type \notin types
        <4>1. PICK j \in 1 .. Len(alertHistory) : h[k] = alertHistory[j]
          BY <1>5, <3>3 DEF Grown
        <4>2. IF h[k].type \in DOMAIN times THEN h[k].at <= times[h[k].type]
              ELSE now - h[k].at >= leastCooldown
          BY <4>1 DEF TimesFit
        <4>. QED  BY <2>1, <3>1, <3>3, <4>2
      <3>. QED  BY <3>2, <3>3
    <2>6. ASSUME toxic \in DOMAIN later, NEW c \in Cooldowns, now - later[toxic] < c
          PROVE  \E i : LastToxic(g, i) /\ g[i].at = later[toxic]
      <3>1. CASE toxic \in types
        BY <1>9, <2>1, <3>1
      <3>2. CASE toxic \notin types
        <4>1. toxic \in DOMAIN times /\ later[toxic] = times[toxic]
          BY <2>1, <2>6, <3>2
        <4>2. \E i : LastToxic(alertHistory, i) /\ alertHistory[i].at = times[toxic]
          BY <2>6, <4>1 DEF TimesFit
        <4>. QED  BY <1>10, <2>6, <3>2, <4>1, <4>2
      <3>. QED  BY <3>1, <3>2
    <2>. QED  BY <1>1, <2>2, <2>4, <2>5, <2>6 DEF TimesFit
  <1>12. ReportFits'
    <2>1. ASSUME config.enabled /\ score >= config.toxicity
          PROVE  \E j : LastToxic(g, j) /\ now - g[j].at < config.cooldown
      <3>1. CASE toxic \in types
        <4>1. PICK j : LastToxic(g, j) /\ g[j].at = now
          BY <1>9, <3>1
        <4>2. now - g[j].at < config.cooldown
          BY <1>4, <4>1
        <4>. QED  BY <4>1, <4>2
      <3>2. CASE toxic \notin types
        <4>1. toxic \in DOMAIN times /\ ~ (now - times[toxic] >= config.cooldown)
          BY <1>6, <2>1, <3>2
        <4>2. times[toxic] \in Nat
          BY <4>1 DEF TimesFit
        <4>3. now - times[toxic] < config.cooldown
          BY <1>4, <4>1, <4>2
        <4>4. \E i : LastToxic(alertHistory, i) /\ alertHistory[i].at = times[toxic]
          BY <1>4, <4>1, <4>3 DEF TimesFit
        <4>5. PICK j : LastToxic(g, j) /\ g[j].at = times[toxic]
          BY <1>4, <1>10, <3>2, <4>3, <4>4
        <4>. QED  BY <4>3, <4>5
      <3>. QED  BY <3>1, <3>2
    <2>2. CASE config.enabled /\ score >= config.toxicity
      <3>1. toxicAt' = [on |-> TRUE, at |-> now, cooldown |-> config.cooldown]
        BY <1>1, <2>2
      <3>2. toxicAt'.on = TRUE /\ toxicAt'.at = now /\ toxicAt'.cooldown = config.cooldown
        BY <3>1
      <3>. QED  BY <1>1, <1>4, <2>1, <2>2, <3>2 DEF ReportFits
    <2>3. CASE ~ (config.enabled /\ score >= config.toxicity)
      <3>1. toxicAt' = toxicAt
        BY <1>1, <2>3
      <3>2. toxic \notin types
        BY <2>3 DEF Raised, types
      <3>3. ASSUME toxicAt.on, toxicAt.at = now
            PROVE  \E i : LastToxic(g, i) /\ now - g[i].at < toxicAt.cooldown
        <4>1. PICK i : LastToxic(alertHistory, i) /\ now - alertHistory[i].at < toxicAt.cooldown
          BY <3>3 DEF AlertsInv, ReportFits
        <4>2. toxicAt.cooldown \in Cooldowns
          BY <3>3 DEF AlertsInv, ReportFits
        <4>3. PICK j : LastToxic(g, j) /\ g[j].at = alertHistory[i].at
          BY <1>10, <3>2, <4>1, <4>2
        <4>. QED  BY <4>1, <4>3
      <3>. QED  BY <1>1, <3>1, <3>3 DEF ReportFits, AlertsInv
    <2>. QED  BY <2>2, <2>3
  <1>. QED  BY <1>1, <1>3, <1>7, <1>11, <1>12 DEF AlertsInv

LEMMA AlertsInvInit == Init => AlertsInv
  <1>. SUFFICES ASSUME Init  PROVE AlertsInv
    OBVIOUS
  <1>1. /\ now = 0 /\ config \in Configs /\ leastCooldown = config.cooldown
        /\ active = {} /\ alertHistory = <<>> /\ lastAlert = [t \in {} |-> 0]
        /\ toxicAt = [on |-> FALSE, at |-> 0, cooldown |-> 0]
    BY DEF Init
  <1>2. leastCooldown \in Cooldowns /\ config.cooldown \in Nat
    BY <1>1, CooldownFacts
  <1>3. /\ alertHistory \in Seq(Alerts) /\ Len(alertHistory) = 0
        /\ \A i : i \notin 1 .. Len(alertHistory)
    BY <1>1
  <1>4. DOMAIN lastAlert = {}
    BY <1>1
  <1>5. InOrder(alertHistory, now, leastCooldown) /\ TimesFit(lastAlert)
    BY <1>3, <1>4 DEF InOrder, TimesFit
  <1>6. ReportFits
    BY <1>1 DEF ReportFits
  <1>. QED  BY <1>1, <1>2, <1>3, <1>5, <1>6 DEF AlertsInv

\* Time passes: what was apart stays apart, and what has cooled down stays cool.
LEMMA AlertsInvTick == AlertsInv /\ Tick => AlertsInv' /\ UNCHANGED active
  <1>. SUFFICES ASSUME AlertsInv, Tick  PROVE AlertsInv' /\ UNCHANGED active
    OBVIOUS
  <1>1. /\ now' = now + 1 /\ now \in Nat
        /\ UNCHANGED <<config, active, alertHistory, lastAlert, toxicAt, leastCooldown>>
    BY DEF Tick, alertVars, AlertsInv
  <1>2. leastCooldown \in Nat /\ \A c \in Cooldowns : c \in Nat
    BY CooldownFacts DEF AlertsInv
  <1>3. \A i \in 1 .. Len(alertHistory) : alertHistory[i].at \in Nat
    <2>1. \A i \in 1 .. Len(alertHistory) : alertHistory[i] \in Alerts
      BY DEF AlertsInv
    <2>. QED  BY <2>1 DEF Alerts
  <1>4. InOrder(alertHistory, now, leastCooldown)'
    BY <1>1, <1>3 DEF AlertsInv, InOrder
  <1>5. TimesFit(lastAlert)'
    <2>1. /\ DOMAIN lastAlert \subseteq AlertTypes
          /\ \A t \in DOMAIN lastAlert : lastAlert[t] \in Nat /\ lastAlert[t] <= now + 1
      BY <1>1 DEF AlertsInv, TimesFit
    <2>2. ASSUME NEW i \in 1 .. Len(alertHistory)
          PROVE  LET a == alertHistory[i]
                 IN  IF a.type \in DOMAIN lastAlert THEN a.at <= lastAlert[a.type]
                     ELSE (now + 1) - a.at >= leastCooldown
      BY <1>1, <1>2, <1>3 DEF AlertsInv, TimesFit
    <2>3. ASSUME "high_toxicity" \in DOMAIN lastAlert, NEW c \in Cooldowns,
                 (now + 1) - lastAlert["high_toxicity"] < c
          PROVE  \E i : LastToxic(alertHistory, i) /\ alertHistory[i].at = lastAlert["high_toxicity"]
      <3>1. lastAlert["high_toxicity"] \in Nat
        BY <2>1, <2>3
      <3>2. now - lastAlert["high_toxicity"] < c
        BY <1>1, <1>2, <2>3, <3>1
      <3>. QED  BY <2>3, <3>2 DEF AlertsInv, TimesFit
    <2>. QED  BY <1>1, <2>1, <2>2, <2>3 DEF TimesFit
  <1>6. ReportFits'
    <2>1. toxicAt.on => toxicAt.at \in Nat /\ toxicAt.at <= now + 1 /\ toxicAt.at # now + 1
      BY <1>1 DEF AlertsInv, ReportFits
    <2>. QED  BY <1>1, <2>1 DEF ReportFits
  <1>. QED  BY <1>1, <1>4, <1>5, <1>6 DEF AlertsInv

\* A new configuration: the smallest cool-down only falls.
LEMMA AlertsInvConfigure ==
  ASSUME AlertsInv, NEW c \in Configs, ConfigureAlerting(c), UNCHANGED now
  PROVE  AlertsInv' /\ UNCHANGED active
  <1>1. /\ config' = c /\ leastCooldown' = Smaller(leastCooldown, c.cooldown)
        /\ UNCHANGED <<now, active, alertHistory, lastAlert, toxicAt>>
    BY DEF ConfigureAlerting, alertVars
  <1>2. /\ c.cooldown \in Cooldowns /\ leastCooldown \in Cooldowns
        /\ c.cooldown \in Nat /\ leastCooldown \in Nat /\ now \in Nat
    BY CooldownFacts DEF AlertsInv
  <1>3. /\ leastCooldown' \in Cooldowns /\ leastCooldown' \in Nat
        /\ leastCooldown' <= leastCooldown /\ leastCooldown' <= c.cooldown
    BY <1>1, <1>2 DEF Smaller
  <1>4. \A i \in 1 .. Len(alertHistory) : alertHistory[i].at \in Nat
    <2>1. \A i \in 1 .. Len(alertHistory) : alertHistory[i] \in Alerts
      BY DEF AlertsInv
    <2>. QED  BY <2>1 DEF Alerts
  <1>5. InOrder(alertHistory, now, leastCooldown)'
    <2>1. InOrder(alertHistory, now, leastCooldown)
      BY DEF AlertsInv
    <2>. QED  BY <1>1, <1>2, <1>3, <1>4, <2>1 DEF InOrder
  <1>6. TimesFit(lastAlert)'
    <2>1. TimesFit(lastAlert)
      BY DEF AlertsInv
    <2>2. ASSUME NEW i \in 1 .. Len(alertHistory)
          PROVE  LET a == alertHistory[i]
                 IN  IF a.type \in DOMAIN lastAlert THEN a.at <= lastAlert[a.type]
                     ELSE now - a.at >= leastCooldown'
      BY <1>2, <1>3, <1>4, <2>1 DEF TimesFit
    <2>. QED  BY <1>1, <2>1, <2>2 DEF TimesFit
  <1>7. ReportFits'
    BY <1>1 DEF AlertsInv, ReportFits
  <1>. QED  BY <1>1, <1>3, <1>5, <1>6, <1>7 DEF AlertsInv

\* A step that leaves the alerting alone.
LEMMA AlertsInvQuiet ==
  ASSUME AlertsInv, UNCHANGED <<now, config, active, alertHistory, lastAlert, toxicAt, leastCooldown>>
  PROVE  AlertsInv'
  <1>1. TimesFit(lastAlert)'
    BY DEF AlertsInv, TimesFit
  <1>2. ReportFits'
    BY DEF AlertsInv, ReportFits
  <1>. QED  BY <1>1, <1>2 DEF AlertsInv

\* Resolving touches the active alert only.
LEMMA AlertsInvResolve ==
  ASSUME AlertsInv, NEW a \in active, ResolveAlert(a), UNCHANGED now
  PROVE  AlertsInv' /\ UnresolvedStay
  <1>. DEFINE b == [a EXCEPT !.resolved = TRUE, !.resolvedAt = now]
  <1>1. /\ active' = (active \ {a}) \cup {b}
        /\ UNCHANGED <<now, config, alertHistory, lastAlert, toxicAt, leastCooldown>>
    BY DEF ResolveAlert
  <1>2. a \in Alerts /\ now \in Nat
    BY DEF AlertsInv
  <1>3. b \in Alerts /\ b.type = a.type /\ b.at = a.at
    BY <1>2 DEF Alerts
  <1>. HIDE DEF b
  <1>4. active' \subseteq Alerts
    BY <1>1, <1>3 DEF AlertsInv
  <1>5. TimesFit(lastAlert)' /\ ReportFits'
    BY <1>1 DEF AlertsInv, TimesFit, ReportFits
  <1>6. \A c \in active : \E d \in active' : d.type = c.type /\ d.at = c.at
    BY <1>1, <1>3
  <1>. QED  BY <1>1, <1>4, <1>5, <1>6 DEF AlertsInv, UnresolvedStay

LEMMA AlertsInvNext == AlertsInv /\ [Next]_vars => AlertsInv' /\ UnresolvedStay
  <1>. SUFFICES ASSUME AlertsInv, [Next]_vars  PROVE AlertsInv' /\ UnresolvedStay
    OBVIOUS
  <1>0. active \subseteq active' => UnresolvedStay
    BY DEF UnresolvedStay
  <1>1. CASE Tick
    BY <1>0, <1>1, AlertsInvTick
  <1>2. CASE UNCHANGED <<now, config, active, alertHistory, lastAlert, toxicAt, leastCooldown>>
    BY <1>0, <1>2, AlertsInvQuiet
  <1>3. ASSUME NEW m, NEW ms, NEW score, NEW action, LogEmailProcessed(m, ms, score, action), UNCHANGED now
        PROVE  AlertsInv' /\ UnresolvedStay
    <2>1. /\ CheckAlerts(score, ms, <<"processed">>, AfterCleanup, TimesAfterCleanup)
          /\ UNCHANGED <<now, config, leastCooldown>>
      BY <1>3 DEF LogEmailProcessed
    <2>2. AlertsInv' /\ AfterCleanup \subseteq active'
      BY <2>1, CleanedTimesFit, CheckAlertsKeeps
    <2>3. \A a \in active : (~ a.resolved \/ a.resolvedAt + ResolvedLife > now) => a \in AfterCleanup
      BY DEF AfterCleanup, KeptAlerts
    <2>. QED  BY <2>2, <2>3 DEF UnresolvedStay
  <1>4. ASSUME NEW score, NEW ms, NEW entries, CheckAlerts(score, ms, entries, active, lastAlert),
               UNCHANGED <<now, config, leastCooldown>>
        PROVE  AlertsInv' /\ UnresolvedStay
    <2>1. active \subseteq Alerts /\ TimesFit(lastAlert)
      BY DEF AlertsInv
    <2>. QED  BY <1>0, <1>4, <2>1, CheckAlertsKeeps
  <1>5. ASSUME NEW score, RecordHighToxicityEmail(score), UNCHANGED now  PROVE AlertsInv' /\ UnresolvedStay
    BY <1>4, <1>5 DEF RecordHighToxicityEmail
  <1>6. ASSUME NEW ms, RecordPerformanceDegradation(ms), UNCHANGED now  PROVE AlertsInv' /\ UnresolvedStay
    BY <1>4, <1>6 DEF RecordPerformanceDegradation
  <1>7. ASSUME NEW n, ConfigureLogging(n), UNCHANGED now  PROVE AlertsInv' /\ UnresolvedStay
    BY <1>2, <1>7 DEF ConfigureLogging, alertVars
  <1>8. ASSUME ObservabilityStep, UNCHANGED now  PROVE AlertsInv' /\ UnresolvedStay
    BY <1>0, <1>3, <1>5, <1>6, <1>7, <1>8, AlertsInvResolve, AlertsInvConfigure DEF ObservabilityStep
  <1>. QED  BY <1>1, <1>2, <1>8 DEF Next, Call, vars, alertVars

\* Alerts are raised neither too often nor too seldom and stay as long as they should,
\* for every configuration, interval and bound of the history that leaves it room for
\* the alerts one cool-down admits during another.
THEOREM AlertsAreAlwaysKept == Spec => AlertsKept
  <1>1. AlertsInv => AlertsApart /\ AlertedInTime
    <2>. SUFFICES ASSUME AlertsInv  PROVE AlertsApart /\ AlertedInTime
      OBVIOUS
    <2>1. DOMAIN alertHistory = 1 .. Len(alertHistory)
      BY DEF AlertsInv
    <2>2. AlertsApart
      BY <2>1 DEF AlertsInv, InOrder, AlertsApart
    <2>3. AlertedInTime
      BY <2>1 DEF AlertsInv, ReportFits, LastToxic, AlertedInTime
    <2>. QED  BY <2>2, <2>3
  <1>2. AlertsInv' => AlertsApart' /\ AlertedInTime'
    BY <1>1, PTL
  <1>3. AlertsInv /\ [Next]_vars => AlertsInv'
    BY AlertsInvNext
  <1>4. AlertsInv /\ [Next]_vars => [AlertsApart' /\ AlertedInTime' /\ UnresolvedStay]_vars
    BY <1>2, AlertsInvNext
  <1>. QED  BY <1>3, <1>4, AlertsInvInit, PTL DEF Spec, AlertsKept
=============================================================================
