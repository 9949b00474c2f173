---------------------------- MODULE PipelineProofs ----------------------------
(***************************************************************************)
(* TelemetryPipeline and TelemetryQueries for every bound: type            *)
(* correctness, the accounting of every record up to the committed offset, *)
(* the order of what is stored, and what the queries answer from it.       *)
(***************************************************************************)
EXTENDS TelemetryQueries, SequenceTheorems, FiniteSetTheorems, WellFoundedInduction, TLAPS

LEMMA SeqWidens ==
    ASSUME NEW S, NEW T, S \subseteq T, NEW s \in Seq(S)
    PROVE  s \in Seq(T)
<1>1. s \in [1..Len(s) -> S] /\ Len(s) \in Nat
    OBVIOUS
<1>2. s \in [1..Len(s) -> T]
    BY <1>1
<1> QED BY <1>1, <1>2, IsASeq

LEMMA IntervalWidens == \A n \in Nat : 0..n \subseteq 0..(n + 1) /\ 1..n \subseteq 1..(n + 1)
OBVIOUS

LEMMA IntervalParts ==
    \A n \in Nat : \A p \in 0..n :
        /\ p > 0 => p \in 1..n
        /\ p < n => p + 1 \in 0..n /\ p + 1 > 0
OBVIOUS

LEMMA TailType ==
    ASSUME NEW S, NEW s \in Seq(S), s # <<>>
    PROVE  Head(s) \in S /\ Tail(s) \in Seq(S) /\ Len(Tail(s)) = Len(s) - 1 /\ Len(s) > 0
OBVIOUS

LEMMA AppendType ==
    ASSUME NEW S, NEW s \in Seq(S), NEW e \in S
    PROVE  /\ Append(s, e) \in Seq(S) /\ Len(Append(s, e)) = Len(s) + 1
           /\ \A i \in 1..Len(s) : Append(s, e)[i] = s[i]
           /\ Append(s, e)[Len(s) + 1] = e
OBVIOUS

-----------------------------------------------------------------------------
(* Where the records end that the group is answerable for.                 *)
Reached == IF pc \in Working THEN position ELSE committed

(* The offset and the position, from the base on.                          *)
Offsets ==
    /\ committed # None => base # None /\ base <= committed
    /\ pc \in Working => base # None /\ base <= position /\ committed <= position

(* The accounting of Accounted, up to the position of a running consumer.  *)
AllAccounted ==
    \A r \in 1..Len(log) :
        base < r /\ r <= Reached /\ log[r] = "reading"
        => r \in Stored \cup failed \cup cut \cup InFlight

\* The order of StoredInOrder, but for the records of a set.
Ordered(c, S) ==
    \A i, j \in 1..Len(c) : i < j => c[i] # c[j] /\ (c[i] < c[j] \/ c[j] \in S)

(* What is stored, and what a silent MongoDB may still store, does not lie *)
(* beyond what was reached, and no record is both.                         *)
StoredBehind ==
    ~uncommitted =>
        /\ \A i \in 1..Len(collection) :
              collection[i] <= Reached /\ (pc = "inserting" => collection[i] < Reached)
        /\ \A r \in late : r <= Reached /\ (pc = "inserting" => r < Reached)
        /\ \A i \in 1..Len(collection) : collection[i] \notin late
        /\ Ordered(collection, failed \cup cut)

PInv == TypeOK /\ Offsets /\ AllAccounted /\ StoredBehind

-----------------------------------------------------------------------------
LEMMA InitPInv == ASSUME Init PROVE PInv
<1>1. TypeOK
    <2>1. pending \in Seq(Kind) /\ log \in Seq(Kind) /\ collection \in Seq(1..Len(log))
          /\ Len(pending) = 0 /\ Len(log) = 0
        BY DEF Init
    <2>2. Len(pending) <= MaxPending /\ Len(log) + Len(pending) <= MaxLog
        BY <2>1, PipelineAssumption
    <2>3. 0 \in 0..Len(log) /\ interruptions \in 0..MaxInterruptions
        BY <2>1, PipelineAssumption DEF Init
    <2> QED BY <2>1, <2>2, <2>3 DEF Init, TypeOK, Working, InHandler, None, Mongo
<1>2. Offsets /\ StoredBehind
    BY DEF Init, Offsets, StoredBehind, Ordered, Reached, Working, None
<1>3. AllAccounted
    BY DEF Init, AllAccounted
<1> QED BY <1>1, <1>2, <1>3 DEF PInv

(* Type correctness is inductive by itself.                                *)
LEMMA TypeStep == ASSUME TypeOK, [Next]_vars PROVE TypeOK'
<1> USE PipelineAssumption
<1> USE DEF TypeOK, Working, InHandler, None, Mongo
<1>1. CASE Start
    BY <1>1 DEF Start, storeVars, history
<1>2. ASSUME NEW k \in Kind, SendMessage(k) PROVE TypeOK'
    BY <1>2, AppendType DEF SendMessage, storeVars, history
<1>3. CASE KafkaAppends
    <2>1. /\ Head(pending) \in Kind /\ Tail(pending) \in Seq(Kind)
          /\ Len(Tail(pending)) = Len(pending) - 1
        BY <1>3, TailType DEF KafkaAppends
    <2>2. log' \in Seq(Kind) /\ Len(log') = Len(log) + 1
        BY <1>3, <2>1, AppendType DEF KafkaAppends
    <2>3. 0..Len(log) \subseteq 0..Len(log)' /\ 1..Len(log) \subseteq 1..Len(log)'
        BY <2>2, IntervalWidens
    <2>4. collection' \in Seq(1..Len(log)')
        BY <1>3, <2>3, SeqWidens DEF KafkaAppends, storeVars
    <2>5. pending' \in Seq(Kind) /\ Len(pending') <= MaxPending
          /\ Len(log') + Len(pending') <= MaxLog
        BY <1>3, <2>1, <2>2 DEF KafkaAppends
    <2> QED BY <1>3, <2>2, <2>3, <2>4, <2>5 DEF KafkaAppends, storeVars, history
<1>4. CASE SendFails
    BY <1>4, TailType DEF SendFails, storeVars, history
<1>5. CASE Join
    <2>1. Len(log) \in 0..Len(log)
        OBVIOUS
    <2> QED BY <1>5, <2>1 DEF Join, producerVars, storeVars
<1>51. CASE GetOne
    <2>1. position' \in 0..Len(log) /\ position' > 0
        BY <1>51, IntervalParts DEF GetOne
    <2> QED BY <1>51, <2>1 DEF GetOne, producerVars, storeVars, history
<1>52. CASE JoinFails \/ InsertReturns \/ AutoCommit \/ MongoChanges
    BY <1>52 DEF JoinFails, InsertReturns, AutoCommit, MongoChanges, producerVars, storeVars, history
<1>6. CASE MongoApplies
    <2>1. position \in 1..Len(log)
        BY <1>6, IntervalParts DEF MongoApplies
    <2> QED BY <1>6, <2>1, AppendType DEF MongoApplies, producerVars, history
<1>7. CASE InsertFails
    <2>1. position \in 1..Len(log)
        BY <1>7, IntervalParts DEF InsertFails
    <2> QED BY <1>7, <2>1 DEF InsertFails, GiveUpInsert, producerVars
<1>70. CASE LateInsert
    <2>1. PICK r \in late : collection' = Append(collection, r) /\ late' = late \ {r}
        BY <1>70 DEF LateInsert
    <2>2. r \in 1..Len(log)
        BY <2>1
    <2>3. collection' \in Seq(1..Len(log))
        BY <2>1, <2>2, AppendType
    <2> QED BY <1>70, <2>1, <2>3 DEF LateInsert, producerVars, history
<1>8. ASSUME CutHandler, UNCHANGED <<log, position, failed>>
      PROVE  /\ collection' \in Seq(1..Len(log)) /\ cut' \subseteq 1..Len(log)
             /\ late' \subseteq failed' \cup cut'
    <2>1. pc \in InHandler => position \in 1..Len(log)
        BY IntervalParts
    <2>2. pc \in InHandler => Append(collection, position) \in Seq(1..Len(log))
        BY <2>1, AppendType
    <2> QED BY <1>8, <2>1, <2>2 DEF CutHandler, GiveUpInsert
<1>9. CASE PollFails
    BY <1>9 DEF PollFails, LastCommit, producerVars, storeVars
<1>10. CASE Stop
    <2>1. /\ collection' \in Seq(1..Len(log)) /\ cut' \subseteq 1..Len(log)
          /\ late' \subseteq failed' \cup cut'
        BY <1>10, <1>8 DEF Stop
    <2>2. {committed', base'} \subseteq {None} \cup 0..Len(log) /\ uncommitted' \in BOOLEAN
        BY <1>10 DEF Stop, LastCommit
    <2>3. interruptions' \in 0..MaxInterruptions
        BY <1>10 DEF Stop
    <2> QED BY <1>10, <2>1, <2>2, <2>3 DEF Stop
<1>11. CASE Crash
    <2>1. /\ collection' \in Seq(1..Len(log)) /\ cut' \subseteq 1..Len(log)
          /\ late' \subseteq failed' \cup cut'
        BY <1>11, <1>8 DEF Crash
    <2>2. pending' \in Seq(Kind) /\ Len(pending') = 0 /\ Len(pending) \in Nat /\ Len(log) \in Nat
        BY <1>11 DEF Crash
    <2>3. interruptions' \in 0..MaxInterruptions
        BY <1>11 DEF Crash
    <2>4. Len(log') = Len(log) /\ Len(log') + Len(pending') <= MaxLog /\ Len(pending') <= MaxPending
        BY <1>11, <2>2 DEF Crash
    <2>5. pc' = "down" /\ UNCHANGED <<position, committed, failed, base, log, mongo>>
          /\ producer' = FALSE /\ uncommitted' = TRUE
        BY <1>11 DEF Crash
    <2> QED BY ONLY TypeOK, <2>1, <2>2, <2>3, <2>4, <2>5
<1>12. CASE UNCHANGED vars
    BY <1>12 DEF vars, producerVars, storeVars, history
<1> QED BY <1>1, <1>2, <1>3, <1>4, <1>5, <1>51, <1>52,
    <1>6, <1>7, <1>70, <1>9, <1>10, <1>11, <1>12 DEF Next, Consume

-----------------------------------------------------------------------------
(* The numbers involved.                                                   *)
LEMMA Numbers ==
    ASSUME TypeOK
    PROVE  /\ Len(log) \in Nat /\ position \in Nat /\ committed \in Int /\ base \in Int
           /\ position <= Len(log) /\ committed <= Len(log) /\ Reached \in Int /\ Reached <= Len(log)
<1>1. Len(log) \in Nat
    BY DEF TypeOK
<1>2. \A n \in Nat : \A x \in {None} \cup 0..n : x \in Int /\ x <= n
    BY DEF None
<1>3. committed \in Int /\ committed <= Len(log) /\ base \in Int
    BY <1>1, <1>2 DEF TypeOK
<1>4. position \in Nat /\ position <= Len(log)
    BY <1>1 DEF TypeOK
<1> QED BY <1>1, <1>3, <1>4 DEF Reached

LEMMA ReachedNow == TypeOK => Reached \in Int
BY Numbers

LEMMA ReachedNext == ASSUME TypeOK' PROVE Reached' \in Int
<1>1. (TypeOK => Reached \in Int)'
    BY ReachedNow, PTL
<1> QED BY <1>1

(* A record behind all others, or one of the set, at the end.              *)
LEMMA OrderedAppend ==
    ASSUME NEW s \in Seq(Int), NEW S, NEW e \in Int, Ordered(s, S),
           \A i \in 1..Len(s) : s[i] # e /\ (s[i] < e \/ e \in S)
    PROVE  Ordered(Append(s, e), S)
<1> DEFINE t == Append(s, e)
<1>1. \A n \in Nat : \A i, j \in 1..(n + 1) : i < j => i \in 1..n /\ (j \in 1..n \/ j = n + 1)
    OBVIOUS
<1>2. /\ Len(s) \in Nat /\ Len(t) = Len(s) + 1 /\ t[Len(s) + 1] = e
      /\ \A i \in 1..Len(s) : t[i] = s[i]
    BY AppendType
<1> HIDE DEF t
<1>3. ASSUME NEW i \in 1..Len(t), NEW j \in 1..Len(t), i < j
      PROVE  t[i] # t[j] /\ (t[i] < t[j] \/ t[j] \in S)
    <2>1. i \in 1..Len(s) /\ (j \in 1..Len(s) \/ j = Len(s) + 1)
        BY <1>1, <1>2, <1>3
    <2>2. CASE j \in 1..Len(s)
        BY <1>2, <1>3, <2>1, <2>2 DEF Ordered
    <2>3. CASE j = Len(s) + 1
        BY <1>2, <2>1, <2>3
    <2> QED BY <2>1, <2>2, <2>3
<1> QED BY <1>3 DEF Ordered, t

LEMMA OrderedWidens == ASSUME NEW s, NEW S, NEW T, S \subseteq T, Ordered(s, S) PROVE Ordered(s, T)
BY DEF Ordered

LEMMA StoredGrows ==
    ASSUME TypeOK, NEW e \in 1..Len(log), collection' = Append(collection, e)
    PROVE  Stored' = Stored \cup {e}
<1>1. /\ Len(collection') = Len(collection) + 1 /\ Len(collection) \in Nat
      /\ \A i \in 1..Len(collection) : collection'[i] = collection[i]
      /\ collection'[Len(collection) + 1] = e
    BY AppendType DEF TypeOK
<1>2. \A n \in Nat : 1..(n + 1) = 1..n \cup {n + 1}
    OBVIOUS
<1> QED BY <1>1, <1>2 DEF Stored

(* What a cut handler leaves in the collection and in the histories.       *)
LEMMA CutLeaves ==
    ASSUME TypeOK, CutHandler, UNCHANGED <<log, position>>
    PROVE  Stored \subseteq Stored' /\ cut \subseteq cut' /\ InFlight \subseteq cut'
<1>1. pc \in InHandler => position \in 1..Len(log)
    BY IntervalParts DEF TypeOK
<1>2. Stored \subseteq Stored'
    <2>1. CASE collection' = collection
        BY <2>1 DEF Stored
    <2>2. CASE pc = "inserting" /\ collection' = Append(collection, position)
        BY <2>2, <1>1, StoredGrows DEF InHandler
    <2> QED BY <2>1, <2>2 DEF CutHandler
<1> QED BY <1>2 DEF CutHandler, InFlight, InHandler

-----------------------------------------------------------------------------
LEMMA OffsetsStep ==
    ASSUME TypeOK, Offsets, [Next]_vars
    PROVE  Offsets'
<1> USE Numbers DEF Offsets, Working, None
<1>1. CASE Start
    BY <1>1 DEF Start, history
<1>2. ASSUME NEW k \in Kind, SendMessage(k) PROVE Offsets'
    BY <1>2 DEF SendMessage, history
<1>3. CASE KafkaAppends \/ SendFails \/ JoinFails \/ GetOne \/ MongoApplies \/ InsertReturns
    BY <1>3 DEF KafkaAppends, SendFails, JoinFails, GetOne, MongoApplies, InsertReturns, history
<1>4. CASE Join
    BY <1>4 DEF Join
<1>5. CASE AutoCommit \/ MongoChanges \/ InsertFails \/ LateInsert
    BY <1>5 DEF AutoCommit, MongoChanges, InsertFails, LateInsert, history
<1>6. CASE PollFails \/ Stop \/ Crash
    BY <1>6 DEF PollFails, Stop, Crash, LastCommit
<1>7. CASE UNCHANGED vars
    BY <1>7 DEF vars, history
<1> QED BY <1>1, <1>2, <1>3, <1>4, <1>5, <1>6, <1>7 DEF Next, Consume

-----------------------------------------------------------------------------
(* What a step must keep for the accounting to hold after it.              *)
LEMMA AccountedCarries ==
    ASSUME AllAccounted, TypeOK, TypeOK', UNCHANGED <<log, base>>, Reached' <= Reached,
           Stored \cup failed \cup cut \cup InFlight
           \subseteq Stored' \cup failed' \cup cut' \cup InFlight'
    PROVE  AllAccounted'
<1>1. Reached \in Int /\ Reached' \in Int
    BY Numbers, ReachedNext
<1>2. \A r \in 1..Len(log) : r <= Reached' => r <= Reached
    BY <1>1
<1> QED BY <1>2 DEF AllAccounted

LEMMA AccountedStep ==
    ASSUME TypeOK, TypeOK', Offsets, AllAccounted, [Next]_vars
    PROVE  AllAccounted'
<1>0. Reached \in Int /\ Reached <= Len(log) /\ position \in Nat /\ Len(log) \in Nat
    BY Numbers
<1>1. CASE Start
    BY <1>0, <1>1, AccountedCarries
       DEF Start, producerVars, storeVars, history, Reached, Stored, InFlight, Working
<1>2. ASSUME NEW k \in Kind, SendMessage(k) PROVE AllAccounted'
    BY <1>0, <1>2, AccountedCarries DEF SendMessage, storeVars, history, Reached, Stored, InFlight, Working
<1>3. CASE SendFails \/ JoinFails \/ InsertReturns \/ AutoCommit \/ MongoChanges
    BY <1>0, <1>3, AccountedCarries
       DEF SendFails, JoinFails, InsertReturns, AutoCommit, MongoChanges, producerVars, storeVars, history,
           Reached, Stored, InFlight, Working
<1>4. CASE KafkaAppends
    <2>1. Head(pending) \in Kind /\ log \in Seq(Kind)
        BY <1>4, TailType DEF KafkaAppends, TypeOK
    <2>2. Len(log') = Len(log) + 1 /\ \A r \in 1..Len(log) : log'[r] = log[r]
        BY <1>4, <2>1, AppendType DEF KafkaAppends
    <2>3. \A n \in Nat : \A x \in Int : \A r \in 1..(n + 1) : x <= n /\ r <= x => r \in 1..n
        OBVIOUS
    <2>4. UNCHANGED <<base, failed, cut, Reached, Stored, InFlight>>
        BY <1>4 DEF KafkaAppends, storeVars, history, Reached, Stored, InFlight
    <2>5. \A r \in 1..Len(log') : r <= Reached' => r \in 1..Len(log)
        BY <1>0, <2>2, <2>3, <2>4
    <2> QED BY <2>2, <2>4, <2>5 DEF AllAccounted
<1>5. CASE Join
    <2>1. CASE committed = None
        BY <2>1, <1>5 DEF Join, AllAccounted, Reached, Working
    <2>2. CASE committed # None
        BY <1>0, <2>2, <1>5, AccountedCarries
           DEF Join, producerVars, storeVars, Reached, Stored, InFlight, Working
    <2> QED BY <2>1, <2>2
<1>6. CASE GetOne
    <2>1. UNCHANGED <<log, base, failed, cut, Stored>> /\ InFlight = {} /\ Reached = position
        BY <1>6 DEF GetOne, producerVars, storeVars, history, Stored, InFlight, Reached, Working
    <2>2. Reached' = position + 1 /\ (log[position + 1] = "reading" => position + 1 \in InFlight')
        BY <1>6 DEF GetOne, InFlight, Reached, Working
    <2>3. \A r \in 1..Len(log) : r <= position + 1 => r <= position \/ r = position + 1
        BY <1>0
    <2> QED BY <2>1, <2>2, <2>3 DEF AllAccounted
<1>7. CASE MongoApplies
    <2>1. position \in 1..Len(log)
        BY <1>7, IntervalParts DEF MongoApplies, TypeOK, InHandler
    <2>2. Stored' = Stored \cup {position}
        BY <1>7, <2>1, StoredGrows DEF MongoApplies
    <2> QED BY <1>0, <1>7, <2>2, AccountedCarries
            DEF MongoApplies, producerVars, history, Reached, InFlight, Working
<1>8. CASE InsertFails
    BY <1>0, <1>8, AccountedCarries
       DEF InsertFails, producerVars, Reached, Stored, InFlight, Working
<1>70. CASE LateInsert
    <2>1. PICK r \in late : collection' = Append(collection, r)
        BY <1>70 DEF LateInsert
    <2>2. r \in 1..Len(log)
        BY <2>1 DEF TypeOK
    <2>3. Stored' = Stored \cup {r}
        BY <2>1, <2>2, StoredGrows
    <2> QED BY <1>0, <1>70, <2>3, AccountedCarries
            DEF LateInsert, producerVars, history, Reached, InFlight, Working
<1>9. CASE PollFails
    <2>1. Reached' <= Reached
        BY <1>9, Numbers DEF PollFails, LastCommit, Reached, Working, Offsets
    <2> QED BY <1>9, <2>1, AccountedCarries
            DEF PollFails, producerVars, storeVars, Stored, InFlight
<1>10. CASE Stop \/ Crash
    <2>1. CutHandler /\ UNCHANGED <<log, position, failed, base>> /\ pc' = "down"
        BY <1>10 DEF Stop, Crash
    <2>2. Reached' <= Reached
        BY <1>10, Numbers DEF Stop, Crash, LastCommit, Reached, Working, Offsets
    <2> QED BY <2>1, <2>2, CutLeaves, AccountedCarries
<1>11. CASE UNCHANGED vars
    BY <1>0, <1>11, AccountedCarries
       DEF vars, producerVars, storeVars, history, Reached, Stored, InFlight
<1> QED BY <1>1, <1>2, <1>3, <1>4, <1>5, <1>6, <1>7, <1>70, <1>8, <1>9, <1>10, <1>11
    DEF Next, Consume

-----------------------------------------------------------------------------
(* What a step must keep for the stored records to stay as they are.       *)
LEMMA BehindCarries ==
    ASSUME TypeOK, StoredBehind, uncommitted' = uncommitted, collection' = collection,
           Reached \in Int, Reached' \in Int, Reached <= Reached',
           late' \subseteq late, failed \cup cut \subseteq failed' \cup cut',
           pc' = "inserting" => pc = "inserting" \/ Reached < Reached'
    PROVE  StoredBehind'
<1> SUFFICES ASSUME ~uncommitted PROVE StoredBehind'
    BY DEF StoredBehind
<1>1. \A r \in late : r \in Int
    BY DEF TypeOK
<1>2. \A i \in 1..Len(collection) : collection[i] \in Int
    BY DEF TypeOK
<1>3. Ordered(collection, failed' \cup cut')
    BY OrderedWidens DEF StoredBehind
<1>4. \A i \in 1..Len(collection) :
          collection[i] <= Reached' /\ (pc' = "inserting" => collection[i] < Reached')
    BY <1>2 DEF StoredBehind
<1>5. \A r \in late' : r <= Reached' /\ (pc' = "inserting" => r < Reached')
    BY <1>1 DEF StoredBehind
<1>6. \A i \in 1..Len(collection) : collection[i] \notin late'
    BY DEF StoredBehind
<1> QED BY <1>3, <1>4, <1>5, <1>6 DEF StoredBehind

(* The record of an insert is one more to be stored, now or late.          *)
LEMMA BehindEnds ==
    ASSUME TypeOK, StoredBehind, uncommitted' = uncommitted,
           pc = "inserting", Reached = position, Reached' = position, pc' # "inserting",
           failed \cup cut \subseteq failed' \cup cut',
           \/ collection' = collection /\ late' \in {late, late \cup {position}}
           \/ collection' = Append(collection, position) /\ late' = late
    PROVE  StoredBehind'
<1> SUFFICES ASSUME ~uncommitted PROVE StoredBehind'
    BY DEF StoredBehind
<1>0. collection \in Seq(Int) /\ position \in Int /\ position <= position
    BY SeqWidens, Numbers DEF TypeOK
<1>1. /\ \A i \in 1..Len(collection) : collection[i] \in Int /\ collection[i] < position
      /\ \A i \in 1..Len(collection) : collection[i] \notin late
      /\ \A r \in late : r \in Int /\ r < position
    <2>1. \A r \in late : r \in Int
        BY DEF TypeOK
    <2> QED BY <1>0, <2>1 DEF StoredBehind
<1>2. Ordered(collection, failed' \cup cut')
    BY OrderedWidens DEF StoredBehind
<1>3. CASE collection' = collection /\ late' \in {late, late \cup {position}}
    <2>1. \A r \in late' : r <= position
        BY <1>0, <1>1, <1>3
    <2>2. \A i \in 1..Len(collection) : collection[i] \notin late'
        BY <1>0, <1>1, <1>3
    <2>3. \A i \in 1..Len(collection) : collection[i] <= position
        BY <1>0, <1>1
    <2> QED BY <1>2, <1>3, <2>1, <2>2, <2>3 DEF StoredBehind
<1>4. CASE collection' = Append(collection, position) /\ late' = late
    <2>1. \A i \in 1..Len(collection) :
              collection[i] # position /\ (collection[i] < position \/ position \in failed' \cup cut')
        BY <1>0, <1>1
    <2>2. Ordered(collection', failed' \cup cut')
        BY <1>0, <1>2, <1>4, <2>1, OrderedAppend
    <2>3. \A i \in 1..Len(collection') : collection'[i] <= position /\ collection'[i] \notin late
        <3>1. \A n \in Nat : \A i \in 1..(n + 1) : i \in 1..n \/ i = n + 1
            OBVIOUS
        <3>2. /\ Len(collection) \in Nat /\ Len(collection') = Len(collection) + 1
              /\ collection'[Len(collection) + 1] = position
              /\ \A i \in 1..Len(collection) : collection'[i] = collection[i]
            BY <1>0, <1>4, AppendType
        <3>3. position \notin late
            BY <1>0, <1>1
        <3>4. \A i \in 1..Len(collection) : collection[i] <= position
            BY <1>0, <1>1
        <3> QED BY <1>0, <1>1, <3>1, <3>2, <3>3, <3>4
    <2>4. \A r \in late : r <= position
        BY <1>0, <1>1
    <2> QED BY <1>4, <2>2, <2>3, <2>4 DEF StoredBehind
<1> QED BY <1>3, <1>4

LEMMA BehindStep ==
    ASSUME TypeOK, TypeOK', Offsets, StoredBehind, [Next]_vars
    PROVE  StoredBehind'
<1>0. Reached \in Int /\ Reached' \in Int /\ position \in Nat
    BY Numbers, ReachedNext
<1>1. CASE Start
    BY <1>0, <1>1, BehindCarries DEF Start, storeVars, history, Reached, Working
<1>2. ASSUME NEW k \in Kind, SendMessage(k) PROVE StoredBehind'
    BY <1>0, <1>2, BehindCarries DEF SendMessage, storeVars, history, Reached, Working
<1>3. CASE KafkaAppends \/ SendFails \/ JoinFails \/ InsertReturns \/ AutoCommit \/ MongoChanges
    BY <1>0, <1>3, BehindCarries DEF KafkaAppends, SendFails, JoinFails, InsertReturns, AutoCommit,
        MongoChanges, storeVars, history, Reached, Working
<1>4. CASE Join
    <2>1. committed <= position' /\ Reached = committed /\ Reached' = position' /\ position' \in Int
        BY <1>4, Numbers DEF Join, Reached, Working, None
    <2> QED BY <1>0, <1>4, <2>1, BehindCarries DEF Join, storeVars
<1>5. CASE GetOne
    <2>1. Reached = position /\ Reached' = position + 1
        BY <1>5 DEF GetOne, Reached, Working
    <2> QED BY <1>0, <1>5, <2>1, BehindCarries DEF GetOne, storeVars, history
<1>6. CASE MongoApplies
    <2>1. Reached = position /\ Reached' = position
        BY <1>6 DEF MongoApplies, Reached, Working
    <2> QED BY <1>6, <2>1, BehindEnds DEF MongoApplies, history
<1>7. CASE InsertFails
    <2>1. Reached = position /\ Reached' = position
        BY <1>7 DEF InsertFails, Reached, Working
    <2> QED BY <1>7, <2>1, BehindEnds DEF InsertFails, GiveUpInsert
<1>70. CASE LateInsert
    <2>1. PICK r \in late : collection' = Append(collection, r) /\ late' = late \ {r}
        BY <1>70 DEF LateInsert
    <2>2. UNCHANGED <<Reached, pc, uncommitted, failed, cut>>
        BY <1>70 DEF LateInsert, history, Reached
    <2> SUFFICES ASSUME ~uncommitted PROVE StoredBehind'
        BY <2>2 DEF StoredBehind
    <2>3. r \in 1..Len(log) /\ r \in failed \cup cut
        BY <2>1 DEF TypeOK
    <2>4. collection \in Seq(Int) /\ r \in Int
        BY <2>3, SeqWidens DEF TypeOK
    <2>5. \A i \in 1..Len(collection) : collection[i] # r
        BY <2>1 DEF StoredBehind
    <2>6. Ordered(collection', failed \cup cut)
        BY <2>1, <2>3, <2>4, <2>5, OrderedAppend DEF StoredBehind
    <2>7. \A n \in Nat : \A i \in 1..(n + 1) : i \in 1..n \/ i = n + 1
        OBVIOUS
    <2>8. /\ Len(collection) \in Nat /\ Len(collection') = Len(collection) + 1
          /\ collection'[Len(collection) + 1] = r
          /\ \A i \in 1..Len(collection) : collection'[i] = collection[i]
        BY <2>1, <2>4, AppendType
    <2>9. \A i \in 1..Len(collection') :
              /\ collection'[i] <= Reached /\ (pc = "inserting" => collection'[i] < Reached)
              /\ collection'[i] \notin late'
        BY <2>1, <2>7, <2>8 DEF StoredBehind
    <2>10. \A q \in late' : q <= Reached /\ (pc = "inserting" => q < Reached)
        BY <2>1 DEF StoredBehind
    <2> QED BY <2>2, <2>6, <2>9, <2>10 DEF StoredBehind
<1>8. CASE PollFails
    <2>1. CASE uncommitted'
        BY <2>1 DEF StoredBehind
    <2>2. CASE ~uncommitted'
        <3>1. uncommitted' = uncommitted /\ Reached' = Reached
            BY <1>8, <2>2 DEF PollFails, LastCommit, Reached, Working, TypeOK
        <3> QED BY <1>0, <1>8, <3>1, BehindCarries DEF PollFails, storeVars
    <2> QED BY <2>1, <2>2
<1>9. CASE Stop
    <2>1. CASE uncommitted'
        BY <2>1 DEF StoredBehind
    <2>2. CASE ~uncommitted'
        <3>1. uncommitted' = uncommitted /\ Reached' = Reached /\ pc' = "down"
            BY <1>9, <2>2 DEF Stop, LastCommit, Reached, Working, TypeOK
        <3>2. CASE pc # "inserting"
            BY <1>0, <1>9, <3>1, <3>2, BehindCarries DEF Stop, CutHandler
        <3>3. CASE pc = "inserting"
            <4>1. Reached = position
                BY <3>3 DEF Reached, Working
            <4>2. \/ collection' = collection /\ late' \in {late, late \cup {position}}
                  \/ collection' = Append(collection, position) /\ late' = late
                BY <1>9, <3>3 DEF Stop, CutHandler, GiveUpInsert
            <4>3. failed \cup cut \subseteq failed' \cup cut'
                BY <1>9 DEF Stop, CutHandler
            <4> QED BY <3>1, <3>3, <4>1, <4>2, <4>3, BehindEnds
        <3> QED BY <3>2, <3>3
    <2> QED BY <2>1, <2>2
<1>10. CASE Crash
    BY <1>10 DEF Crash, StoredBehind
<1>11. CASE UNCHANGED vars
    BY <1>0, <1>11, BehindCarries DEF vars, storeVars, history, Reached
<1> QED BY <1>1, <1>2, <1>3, <1>4, <1>5, <1>6, <1>7, <1>70, <1>8, <1>9, <1>10, <1>11
    DEF Next, Consume

-----------------------------------------------------------------------------
LEMMA SpecPInv == Spec => []PInv
<1>1. Init => PInv
    BY InitPInv
<1>2. PInv /\ [Next]_vars => PInv'
    BY TypeStep, OffsetsStep, AccountedStep, BehindStep DEF PInv
<1> QED BY <1>1, <1>2, PTL DEF Spec

(* Type correctness: offsets and positions lie in the log, a handler has   *)
(* taken its record, and the stored records are records of the log.        *)
THEOREM SpecTypeOK == Spec => []TypeOK
BY SpecPInv, PTL DEF PInv

(* No record up to the committed offset is passed over, for every number   *)
(* of records, stops, crashes and outages.                                 *)
THEOREM SpecAccounted == Spec => []Accounted
<1>1. PInv => Accounted
    <2> SUFFICES ASSUME PInv, NEW r \in Record, base < r, r <= committed, log[r] = "reading"
                 PROVE  r \in Stored \cup failed \cup cut \cup InFlight
        BY DEF Accounted
    <2>1. committed <= Reached /\ Reached <= Len(log) /\ Len(log) \in Nat
          /\ Reached \in Int /\ committed \in Int
        BY Numbers DEF PInv, Offsets, Reached
    <2>2. r \in 1..Len(log) /\ r <= Reached
        BY <2>1, PipelineAssumption DEF Record
    <2> QED BY <2>2 DEF PInv, AllAccounted
<1> QED BY <1>1, SpecPInv, PTL

(* As long as every consumer ended with a commit, nothing is stored twice, *)
(* and only records whose handler was interrupted or gave up (a cancelled  *)
(* task, an exception of insert_one) are stored behind later ones.         *)
THEOREM SpecStoredInOrder == Spec => []StoredInOrder
<1>1. PInv => StoredInOrder
    BY DEF PInv, StoredBehind, Ordered, StoredInOrder
<1> QED BY <1>1, SpecPInv, PTL

(* Whatever stops, crashes and lost commits there are, the offset never    *)
(* goes back, and what lies behind it is not stored again, but for what a  *)
(* silent MongoDB held.                                                    *)
THEOREM SpecOffsetNeverBack == Spec => OffsetNeverBack
<1> DEFINE Advances ==
        /\ committed <= committed'
        /\ collection' # collection =>
               LET r == collection'[Len(collection')] IN r >= committed \/ r \in late
<1>1. ASSUME PInv, Next PROVE Advances
    <2>0. /\ position \in Int /\ committed \in Int /\ collection \in Seq(1..Len(log))
          /\ pc \in Working => committed <= position
        BY <1>1, Numbers DEF PInv, Offsets, TypeOK
    <2>1. ASSUME collection' = Append(collection, position), pc \in Working
          PROVE  collection'[Len(collection')] >= committed
        <3>1. position \in 1..Len(log) \/ position \in Int
            BY <2>0
        <3> QED BY <2>0, <2>1
    <2>2. committed' \in {committed, position} /\ (committed' # committed => pc \in Working)
        BY <1>1 DEF Next, Consume, Start, SendMessage, KafkaAppends, SendFails, Join, JoinFails, GetOne,
            MongoApplies, InsertReturns, InsertFails, AutoCommit, PollFails, Stop, Crash, LastCommit,
            MongoChanges, LateInsert
    <2>3. \/ collection' # collection => collection' = Append(collection, position) /\ pc \in Working
          \/ LateInsert
        BY <1>1 DEF Next, Consume, Start, SendMessage, KafkaAppends, SendFails, Join, JoinFails, GetOne,
            MongoApplies, InsertReturns, InsertFails, AutoCommit, PollFails, Stop, Crash, CutHandler,
            MongoChanges, storeVars, Working
    <2>4. ASSUME LateInsert PROVE collection'[Len(collection')] \in late
        <3>1. PICK r \in late : collection' = Append(collection, r)
            BY <2>4 DEF LateInsert
        <3>2. r \in 1..Len(log)
            BY <1>1, <3>1 DEF PInv, TypeOK
        <3> QED BY <2>0, <3>1, <3>2, AppendType
    <2> QED BY <2>0, <2>1, <2>2, <2>3, <2>4
<1>2. PInv /\ [Next]_vars => [Advances]_vars
    BY <1>1
<1> QED BY <1>2, SpecPInv, PTL DEF Spec, OffsetNeverBack

-----------------------------------------------------------------------------
(* Every function into the naturals has a place where it is least: the     *)
(* induction over data that the answers of the queries need.               *)
LEMMA LeastPlace ==
    ASSUME NEW F, F # {}, NEW f, \A x \in F : f[x] \in Nat
    PROVE  \E x \in F : \A y \in F : f[x] <= f[y]
<1> DEFINE values == {f[x] : x \in F}
<1>1. values \subseteq Nat /\ values # {}
    OBVIOUS
<1>2. PICK v \in values : \A w \in values : ~(<<w, v>> \in OpToRel(<, Nat))
    BY <1>1, NatLessThanWellFounded, WFMin
<1>3. \A m, n \in Nat : ~(<<m, n>> \in OpToRel(<, Nat)) => n <= m
    BY DEF OpToRel
<1>4. \A w \in values : v <= w
    BY <1>1, <1>2, <1>3
<1> QED BY <1>2, <1>4

(* The same for the greatest place, below a bound.                         *)
LEMMA GreatestPlace ==
    ASSUME NEW F, F # {}, NEW n \in Nat, NEW f, \A x \in F : f[x] \in 0..n
    PROVE  \E x \in F : \A y \in F : f[y] <= f[x]
<1> DEFINE gap == [x \in F |-> n - f[x]]
<1>1. \A x \in F : gap[x] \in Nat
    OBVIOUS
<1>2. PICK x \in F : \A y \in F : gap[x] <= gap[y]
    <2> HIDE DEF gap
    <2> QED BY <1>1, LeastPlace
<1>3. \A y \in F : f[y] <= f[x]
    BY <1>2
<1> QED BY <1>3

(* A finite set needs no bound: the greatest place has the most lesser ones. *)
LEMMA GreatestOfFinite ==
    ASSUME NEW F, F # {}, IsFiniteSet(F), NEW f, \A x \in F : f[x] \in Nat
    PROVE  \E x \in F : \A y \in F : f[y] <= f[x]
<1> DEFINE lesser(x) == {y \in F : f[y] < f[x]}
           rank == [x \in F |-> Cardinality(lesser(x))]
<1>1. /\ Cardinality(F) \in Nat
      /\ \A x \in F : /\ IsFiniteSet(lesser(x)) /\ Cardinality(lesser(x)) \in Nat
                      /\ Cardinality(lesser(x)) <= Cardinality(F)
    BY FS_Subset, FS_CardinalityType
<1>2. PICK x \in F : \A y \in F : rank[y] <= rank[x]
    <2>1. \A x \in F : rank[x] \in 0..Cardinality(F)
        BY <1>1
    <2> HIDE DEF rank
    <2> QED BY <1>1, <2>1, GreatestPlace
<1>3. SUFFICES ASSUME NEW y \in F, f[x] < f[y] PROVE FALSE
    OBVIOUS
<1>4. lesser(x) \subseteq lesser(y) /\ x \in lesser(y) /\ x \notin lesser(x)
    BY <1>3
<1>5. Cardinality(lesser(x)) <= Cardinality(lesser(y)) /\ Cardinality(lesser(x)) # Cardinality(lesser(y))
    <2> HIDE DEF lesser
    <2> QED BY <1>1, <1>4, FS_Subset
<1> QED BY <1>1, <1>2, <1>5

(* A finite set that pre orders strictly and totally: the elements with    *)
(* fewer than k before them are k, or all there are, and come before every *)
(* other one.                                                              *)
LEMMA FirstOnes ==
    ASSUME NEW F, IsFiniteSet(F), NEW pre, NEW k \in Nat \ {0},
           \A x \in F : pre[x] \subseteq F /\ x \notin pre[x],
           \A x, y \in F : y \in pre[x] => pre[y] \subseteq pre[x],
           \A x, y \in F : x # y => x \in pre[y] \/ y \in pre[x]
    PROVE  LET top == {x \in F : Cardinality(pre[x]) < k}
           IN  \A x \in F \ top : top \subseteq pre[x] /\ IsFiniteSet(top) /\ Cardinality(top) = k
<1> DEFINE top == {x \in F : Cardinality(pre[x]) < k}
           rank == [x \in F |-> Cardinality(pre[x])]
<1> SUFFICES ASSUME F \ top # {}
             PROVE  /\ \A x \in F \ top : top \subseteq pre[x]
                    /\ IsFiniteSet(top) /\ Cardinality(top) = k
    OBVIOUS
<1>1. /\ IsFiniteSet(top) /\ Cardinality(top) \in Nat /\ Cardinality(F) \in Nat
      /\ \A x \in F : IsFiniteSet(pre[x]) /\ rank[x] \in Nat /\ rank[x] <= Cardinality(F)
    BY FS_Subset, FS_CardinalityType
<1>2. \A x, y \in F : y \in pre[x] => rank[y] < rank[x]
    <2> SUFFICES ASSUME NEW x \in F, NEW y \in F, y \in pre[x] PROVE rank[y] < rank[x]
        OBVIOUS
    <2>1. pre[y] \subseteq pre[x] /\ pre[y] # pre[x]
        OBVIOUS
    <2>2. Cardinality(pre[y]) <= Cardinality(pre[x]) /\ Cardinality(pre[y]) # Cardinality(pre[x])
        BY <1>1, <2>1, FS_Subset
    <2> QED BY <1>1, <2>2
<1>3. \A x \in F : x \in top <=> rank[x] < k
    OBVIOUS
<1> HIDE DEF top, rank
<1>4. top \subseteq F
    BY DEF top
<1>5. \A x \in F \ top : top \subseteq pre[x]
    <2> SUFFICES ASSUME NEW x \in F \ top, NEW y \in top, y \notin pre[x] PROVE FALSE
        OBVIOUS
    <2>1. rank[x] < rank[y]
        BY <1>2, <1>4
    <2> QED BY <1>1, <1>3, <1>4, <2>1
<1>6. Cardinality(top) >= k
    <2>1. PICK m \in F \ top : \A x \in F \ top : rank[m] <= rank[x]
        <3>1. \A x \in F \ top : rank[x] \in Nat
            BY <1>1
        <3> QED BY <3>1, LeastPlace
    <2>2. pre[m] \subseteq top
        <3> SUFFICES ASSUME NEW y \in pre[m], y \notin top PROVE FALSE
            OBVIOUS
        <3>1. y \in F /\ rank[y] < rank[m]
            BY <1>2
        <3> QED BY <1>1, <2>1, <3>1
    <2>3. pre[m] = top
        BY <1>5, <2>2
    <2>4. Cardinality(top) = rank[m]
        BY <2>3 DEF rank
    <2> QED BY <1>1, <1>3, <2>4
<1>7. Cardinality(top) <= k
    <2>1. top # {}
        BY <1>1, <1>6, FS_EmptySet
    <2>2. PICK m \in top : \A x \in top : rank[x] <= rank[m]
        <3>1. \A x \in top : rank[x] \in 0..Cardinality(F)
            BY <1>1, <1>4
        <3> QED BY <1>1, <2>1, <3>1, GreatestPlace
    <2>3. top \ {m} \subseteq pre[m]
        <3> SUFFICES ASSUME NEW x \in top, x # m, x \notin pre[m] PROVE FALSE
            OBVIOUS
        <3>1. rank[m] < rank[x]
            BY <1>2, <1>4
        <3> QED BY <1>1, <1>4, <2>2, <3>1
    <2>4. Cardinality(top \ {m}) <= rank[m] /\ Cardinality(top \ {m}) = Cardinality(top) - 1
        <3>1. IsFiniteSet(pre[m])
            BY <1>1, <1>4
        <3>2. Cardinality(top \ {m}) <= Cardinality(pre[m])
            BY <2>3, <3>1, FS_Subset
        <3>3. Cardinality(top \ {m}) = Cardinality(top) - 1
            BY <1>1, FS_RemoveElement
        <3> QED BY <1>4, <3>2, <3>3 DEF rank
    <2> QED BY <1>1, <1>3, <1>4, <2>4
<1> QED BY <1>1, <1>5, <1>6, <1>7

-----------------------------------------------------------------------------
(* The pipeline of the queries is the pipeline, and a payload's timestamp  *)
(* never changes.                                                          *)
QInv == PInv /\ deviceStamp \in Stamps

LEMMA QuerySpecQInv == QuerySpec => []QInv
<1>1. QueryInit => QInv
    BY InitPInv DEF QueryInit, QInv
<1>2. QInv /\ [QueryNext]_queryVars => QInv'
    <2> SUFFICES ASSUME QInv, [QueryNext]_queryVars PROVE QInv'
        OBVIOUS
    <2>1. [Next]_vars /\ deviceStamp' = deviceStamp
        BY DEF QueryNext, queryVars
    <2> QED BY <2>1, TypeStep, OffsetsStep, AccountedStep, BehindStep DEF QInv, PInv
<1> QED BY <1>1, <1>2, PTL DEF QuerySpec

LEMMA StampType ==
    ASSUME deviceStamp \in Stamps
    PROVE  \A r \in Record : Stamp(r) \in Nat
<1>1. deviceStamp \in [Record -> Nat]
    BY QueryAssumption
<1>2. \A r \in Record : r \in Nat /\ 10 * r \in Nat
    BY PipelineAssumption DEF Record
<1> QED BY <1>1, <1>2 DEF Stamp, MessageStamp

LEMMA CollectionType ==
    ASSUME TypeOK
    PROVE  /\ Len(collection) \in Nat
           /\ \A i \in 1..Len(collection) : collection[i] \in Record
           /\ Stored \subseteq Record
<1>1. Len(collection) \in Nat /\ \A i \in 1..Len(collection) : collection[i] \in 1..Len(log)
    BY DEF TypeOK
<1>2. Len(log) \in Nat /\ Len(pending) \in Nat /\ Len(log) + Len(pending) <= MaxLog
    BY DEF TypeOK
<1>3. \A l, p, m \in Nat : l + p <= m => 1..l \subseteq 1..m
    OBVIOUS
<1>4. 1..Len(log) \subseteq Record
    BY <1>2, <1>3, PipelineAssumption DEF Record
<1> QED BY <1>1, <1>4 DEF Stored

LEMMA StoredKept == ASSUME TypeOK, [Next]_vars PROVE Stored \subseteq Stored'
<1>1. CASE UNCHANGED collection
    BY <1>1 DEF Stored
<1>2. CASE MongoApplies
    <2>1. position \in 1..Len(log)
        BY <1>2, IntervalParts DEF MongoApplies, TypeOK, InHandler
    <2> QED BY <1>2, <2>1, StoredGrows DEF MongoApplies
<1>3. CASE Stop \/ Crash
    BY <1>3, CutLeaves DEF Stop, Crash
<1>4. CASE LateInsert
    <2>1. PICK r \in late : collection' = Append(collection, r)
        BY <1>4 DEF LateInsert
    <2>2. r \in 1..Len(log)
        BY <2>1 DEF TypeOK
    <2> QED BY <2>1, <2>2, StoredGrows
<1> QED BY <1>1, <1>2, <1>3, <1>4
    DEF Next, Consume, Start, SendMessage, KafkaAppends, SendFails, Join, JoinFails, GetOne, InsertReturns,
        InsertFails, AutoCommit, PollFails, MongoChanges, vars, storeVars

-----------------------------------------------------------------------------
(* Among any readings stored there is a latest one.                        *)
LEMMA LatestExists ==
    ASSUME TypeOK, deviceStamp \in Stamps, Stored # {}
    PROVE  Latest \in Stored /\ \A s \in Stored : Stamp(s) <= Stamp(Latest)
<1> DEFINE f == [r \in Stored |-> Stamp(r)]
<1>1. \A r \in Stored : f[r] \in Nat /\ f[r] = Stamp(r)
    BY StampType, CollectionType
<1>2. IsFiniteSet(Stored)
    <2>1. IsFiniteSet(Record)
        BY FS_Interval, PipelineAssumption DEF Record
    <2> QED BY <2>1, CollectionType, FS_Subset
<1>3. \E r \in Stored : \A s \in Stored : f[s] <= f[r]
    <2> HIDE DEF f
    <2> QED BY <1>1, <1>2, GreatestOfFinite
<1>4. \E r \in Stored : \A s \in Stored : Stamp(s) <= Stamp(r)
    BY <1>1, <1>3
<1> QED BY <1>4 DEF Latest

LEMMA LatestNow == QInv /\ Stored # {} => \A s \in Stored : Stamp(s) <= Stamp(Latest)
BY LatestExists DEF QInv, PInv

LEMMA LatestNext == (QInv /\ Stored # {} => \A s \in Stored : Stamp(s) <= Stamp(Latest))'
BY LatestNow, PTL

(* Whatever is delivered, cut off or delivered again, the reading the API  *)
(* calls latest is never followed by an older one.                         *)
THEOREM QueryLatestNeverBack == QuerySpec => LatestNeverBack
<1>1. QInv /\ QInv' /\ [QueryNext]_queryVars => [Stored # {} => Stamp(Latest) <= Stamp(Latest')]_queryVars
    <2> SUFFICES ASSUME QInv, QInv', QueryNext, Stored # {}
                 PROVE  Stamp(Latest) <= Stamp(Latest')
        OBVIOUS
    <2>1. Stored \subseteq Stored' /\ deviceStamp' = deviceStamp
        BY StoredKept DEF QueryNext, QInv, PInv
    <2>2. Latest \in Stored
        BY LatestExists DEF QInv, PInv
    <2>3. \A s \in Stored' : Stamp(s)' <= Stamp(Latest)'
        BY <2>1, <2>2, LatestNext
    <2>4. Stamp(Latest)' = Stamp(Latest')
        BY <2>1 DEF Stamp, MessageStamp
    <2>5. Stamp(Latest) = (IF deviceStamp'[Latest] = 0 THEN MessageStamp(Latest) ELSE deviceStamp'[Latest])
        BY <2>1 DEF Stamp
    <2> QED BY <2>1, <2>2, <2>3, <2>4, <2>5 DEF Stamp, MessageStamp
<1> QED BY <1>1, QuerySpecQInv, PTL DEF QuerySpec, LatestNeverBack

-----------------------------------------------------------------------------
(* The order of an answer is strict and total on the documents found.      *)
LEMMA BeforeOrders ==
    ASSUME TypeOK, deviceStamp \in Stamps, NEW F, F \subseteq 1..Len(collection)
    PROVE  /\ \A i \in F : ~Before(i, i)
           /\ \A i, j, k \in F : Before(i, j) /\ Before(j, k) => Before(i, k)
           /\ \A i, j \in F : i # j => Before(i, j) \/ Before(j, i)
<1>1. \A i \in F : i \in Nat /\ Stamp(collection[i]) \in Nat
    BY StampType, CollectionType
<1> QED BY <1>1 DEF Before, NewestFirst

(* What a history leaves out of the window: the history is then as long as *)
(* the limit allows, and nothing in it is older.                           *)
LEMMA HistoryFull ==
    ASSUME TypeOK, deviceStamp \in Stamps, NEW now \in Times,
           NEW i \in Found(now) \ History(now)
    PROVE  /\ IsFiniteSet(History(now)) /\ Cardinality(History(now)) = Limit
           /\ \A j \in History(now) : Stamp(collection[j]) >= Stamp(collection[i])
<1> DEFINE F == Found(now)
           pre == [x \in F |-> {y \in F : Before(y, x)}]
<1>1. F \subseteq 1..Len(collection) /\ IsFiniteSet(F)
    <2>1. F \subseteq 1..Len(collection)
        BY DEF Found
    <2>2. IsFiniteSet(1..Len(collection))
        BY CollectionType, FS_Interval
    <2> QED BY <2>1, <2>2, FS_Subset
<1>2. /\ \A x \in F : pre[x] \subseteq F /\ x \notin pre[x]
      /\ \A x, y \in F : y \in pre[x] => pre[y] \subseteq pre[x]
      /\ \A x, y \in F : x # y => x \in pre[y] \/ y \in pre[x]
    <2> HIDE DEF F
    <2> QED BY <1>1, BeforeOrders
<1>3. History(now) = {x \in F : Cardinality(pre[x]) < Limit}
    BY DEF History
<1>4. /\ History(now) \subseteq pre[i]
      /\ IsFiniteSet(History(now)) /\ Cardinality(History(now)) = Limit
    <2>1. Limit \in Nat \ {0} /\ i \in F \ {x \in F : Cardinality(pre[x]) < Limit}
        BY <1>3, QueryAssumption
    <2> HIDE DEF F, pre
    <2>2. \A x \in F \ {y \in F : Cardinality(pre[y]) < Limit} :
              /\ {y \in F : Cardinality(pre[y]) < Limit} \subseteq pre[x]
              /\ IsFiniteSet({y \in F : Cardinality(pre[y]) < Limit})
              /\ Cardinality({y \in F : Cardinality(pre[y]) < Limit}) = Limit
        BY <1>1, <1>2, <2>1, FirstOnes
    <2> QED BY <1>3, <2>1, <2>2
<1>5. \A j \in History(now) : Stamp(collection[j]) >= Stamp(collection[i])
    <2> SUFFICES ASSUME NEW j \in History(now) PROVE Stamp(collection[j]) >= Stamp(collection[i])
        OBVIOUS
    <2>1. Before(j, i)
        BY <1>4
    <2>2. i \in 1..Len(collection) /\ j \in 1..Len(collection)
        BY <1>1, <1>3
    <2>3. Stamp(collection[i]) \in Nat /\ Stamp(collection[j]) \in Nat
        BY <2>2, StampType, CollectionType
    <2> QED BY <2>1, <2>3 DEF Before, NewestFirst
<1> QED BY <1>4, <1>5

(* However the records were delivered, and whatever timestamps the devices *)
(* gave them, a history leaves a document out only when the limit is       *)
(* reached with documents no older (the find, sort and limit of            *)
(* query_device_telemetry); as long as every consumer ended with a commit, *)
(* it shows no reading twice.                                              *)
THEOREM QueryHistoryComplete == QuerySpec => []HistoryComplete
<1>1. QInv => HistoryComplete
    <2> SUFFICES ASSUME QInv, NEW now \in Times
                 PROVE  /\ \A i \in Found(now) \ History(now) :
                              /\ Cardinality(History(now)) = Limit
                              /\ \A j \in History(now) : Stamp(collection[j]) >= Stamp(collection[i])
                        /\ ~uncommitted =>
                              \A i, j \in History(now) : collection[i] = collection[j] => i = j
        BY DEF HistoryComplete
    <2>0. TypeOK /\ deviceStamp \in Stamps
        BY DEF QInv, PInv
    <2>1. \A i \in Found(now) \ History(now) :
              /\ Cardinality(History(now)) = Limit
              /\ \A j \in History(now) : Stamp(collection[j]) >= Stamp(collection[i])
        BY <2>0, HistoryFull
    <2>2. ASSUME ~uncommitted
          PROVE  \A i, j \in History(now) : collection[i] = collection[j] => i = j
        <3>1. \A i, j \in 1..Len(collection) : i < j => collection[i] # collection[j]
            BY <2>2 DEF QInv, PInv, StoredBehind, Ordered
        <3>2. \A i, j \in 1..Len(collection) : collection[i] = collection[j] => i = j
            <4>1. \A i, j \in 1..Len(collection) : i < j \/ j < i \/ i = j
                BY <2>0, CollectionType
            <4> QED BY <3>1, <4>1
        <3> QED BY <3>2 DEF History, Found
    <2> QED BY <2>1, <2>2
<1> QED BY <1>1, QuerySpecQInv, PTL
=============================================================================
