-------------------------- MODULE TelemetryPipeline --------------------------
(***************************************************************************)
(* Telemetry from send_message() to MongoDB: the Kafka producer, one       *)
(* partition of iot.telemetry, the consumer group's offset, and the        *)
(* consumer that hands one record after the other to TelemetryWriter,      *)
(* through outages of Kafka and MongoDB, stops and crashes of the process. *)
(*                                                                         *)
(* A record is the position it has in the log.  position counts the        *)
(* records getone() has returned, the record of the running handler        *)
(* included: aiokafka commits that number every few seconds and when the   *)
(* consumer is stopped.                                                    *)
(***************************************************************************)
EXTENDS Integers, Sequences, FiniteSets

CONSTANTS
    MaxLog,           \* bound on the records of the partition
    MaxPending,       \* bound on the records that wait for Kafka
    MaxInterruptions  \* bound on the stops and crashes

ASSUME PipelineAssumption == {MaxLog, MaxPending, MaxInterruptions} \subseteq Nat

VARIABLES
    producer,     \* _initialized
    pending,      \* records whose send_and_wait() has not returned
    log,          \* the partition
    mongo,        \* MongoDB: it answers, it is gone, or it holds its connections and is silent
    collection,   \* the telemetry collection: the records inserted, in order
    late,         \* records whose insert a silent MongoDB holds, given up by its sender
    pc,           \* the process and its _consume_loop
    position, committed,  \* committed = None: the group has no offset
    failed,       \* history: records whose insert raised an exception
    cut,          \* history: records whose handler was interrupted
    base,         \* history: the position the first offset counts from
    uncommitted,  \* history: a consumer has ended without a commit
    interruptions \* history

producerVars == <<producer, pending, log>>
storeVars == <<mongo, collection, late>>
history == <<failed, cut, base, uncommitted, interruptions>>
vars == <<producerVars, storeVars, pc, position, committed, history>>

Kind == {"reading", "unusable"}
Mongo == {"up", "down", "silent"}
None == -1
Record == 1..MaxLog

Working == {"polling", "inserting", "inserted"}
InHandler == {"inserting", "inserted"}

TypeOK ==
    /\ producer \in BOOLEAN /\ mongo \in Mongo /\ uncommitted \in BOOLEAN
    /\ pending \in Seq(Kind) /\ Len(pending) <= MaxPending
    /\ log \in Seq(Kind) /\ Len(log) + Len(pending) <= MaxLog
    /\ collection \in Seq(1..Len(log))
    /\ pc \in {"down", "joining", "ended"} \cup Working
    /\ position \in 0..Len(log) /\ (pc \in InHandler => position > 0)
    /\ {committed, base} \subseteq {None} \cup 0..Len(log)
    /\ failed \subseteq 1..Len(log) /\ cut \subseteq 1..Len(log) /\ late \subseteq failed \cup cut
    /\ interruptions \in 0..MaxInterruptions

Init ==
    /\ producer = FALSE /\ pending = <<>> /\ log = <<>>
    /\ mongo \in Mongo /\ collection = <<>> /\ late = {}
    /\ pc = "down" /\ position = 0 /\ committed = None
    /\ failed = {} /\ cut = {} /\ base = None
    /\ uncommitted = FALSE /\ interruptions = 0

-----------------------------------------------------------------------------
(* The process and the producer.                                           *)

\* main(): without MongoDB there is no telemetry consumer; initialize()
\* leaves the producer off when Kafka does not answer.
Start ==
    /\ pc = "down"
    /\ producer' \in BOOLEAN
    /\ pc' = IF mongo = "up" THEN "joining" ELSE "ended"
    /\ UNCHANGED <<pending, log, storeVars, position, committed, history>>

\* send_message(), called by the sessions; without a producer it drops the
\* message.
SendMessage(k) ==
    /\ producer
    /\ Len(pending) < MaxPending /\ Len(log) + Len(pending) < MaxLog
    /\ pending' = Append(pending, k)
    /\ UNCHANGED <<producer, log, storeVars, pc, position, committed, history>>

KafkaAppends ==
    /\ pending # <<>>
    /\ log' = Append(log, Head(pending))
    /\ pending' = Tail(pending)
    /\ UNCHANGED <<producer, storeVars, pc, position, committed, history>>

\* send_and_wait() raises, and the message is dropped.
SendFails ==
    /\ pending # <<>>
    /\ pending' = Tail(pending)
    /\ UNCHANGED <<producer, log, storeVars, pc, position, committed, history>>

-----------------------------------------------------------------------------
(* The consumer.                                                           *)

\* A plausible slip: the consumer always begins at the end of the log.
JoinLatest ==
    /\ pc = "joining"
    /\ pc' = "polling"
    /\ position' = Len(log)
    /\ base' = IF committed = None THEN Len(log) ELSE base
    /\ UNCHANGED <<producerVars, storeVars, committed, failed, cut, uncommitted, interruptions>>

\* A plausible slip: a restarted consumer reads again from where the group began.
JoinBase ==
    /\ pc = "joining"
    /\ pc' = "polling"
    /\ position' = IF committed = None THEN Len(log) ELSE base
    /\ base' = IF committed = None THEN Len(log) ELSE base
    /\ UNCHANGED <<producerVars, storeVars, committed, failed, cut, uncommitted, interruptions>>

\* consumer.start(): auto_offset_reset is "latest".
Join ==
    /\ pc = "joining"
    /\ pc' = "polling"
    /\ position' = IF committed = None THEN Len(log) ELSE committed
    /\ base' = IF committed = None THEN Len(log) ELSE base
    /\ UNCHANGED <<producerVars, storeVars, committed, failed, cut, uncommitted, interruptions>>

\* consumer.start() raises; the loop ends, and nothing starts it again.
JoinFails ==
    /\ pc = "joining"
    /\ pc' = "ended"
    /\ UNCHANGED <<producerVars, storeVars, position, committed, history>>

\* A plausible slip: the record is taken before it is there.
GetOneAhead ==
    /\ pc = "polling" /\ position < MaxLog
    /\ position' = position + 1
    /\ pc' = "inserting"
    /\ UNCHANGED <<producerVars, storeVars, committed, history>>

\* getone() and handle_telemetry_message(), which returns for a record
\* without an id, a payload object or fields, and begins an insert otherwise.
GetOne ==
    /\ pc = "polling" /\ position < Len(log)
    /\ position' = position + 1
    /\ pc' = IF log[position + 1] = "reading" THEN "inserting" ELSE "polling"
    /\ UNCHANGED <<producerVars, storeVars, committed, history>>

MongoApplies ==
    /\ pc = "inserting" /\ mongo = "up"
    /\ collection' = Append(collection, position)
    /\ pc' = "inserted"
    /\ UNCHANGED <<producerVars, mongo, late, position, committed, history>>

\* insert_one() returns; or the answer is lost, and its exception is logged.
InsertReturns ==
    /\ pc = "inserted"
    /\ pc' = "polling"
    /\ UNCHANGED <<producerVars, storeVars, position, committed, history>>

\* A plausible slip: the handler tries again until MongoDB is back.
InsertRetries ==
    /\ pc = "inserting" /\ mongo # "up"
    /\ UNCHANGED vars

\* An insert is given up that a silent MongoDB may have received.
GiveUpInsert == late' = IF mongo = "silent" THEN late \cup {position} ELSE late

\* The server selection times out, or the connection breaks; the exception is
\* logged, and the consumer gets on.  While MongoDB is silent an insert may
\* fail, and it may wait: only the selection of a server has a time limit.
InsertFails ==
    /\ pc = "inserting" /\ mongo # "up"
    /\ failed' = failed \cup {position}
    /\ GiveUpInsert
    /\ pc' = "polling"
    /\ UNCHANGED <<producerVars, mongo, collection, position, committed, cut, base, uncommitted,
                   interruptions>>

AutoCommit ==
    /\ pc \in Working
    /\ committed' = position
    /\ UNCHANGED <<producerVars, storeVars, pc, position, history>>

\* The handler is cancelled in its insert, which its thread may still carry
\* out, and a silent MongoDB later than that.
CutHandler ==
    /\ cut' = IF pc \in InHandler THEN cut \cup {position} ELSE cut
    /\ collection' \in {collection} \cup
                       (IF pc = "inserting" /\ mongo = "up" THEN {Append(collection, position)} ELSE {})
    /\ IF pc = "inserting" THEN GiveUpInsert ELSE UNCHANGED late

\* A plausible slip: the consumer is dropped without its last commit.
LastCommitForgotten == UNCHANGED <<committed, uncommitted>>

\* The finally clause of the loop: consumer.stop() commits, if Kafka answers.
LastCommit ==
    \/ pc \in Working /\ committed' = position /\ UNCHANGED uncommitted
    \/ pc \in Working /\ uncommitted' = TRUE /\ UNCHANGED committed
    \/ pc \notin Working /\ UNCHANGED <<committed, uncommitted>>

\* getone() raises; the loop ends, and nothing starts it again.
PollFails ==
    /\ pc = "polling"
    /\ LastCommit
    /\ pc' = "ended"
    /\ UNCHANGED <<producerVars, storeVars, position, failed, cut, base, interruptions>>

\* KafkaTopicConsumer.stop() and KafkaMessageProducer.close(), which waits
\* for what is pending.
Stop ==
    /\ pc # "down" /\ pending = <<>> /\ interruptions < MaxInterruptions
    /\ CutHandler /\ LastCommit
    /\ pc' = "down" /\ producer' = FALSE
    /\ interruptions' = interruptions + 1
    /\ UNCHANGED <<pending, log, mongo, position, failed, base>>

\* The process dies.
Crash ==
    /\ pc # "down" /\ interruptions < MaxInterruptions
    /\ pc' = "down" /\ producer' = FALSE /\ pending' = <<>>
    /\ CutHandler
    /\ uncommitted' = TRUE
    /\ interruptions' = interruptions + 1
    /\ UNCHANGED <<log, mongo, position, committed, failed, base>>

-----------------------------------------------------------------------------
\* A MongoDB that goes down forgets what it has received.
MongoChanges ==
    /\ mongo' \in Mongo \ {mongo}
    /\ late' = IF mongo' = "down" THEN {} ELSE late
    /\ UNCHANGED <<producerVars, collection, pc, position, committed, history>>

\* A MongoDB that was silent carries out what it has received.
LateInsert ==
    /\ mongo = "up"
    /\ \E r \in late : collection' = Append(collection, r) /\ late' = late \ {r}
    /\ UNCHANGED <<producerVars, mongo, pc, position, committed, history>>

Consume == Join \/ JoinFails \/ GetOne \/ MongoApplies \/ InsertReturns \/ InsertFails

Next ==
    \/ Start \/ (\E k \in Kind : SendMessage(k)) \/ KafkaAppends \/ SendFails
    \/ Consume \/ AutoCommit \/ PollFails \/ Stop \/ Crash
    \/ MongoChanges \/ LateInsert

Spec == Init /\ [][Next]_vars

-----------------------------------------------------------------------------
(* Safety.                                                                 *)

Stored == {collection[i] : i \in 1..Len(collection)}

InFlight == IF pc = "inserting" THEN {position} ELSE {}

(* No record is passed over: from the position the group's first offset    *)
(* counts from, every reading up to the committed offset is stored, or its *)
(* insert failed and was logged, or its handler was interrupted, or it is  *)
(* being inserted - whatever stops, crashes and outages there were.        *)
Accounted ==
    \A r \in Record :
        /\ base < r /\ r <= committed
        /\ log[r] = "reading"
        => r \in Stored \cup failed \cup cut \cup InFlight

(* As long as every consumer ended with a commit, no record is stored      *)
(* twice, and they are stored in the order of the log, but for those whose *)
(* handler was interrupted or gave up.                                     *)
StoredInOrder ==
    ~uncommitted =>
        \A i, j \in 1..Len(collection) :
            i < j => /\ collection[i] # collection[j]
                     /\ collection[i] < collection[j] \/ collection[j] \in failed \cup cut

(* However consumers end and begin, the group's offset never goes back,    *)
(* and no record it has passed is stored again: only the last one may be   *)
(* stored after it was committed, and one that a silent MongoDB held.      *)
OffsetNeverBack ==
    [][/\ committed <= committed'
       /\ collection' # collection =>
              LET r == collection'[Len(collection')] IN r >= committed \/ r \in late]_vars

-----------------------------------------------------------------------------
(* Liveness.  The consumer's loop runs, Kafka answers it, a MongoDB that   *)
(* answers takes the insert, and one that is gone makes it fail            *)
(* (serverSelectionTimeoutMS).  Nothing makes a silent one do either: no   *)
(* time limit is set for an answer.                                        *)

Fairness == WF_vars(Join \/ JoinFails) /\ WF_vars(GetOne) /\ WF_vars(InsertReturns)
            /\ WF_vars(MongoApplies \/ (mongo = "down" /\ InsertFails))

FairSpec == Spec /\ Fairness

(* The consumer comes to every record, unless its loop ends, through all   *)
(* outages of MongoDB that make an insert fail.  A MongoDB that is silent  *)
(* for ever holds the consumer for ever, so this has to be excluded.       *)
ConsumerGetsOn ==
    <>[](mongo # "silent") =>
        \A r \in Record :
            (pc \in Working /\ r <= Len(log)) ~> (r <= position \/ pc \notin Working)

-----------------------------------------------------------------------------
(* What the guide says of an outage of MongoDB: "Kafka buffers the         *)
(* messages - no data is lost".  A reading the consumer is done with is in *)
(* the collection, as long as nothing but MongoDB fails.                   *)
NothingLost ==
    \A r \in Record :
        /\ base # None /\ base < r /\ r <= position
        /\ pc \in Working /\ interruptions = 0
        /\ log[r] = "reading"
        => r \in Stored \cup InFlight
=============================================================================
