--------------------------- MODULE TelemetryQueries ---------------------------
(***************************************************************************)
(* The telemetry of one device as the API shows it: the timestamps the     *)
(* writer gives the documents of the pipeline's collection, and the two    *)
(* queries over them.                                                      *)
(***************************************************************************)
EXTENDS TelemetryPipeline

CONSTANTS
    Stamps,  \* the payload timestamps of the records, each way they may be set
    Limit,   \* the limit of a history request
    Hour,    \* the default window of a history request
    Times    \* when requests are made

ASSUME QueryAssumption ==
    /\ Stamps \subseteq [Record -> Nat] /\ Times \subseteq Nat
    /\ Limit \in Nat \ {0} /\ Hour \in Nat

VARIABLE deviceStamp  \* the "timestamp" of each record's payload; 0: none

queryVars == <<vars, deviceStamp>>

QueryInit == Init /\ deviceStamp \in Stamps

QueryNext == Next /\ UNCHANGED deviceStamp

QuerySpec == QueryInit /\ [][QueryNext]_queryVars

FairQuerySpec == QuerySpec /\ Fairness

\* The time.time() of send_message.
MessageStamp(r) == 10 * r

\* payload.get("timestamp") or message.get("timestamp")
Stamp(r) == IF deviceStamp[r] = 0 THEN MessageStamp(r) ELSE deviceStamp[r]

\* A plausible slip: the document inserted last.
LatestInserted == collection[Len(collection)]

\* find_one, sorted by timestamp, which takes any of equal ones.
Latest == CHOOSE r \in Stored : \A s \in Stored : Stamp(s) <= Stamp(r)

\* A plausible slip: the oldest readings come first, and the limit keeps them.
OldestFirst(r, s) == Stamp(r) < Stamp(s)

NewestFirst(r, s) == Stamp(r) > Stamp(s)

\* The order of the answer, where equal timestamps keep the collection's order.
Before(i, j) ==
    \/ NewestFirst(collection[i], collection[j])
    \/ Stamp(collection[i]) = Stamp(collection[j]) /\ i < j

\* The documents in the window of a request, by their place in the collection.
Found(now) ==
    {i \in 1..Len(collection) :
        now - Hour <= Stamp(collection[i]) /\ Stamp(collection[i]) <= now}

\* Those before which the order puts fewer than the limit.
History(now) ==
    {i \in Found(now) : Cardinality({j \in Found(now) : Before(j, i)}) < Limit}

-----------------------------------------------------------------------------
(* Whatever a restart delivers again, the reading the API calls latest is  *)
(* never replaced by an older one.                                         *)
LatestNeverBack == [][Stored # {} => Stamp(Latest) <= Stamp(Latest')]_queryVars

(* A history leaves a document of its window out only for as many others   *)
(* as the limit allows, none of them older; a reading that is stored twice *)
(* takes two of the places.  As long as every consumer ended with a        *)
(* commit, it shows no reading twice.                                      *)
HistoryComplete ==
    \A now \in Times :
        /\ \A i \in Found(now) \ History(now) :
              /\ Cardinality(History(now)) = Limit
              /\ \A j \in History(now) : Stamp(collection[j]) >= Stamp(collection[i])
        /\ ~uncommitted =>
              \A i, j \in History(now) : collection[i] = collection[j] => i = j
=============================================================================
