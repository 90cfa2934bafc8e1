------------------------------ MODULE BlobEvents ------------------------------
(***************************************************************************)
(* The consumer of Event Grid's blob events (BlobEventConsumer.cs): a       *)
(* message of the queue is turned into messages for the pipelines of the    *)
(* blob's sources, which are published before the message is completed.     *)
(* Messages are handled concurrently, in one process that keeps a snapshot  *)
(* of sources, pipelines and destinations and the URLs and ETags of recent  *)
(* uploads.                                                                 *)
(*                                                                         *)
(* Every blob here belongs to an enabled source with an active queue        *)
(* pipeline.  Storage, Event Grid and Service Bus are external: events are  *)
(* delivered at least once, in any order, and abandoned messages and those  *)
(* of a lost process are delivered again, up to a number of times.          *)
(***************************************************************************)
EXTENDS Naturals, Sequences, FiniteSets

CONSTANTS
    Blobs,
    MaxEvents,      \* bound: messages that Event Grid puts into the queue
    MaxDelivery,    \* maxDeliveryCount of the queue
    RecentCap,
    MaxFailures,    \* bound: calls that fail
    MaxRestarts     \* bound: restarts of the process

VARIABLES
    messages,   \* of the queue, oldest first: the event, deliveries, and where it is
    loaded,     \* the snapshot was refreshed since the process started
    recent,     \* uploads seen
    published,  \* events for which messages were published
    failures,
    restarts
blobVars == <<messages, loaded, recent, published, failures, restarts>>

BlobInit ==
    /\ messages = <<>>
    /\ loaded \in BOOLEAN
    /\ recent = {} /\ published = {} /\ failures = 0 /\ restarts = 0

Set(i, at) == messages' = [messages EXCEPT ![i].at = at]

\* Delivered again, or moved to the dead letters.
Redelivered(m) ==
    [m EXCEPT !.deliveries = @ + 1, !.at = IF m.deliveries + 1 = MaxDelivery THEN "dead" ELSE "queued"]

-----------------------------------------------------------------------------
\* A blob is uploaded, with a new ETag, or deleted; or an event is sent twice.
Event(blob, etag, delete) == [blob |-> blob, etag |-> etag, delete |-> delete]
Sent(event) ==
    /\ Len(messages) < MaxEvents
    /\ messages' = Append(messages, [event |-> event, deliveries |-> 0, at |-> "queued"])
    /\ UNCHANGED <<loaded, recent, published, failures, restarts>>

BlobChanges(blob, delete) == Sent(Event(blob, Len(messages) + 1, delete))
SentAgain(i) == Sent(messages[i].event)

\* RefreshLoopAsync runs beside the processor, which does not wait for it.
Refresh ==
    /\ ~loaded
    /\ loaded' = TRUE
    /\ UNCHANGED <<messages, recent, published, failures, restarts>>

-----------------------------------------------------------------------------
\* BuildEmbeddingMessages: an upload is remembered, and a repeated one yields
\* nothing; nor does any event without a snapshot.
Key(event) == <<event.blob, event.etag>>
Repeated(event) == ~event.delete /\ Key(event) \in recent

Pruned(keys) ==
    IF Cardinality(keys) <= RecentCap THEN {keys}
    ELSE {keys \ old : old \in {s \in SUBSET keys : Cardinality(s) = RecentCap \div 2}}

HandleMessage(i) ==
    LET event == messages[i].event IN
    /\ messages[i].at = "queued"
    /\ Set(i, IF Repeated(event) \/ ~loaded THEN "settling" ELSE "publishing")
    /\ IF event.delete THEN UNCHANGED recent
       ELSE IF Repeated(event) THEN UNCHANGED recent
       ELSE recent' \in Pruned(recent \cup {Key(event)})
    /\ UNCHANGED <<loaded, published, failures, restarts>>

PublishBatch(i) ==
    /\ messages[i].at = "publishing"
    /\ Set(i, "settling")
    /\ published' = published \cup {messages[i].event}
    /\ UNCHANGED <<loaded, recent, failures, restarts>>

CompleteMessage(i) ==
    /\ messages[i].at = "settling"
    /\ Set(i, "completed")
    /\ UNCHANGED <<loaded, recent, published, failures, restarts>>

\* Publishing or completing throws: the message is abandoned.
AbandonMessage(i) ==
    /\ messages[i].at \in {"publishing", "settling"}
    /\ failures < MaxFailures /\ failures' = failures + 1
    /\ messages' = [messages EXCEPT ![i] = Redelivered(@)]
    /\ UNCHANGED <<loaded, recent, published, restarts>>

\* The process restarts: what it held is delivered again.
Restart ==
    /\ restarts < MaxRestarts /\ restarts' = restarts + 1
    /\ messages' = [i \in DOMAIN messages |->
           IF messages[i].at \in {"publishing", "settling"} THEN Redelivered(messages[i]) ELSE messages[i]]
    /\ loaded' = FALSE /\ recent' = {}
    /\ UNCHANGED <<published, failures>>

BlobNext ==
    \/ \E blob \in Blobs, delete \in BOOLEAN : BlobChanges(blob, delete)
    \/ Refresh \/ Restart
    \/ \E i \in DOMAIN messages :
           SentAgain(i) \/ HandleMessage(i) \/ PublishBatch(i) \/ CompleteMessage(i) \/ AbandonMessage(i)

\* a consumer whose snapshot of the pipelines is loaded
LoadedInit == BlobInit /\ loaded = TRUE
LoadedSpec == LoadedInit /\ [][BlobNext]_blobVars

\* "Delivery is at least once.  A failed publication can replay": once all
\* messages of an event are completed, messages for it were published.  False:
\* an upload is remembered before it is published, and after a failed
\* publication its redelivery is taken for a repetition and completed.
PublishedWhenCompleted ==
    \A i \in DOMAIN messages :
        LET event == messages[i].event IN
        (\A j \in DOMAIN messages : messages[j].event = event => messages[j].at = "completed") => event \in published
=============================================================================
