---------------------------- MODULE EventStream ----------------------------
(***************************************************************************)
(* The Hub's event log and its stream to the browsers                      *)
(* (internal/hub/logger.go).  Any goroutine logs; an event gets an id,     *)
(* goes into a ring and to the queue of every open stream.  A browser that *)
(* reconnects sends the last id it saw and gets what the ring still has    *)
(* before the live events.                                                 *)
(***************************************************************************)
EXTENDS Naturals, SequencesExt, Selecting

CONSTANTS Loggers,    \* goroutines that log
          Readers,    \* browsers
          RingSize,   \* DefaultRingBufferSize (200)
          QueueSize,  \* a subscriber's channel (64)
          MaxStreams, \* maxSSEClients (32)
          MaxEvents   \* bound: events logged

ASSUME StreamAssumption ==
    /\ RingSize \in Nat \ {0} /\ QueueSize \in Nat \ {0} /\ MaxStreams \in Nat \ {0} /\ MaxEvents \in Nat
    /\ IsFiniteSet(Readers)

VARIABLES nextID,    \* the last id given
          logging,   \* [Loggers -> [id, at: "idle", "ring" or "subscribers"]]
          ring,      \* the ids kept, oldest first
          stream,    \* [Readers -> "closed", "subscribed", "replay", "live"]
          queue,     \* [Readers -> ids waiting in the subscriber's channel]
          replay,    \* [Readers -> ids of the snapshot still to be written]
          sent,      \* [Readers -> lastSentID of the handler]
          transit,      \* [Readers -> ids written and on their way]
          received,  \* [Readers -> ids that arrived, in order, over all streams]
          lingering, \* subscribers whose browser has gone
          excused    \* [Readers -> ids dropped at a full queue or overwritten before the replay]
streamVars == <<nextID, logging, ring, stream, queue, replay, sent, transit, received, lingering, excused>>

Idle == [id |-> 0, at |-> "idle"]
StreamInit ==
    /\ nextID = 0 /\ ring = <<>> /\ lingering = 0
    /\ logging = [l \in Loggers |-> Idle]
    /\ stream = [r \in Readers |-> "closed"]
    /\ sent = [r \in Readers |-> 0] /\ excused = [r \in Readers |-> {}]
    /\ queue = [r \in Readers |-> <<>>] /\ replay = queue /\ transit = queue /\ received = queue

-----------------------------------------------------------------------------
(* Log: sequenceMu is held from the id to the last subscriber.             *)

BeginLog_Unlocked(l) ==
    /\ nextID < MaxEvents /\ logging[l] = Idle
    /\ nextID' = nextID + 1
    /\ logging' = [logging EXCEPT ![l] = [id |-> nextID', at |-> "ring"]]
    /\ UNCHANGED <<ring, stream, queue, replay, sent, transit, received, lingering, excused>>

BeginLog(l) ==
    /\ nextID < MaxEvents /\ \A m \in Loggers : logging[m] = Idle
    /\ nextID' = nextID + 1
    /\ logging' = [logging EXCEPT ![l] = [id |-> nextID', at |-> "ring"]]
    /\ UNCHANGED <<ring, stream, queue, replay, sent, transit, received, lingering, excused>>

\* RingBuffer.Append: the oldest event makes room.
RingAppend(l) ==
    /\ logging[l].at = "ring"
    /\ ring' = Append(IF Len(ring) < RingSize THEN ring ELSE Tail(ring), logging[l].id)
    /\ logging' = [logging EXCEPT ![l].at = "subscribers"]
    /\ UNCHANGED <<nextID, stream, queue, replay, sent, transit, received, lingering, excused>>

\* Broadcast: a full queue loses the event; then the mutex is released.
Broadcast(l) ==
    /\ logging[l].at = "subscribers"
    /\ LET id == logging[l].id
           open == {r \in Readers : stream[r] # "closed"}
           full == {r \in open : Len(queue[r]) >= QueueSize}
       IN /\ queue' = [r \in Readers |-> IF r \in open \ full THEN Append(queue[r], id) ELSE queue[r]]
          /\ excused' = [r \in Readers |-> IF r \in full THEN excused[r] \cup {id} ELSE excused[r]]
    /\ logging' = [logging EXCEPT ![l] = Idle]
    /\ UNCHANGED <<nextID, ring, stream, replay, sent, transit, received, lingering>>

-----------------------------------------------------------------------------
(* HandleEvents: one stream of one browser.                                *)

Streams == {r \in Readers : stream[r] # "closed"}

\* Subscribe first, so that nothing logged from here on is missed; a browser
\* above the budget is turned away and tries again.
TrySubscribe(r) ==
    /\ stream[r] = "closed" /\ Cardinality(Streams) + lingering < MaxStreams
    /\ stream' = [stream EXCEPT ![r] = "subscribed"]
    /\ sent' = [sent EXCEPT ![r] = IF received[r] = <<>> THEN 0 ELSE Last(received[r])]
    /\ UNCHANGED <<nextID, logging, ring, queue, replay, transit, received, lingering, excused>>

\* GetRecent, only for a browser that names an event it has seen.
Snapshot(r) ==
    /\ stream[r] = "subscribed"
    /\ stream' = [stream EXCEPT ![r] = "replay"]
    /\ replay' = [replay EXCEPT ![r] = IF sent[r] = 0 THEN <<>>
                                     ELSE Keep(ring, {id \in Range(ring) : id > sent[r]})]
    /\ excused' = [excused EXCEPT ![r] =
          @ \cup {id \in 1..nextID : sent[r] > 0 /\ ring # <<>> /\ sent[r] < id /\ id < ring[1]}]
    /\ UNCHANGED <<nextID, logging, ring, queue, sent, transit, received, lingering>>

WriteEvent(r, id) ==
    /\ transit' = [transit EXCEPT ![r] = Append(@, id)]
    /\ sent' = [sent EXCEPT ![r] = id]

\* The snapshot is written, event by event; then the live loop begins.
Replay(r) ==
    /\ stream[r] = "replay"
    /\ IF replay[r] = <<>>
       THEN stream' = [stream EXCEPT ![r] = "live"] /\ UNCHANGED <<replay, transit, sent>>
       ELSE /\ WriteEvent(r, Head(replay[r]))
            /\ replay' = [replay EXCEPT ![r] = Tail(@)] /\ stream' = stream
    /\ UNCHANGED <<nextID, logging, ring, queue, received, lingering, excused>>

\* A live event, unless the replay has already sent it.
Deliver(r) ==
    /\ stream[r] = "live" /\ queue[r] # <<>>
    /\ queue' = [queue EXCEPT ![r] = Tail(@)]
    /\ IF Head(queue[r]) <= sent[r] THEN UNCHANGED <<transit, sent>> ELSE WriteEvent(r, Head(queue[r]))
    /\ UNCHANGED <<nextID, logging, ring, stream, replay, received, lingering, excused>>

\* The browser sees an event and keeps its id for the next connection.
Arrive(r) ==
    /\ transit[r] # <<>>
    /\ received' = [received EXCEPT ![r] = Append(@, Head(transit[r]))]
    /\ transit' = [transit EXCEPT ![r] = Tail(@)]
    /\ UNCHANGED <<nextID, logging, ring, stream, queue, replay, sent, lingering, excused>>

\* The connection breaks, with what is on its way; the handler finds out later.
HangUp(r) ==
    /\ stream[r] # "closed"
    /\ stream' = [stream EXCEPT ![r] = "closed"]
    /\ queue' = [queue EXCEPT ![r] = <<>>] /\ replay' = [replay EXCEPT ![r] = <<>>]
    /\ transit' = [transit EXCEPT ![r] = <<>>] /\ sent' = [sent EXCEPT ![r] = 0]
    /\ lingering' = lingering + 1
    /\ UNCHANGED <<nextID, logging, ring, received, excused>>

Unsubscribe ==
    /\ lingering > 0 /\ lingering' = lingering - 1
    /\ UNCHANGED <<nextID, logging, ring, stream, queue, replay, sent, transit, received, excused>>

StreamNext ==
    \/ \E l \in Loggers : BeginLog(l) \/ RingAppend(l) \/ Broadcast(l)
    \/ \E r \in Readers : \/ TrySubscribe(r) \/ Snapshot(r) \/ Replay(r) \/ Deliver(r)
                          \/ Arrive(r) \/ HangUp(r)
    \/ Unsubscribe
StreamSpec == StreamInit /\ [][StreamNext]_streamVars

-----------------------------------------------------------------------------
StreamTypeOK ==
    /\ nextID \in 0..MaxEvents /\ Len(ring) <= RingSize
    /\ \A r \in Readers : Len(queue[r]) <= QueueSize /\ sent[r] \in 0..MaxEvents
    /\ Cardinality(Streams) + lingering <= MaxStreams

\* Nothing is left to be written to this browser.
CaughtUp(r) ==
    /\ stream[r] = "live" /\ queue[r] = <<>> /\ transit[r] = <<>>
    /\ \A l \in Loggers : logging[l] = Idle

\* What a browser sees, over all its connections, is in the order of the log,
\* has no event twice, and misses none it could have had: an event after the
\* first it saw is absent only when its queue was full or the ring had turned
\* over; and a stream that has caught up has shown the newest.
StreamFaithful ==
    /\ StreamTypeOK
    /\ \A r \in Readers : LET seen == received[r] IN
          /\ \A i, j \in DOMAIN seen : i < j => seen[i] < seen[j]
          /\ seen # <<>> =>
                \A id \in seen[1]..(IF CaughtUp(r) THEN nextID ELSE Last(seen)) :
                    id \in Range(seen) \cup excused[r]
=============================================================================
