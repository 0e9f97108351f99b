------------------------------ MODULE EventStore ------------------------------
(***************************************************************************)
(* InMemoryEventStore (event_store.py): the events of resumable streams in *)
(* bounded deques, an index from event to stream, and the replays that     *)
(* clients ask for after a lost connection, while more events are stored.  *)
(* Events are numbered in the order in which they are stored.              *)
(***************************************************************************)
EXTENDS Naturals, Sequences, SequencesExt

CONSTANTS
    Streams,    \* streams of the MCP sessions
    Clients,    \* clients that resume
    MaxPerStream,   \* max_events_per_stream
    MaxEvents,  \* bound of the model: events that are stored
    None

ASSUME StoreAssumption ==
    /\ MaxPerStream \in Nat \ {0} /\ MaxEvents \in Nat
    /\ None \notin Streams \cup Nat

Events == 1 .. MaxEvents

VARIABLES
    deques,    \* _streams[s]; an entry is an event, and whether it has a message
    index,     \* _event_to_stream
    count,     \* events stored so far
    log,       \* log[s]: all that was ever stored in s
    client     \* client[c]: what the client has, and its replay

storeVars == <<deques, index, count, log, client>>

Entry == [event : Events, message : BOOLEAN]

\* `first': the event the client knew when it lost its stream; `last': its
\* Last-Event-ID now; `got': what replays have sent to it; `todo': what the
\* running replay has still to send; `known': the length of the log when it
\* began.
NoClient == [stage |-> "new", first |-> None, last |-> None,
             got |-> << >>, todo |-> << >>, known |-> 0]

StoreTypeOK ==
    /\ deques \in [Streams -> Seq(Entry)]
    /\ \A s \in Streams : Len(deques[s]) <= MaxPerStream
    /\ index \in [Events -> Streams \cup {None}]
    /\ count \in 0 .. MaxEvents
    /\ log \in [Streams -> Seq(Entry)]
    /\ client \in [Clients -> [stage : {"new", "replaying", "away", "refused"},
                               first : Events \cup {None}, last : Events \cup {None},
                               got : Seq(Events), todo : Seq(Entry), known : 0 .. MaxEvents]]

StoreInit ==
    /\ deques = [s \in Streams |-> << >>]
    /\ index = [e \in Events |-> None]
    /\ count = 0
    /\ log = deques
    /\ client = [c \in Clients |-> NoClient]

\* Mutant: a deque without a maxlen.
Appended_Unbounded(deque, entry) == Append(deque, entry)

\* deque(maxlen=...).append drops from the other end.
Appended(deque, entry) ==
    IF Len(deque) = MaxPerStream THEN Append(Tail(deque), entry) ELSE Append(deque, entry)

\* Mutant: the event that leaves the index is the newest one.
Forgotten_Newest(s) ==
    IF Len(deques[s]) = MaxPerStream
    THEN [index EXCEPT ![deques[s][Len(deques[s])].event] = None] ELSE index

Forgotten(s) ==
    IF Len(deques[s]) = MaxPerStream THEN [index EXCEPT ![deques[s][1].event] = None] ELSE index

\* store_event, which has no await.  A session may prime a stream with an
\* event that has no message, before the first one that has.
Store(s) ==
    /\ count < MaxEvents
    /\ \E message \in (IF deques[s] = << >> THEN BOOLEAN ELSE {TRUE}) :
         LET entry == [event |-> count + 1, message |-> message]
         IN /\ deques' = [deques EXCEPT ![s] = Appended(@, entry)]
            /\ log' = [log EXCEPT ![s] = Append(@, entry)]
    /\ index' = [Forgotten(s) EXCEPT ![count + 1] = s]
    /\ count' = count + 1
    /\ UNCHANGED client

Position(entries, e) == {i \in DOMAIN entries : entries[i].event = e}

\* Mutant: the last event itself is sent again.
After_Inclusive(deque, e) ==
    LET i == CHOOSE i \in Position(deque, e) : TRUE IN SubSeq(deque, i, Len(deque))

\* The events behind e, copied before the first callback is awaited.
After(deque, e) ==
    LET i == CHOOSE i \in Position(deque, e) : TRUE IN SubSeq(deque, i + 1, Len(deque))

\* replay_events_after up to its first await: an event that is gone, or never
\* was, gets no replay.
Replay(c, e) ==
    LET s == index[e]
    IN IF s = None THEN client' = [client EXCEPT ![c].stage = "refused"]
       ELSE IF Position(deques[s], e) = {} THEN client' = [client EXCEPT ![c].stage = "refused"]
       ELSE client' = [client EXCEPT ![c].stage = "replaying", ![c].first = IF @ = None THEN e ELSE @,
                                     ![c].last = e, ![c].todo = After(deques[s], e),
                                     ![c].known = Len(log[s])]

\* A client that lost its stream at any event, or came back once more.
Resume(c) ==
    /\ \/ client[c].stage = "new" /\ \E e \in 1 .. count : Replay(c, e)
       \/ client[c].stage = "away" /\ Replay(c, client[c].last)
    /\ UNCHANGED <<deques, index, count, log>>

\* One turn of the loop: the callback sends a message; a priming event is
\* passed over.
Send(c) ==
    LET next == Head(client[c].todo)
    IN /\ client[c].stage = "replaying"
       /\ client[c].todo # << >>
       /\ client' = IF next.message
                    THEN [client EXCEPT ![c].todo = Tail(@), ![c].last = next.event,
                                        ![c].got = Append(@, next.event)]
                    ELSE [client EXCEPT ![c].todo = Tail(@)]
       /\ UNCHANGED <<deques, index, count, log>>

\* The end of a replay: the client goes on from the last event it has seen.
Done(c) ==
    /\ client[c].stage = "replaying"
    /\ client[c].todo = << >>
    /\ client' = [client EXCEPT ![c].stage = "away"]
    /\ UNCHANGED <<deques, index, count, log>>

\* The connection is lost again, and the callback with it.
Disconnect(c) ==
    /\ client[c].stage = "replaying"
    /\ client[c].todo # << >>
    /\ client' = [client EXCEPT ![c].stage = "away", ![c].todo = << >>]
    /\ UNCHANGED <<deques, index, count, log>>

StoreNext ==
    \/ \E s \in Streams : Store(s)
    \/ \E c \in Clients : Resume(c) \/ Send(c) \/ Done(c) \/ Disconnect(c)

StoreSpec == StoreInit /\ [][StoreNext]_storeVars

-----------------------------------------------------------------------------
\* The index names exactly the events that the deques hold, each with its
\* stream: nothing can be looked up that was evicted, and nothing leaks.
IndexMatches ==
    \A e \in Events, s \in Streams : index[e] = s <=> Position(deques[s], e) # {}

Increasing(events) == \A i, j \in DOMAIN events : i < j => events[i] < events[j]

Numbers(entries) == [i \in DOMAIN entries |-> entries[i].event]
Messages(entries) == {entries[i].event : i \in {j \in DOMAIN entries : entries[j].message}}

\* The messages stored behind e in its stream, evicted since or not, up to the
\* n-th entry of the log.
Followed(e, n) ==
    LET home == CHOOSE s \in Streams : Position(log[s], e) # {}
    IN {m \in Messages(SubSeq(log[home], 1, n)) : m > e}

\* However often it comes back and whatever is stored or evicted meanwhile,
\* what a client has and what its running replay will still send are the
\* messages of its own stream since the event it lost it at, in order, each
\* once and without a gap: eviction ends a resumption with a refusal, it
\* never makes it jump (event_store.py 37-62).
ReplayExact ==
    \A c \in Clients : client[c].stage = "replaying" =>
        /\ Increasing(client[c].got \o Numbers(client[c].todo))
        /\ Range(client[c].got) \cup Messages(client[c].todo) =
              Followed(client[c].first, client[c].known)
=============================================================================
