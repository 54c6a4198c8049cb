------------------------------ MODULE EventFeed -----------------------------
(***************************************************************************)
(* Reading the event bus: GET /api/runtime/events page by page, with the   *)
(* cursor the endpoint describes, while events are published and the       *)
(* process restarts.  The in-memory EventBus finds the cursor by searching *)
(* its list and starts over when it does not hold it; the Redis one asks   *)
(* the stream for the entries after it.                                    *)
(*                                                                         *)
(* Events are numbered in publication order; the number stands for the     *)
(* event's id and for its Redis entry id, which grow together.             *)
(***************************************************************************)
EXTENDS Naturals, Sequences, FiniteSets, Functions

CONSTANTS
  MaxLimit,     \* _MAX_LIMIT
  Limits,       \* limits readers ask for
  MaxEvent,     \* bound: events
  MaxRestart    \* bound: restarts of the process

NoCursor == 0

VARIABLES
  durable,    \* event_bus_backend = redis
  bus,        \* the events the bus holds, oldest first
  published,  \* events published so far
  restarts,   \* restarts so far
  cursor,     \* id of the last event the reader was given
  received    \* every event the reader was given, in order (history)

Init ==
  /\ durable \in BOOLEAN
  /\ bus = <<>> /\ published = 0 /\ restarts = 0
  /\ cursor = NoCursor /\ received = <<>>

-----------------------------------------------------------------------------

\* Mutant: a cursor the bus does not hold gives an empty page.
StartUnknownEnds(id) ==
  IF id = NoCursor THEN 1
  ELSE IF durable
  THEN 1 + Cardinality({i \in DOMAIN bus : bus[i] <= id})
  ELSE IF id \in Range(bus) THEN 1 + (CHOOSE i \in DOMAIN bus : bus[i] = id)
  ELSE 1 + Len(bus)

\* Position of the first event of the page: in memory the one after the
\* cursor's event, or the first when the bus does not hold it; in Redis the
\* first entry beyond the cursor.
Start(id) ==
  IF id = NoCursor THEN 1
  ELSE IF durable
  THEN 1 + Cardinality({i \in DOMAIN bus : bus[i] <= id})
  ELSE IF id \in Range(bus) THEN 1 + (CHOOSE i \in DOMAIN bus : bus[i] = id)
  ELSE 1

\* Mutant: the newest events of the page, not the oldest.
CapNewest(s, limit) ==
  LET n == IF limit < MaxLimit THEN limit ELSE MaxLimit IN
  SubSeq(s, IF Len(s) > n THEN Len(s) - n + 1 ELSE 1, Len(s))

\* The endpoint always passes a limit: the first min(limit, _MAX_LIMIT).
Cap(s, limit) ==
  LET n == IF limit < MaxLimit THEN limit ELSE MaxLimit IN
  SubSeq(s, 1, IF n < Len(s) THEN n ELSE Len(s))

GetEvents(id, limit) == Cap(SubSeq(bus, Start(id), Len(bus)), limit)

Publish ==
  /\ published < MaxEvent
  /\ published' = published + 1
  /\ bus' = Append(bus, published')
  /\ UNCHANGED <<durable, restarts, cursor, received>>

\* The reader asks for the page after the last event it was given.
Poll(limit) ==
  /\ LET page == GetEvents(cursor, limit) IN
       /\ received' = received \o page
       /\ cursor' = IF page = <<>> THEN cursor ELSE page[Len(page)]
  /\ UNCHANGED <<durable, bus, published, restarts>>

\* The in-memory bus starts empty; the stream is still there.
Restart ==
  /\ restarts < MaxRestart
  /\ restarts' = restarts + 1
  /\ bus' = IF durable THEN bus ELSE <<>>
  /\ UNCHANGED <<durable, published, cursor, received>>

(* Properties.                                                             *)

\* A reader that follows its cursor is given no event twice, none out of order,
\* and passes over none the bus still holds: across page cuts and any restarts,
\* the in-memory bus's fallback to the start for a cursor it does not know
\* included.
FeedIsExact ==
  /\ \A i, j \in DOMAIN received : i < j => received[i] < received[j]
  /\ \A e \in Range(bus) : e <= cursor => e \in Range(received)

\* An event the bus holds reaches a reader that keeps polling, unless a restart
\* of the in-memory bus loses it first: no cursor gets stuck.
EverythingReceived ==
  \A e \in 1..MaxEvent :
    [](e \in Range(bus) => <>(e \in Range(received) \/ e \notin Range(bus)))

=============================================================================
