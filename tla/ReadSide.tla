------------------------------ MODULE ReadSide ------------------------------
(***************************************************************************)
(* One process as its readers see it: the flow catalogue it loads when it  *)
(* starts, the event bus and the trace store its evaluations fill, and the *)
(* endpoints that list them.  A restart loads the directory again, empties *)
(* the trace store and, unless it is in Redis, the bus.                    *)
(*                                                                         *)
(* An evaluation is one step here: its handler does not await.  What it    *)
(* does in detail is DecisionRuntime's subject.                            *)
(***************************************************************************)
EXTENDS Naturals, Sequences, Functions, FiniteSets

CONSTANTS
  Paths, Contents, Absent,    \* the flow directory: see FlowCatalog
  MaxLimit, Limits,           \* the event feed: see EventFeed
  MaxEvent, MaxRestart,
  MaxRecent,                  \* the trace listing: see TraceQueries
  Scenes      \* bounds: who reads, the directories to start from, the times
              \* the clock shows, and how many edits and evaluations happen

ASSUME ReadSideAssumption ==
  /\ Paths \in Seq(Range(Paths))
  /\ MaxLimit \in Nat \ {0} /\ MaxRecent \in Nat \ {0}
  /\ Limits \subseteq 1..MaxLimit + 1
  /\ MaxEvent \in Nat /\ MaxRestart \in Nat
  /\ \A c \in Contents :
       /\ c.valid \in BOOLEAN
       /\ c.version.parts \in Nat \X Nat \X Nat     \* the model's pattern
  /\ \A s \in Scenes :
       /\ s.client \in {"nobody", "events", "traces"}
       /\ s.directories \subseteq [Range(Paths) -> Contents \cup {Absent}]
       /\ s.times \subseteq Nat /\ s.edits \in Nat /\ s.evals \in Nat

VARIABLES
  scene,                                              \* the bounds in force
  files, pc, todo, flows, read,                       \* FlowCatalog
  durable, bus, published, restarts, cursor, received,    \* EventFeed
  traces, limit, given, ended, known, arrived,        \* TraceQueries
  edits, evals,   \* edits and evaluations so far (bounds)
  born,           \* events published before this process (history)
  raised          \* events whose hand-off raised after publishing (history)

catalogue == <<files, pc, todo, flows, read>>
feed      == <<durable, bus, published, restarts, cursor, received>>
store     == <<traces, limit, given, ended, known, arrived>>
history   == <<born, raised>>
vars == <<scene, catalogue, feed, store, edits, evals, history>>

Catalog == INSTANCE FlowCatalog
Feed    == INSTANCE EventFeed
Store   == INSTANCE TraceQueries

Init ==
  /\ scene \in Scenes
  /\ Catalog!Init /\ files \in scene.directories
  /\ Feed!Init /\ Store!Init
  /\ edits = 0 /\ evals = 0 /\ born = 0 /\ raised = {}

Serving == pc = "serving"

-----------------------------------------------------------------------------
(* The process and its directory.                                          *)

Edit(path, content) ==
  /\ edits < scene.edits /\ edits' = edits + 1
  /\ Catalog!Edit(path, content)
  /\ UNCHANGED <<scene, feed, store, evals, history>>

StartUp ==
  /\ Catalog!Start \/ Catalog!LoadFile \/ Catalog!LoadFails \/ Catalog!Ready
  /\ UNCHANGED <<scene, feed, store, edits, evals, history>>

\* The process ends, by a deployment or by a crash.
Restart ==
  /\ Catalog!Stop /\ Feed!Restart /\ Store!Lose
  /\ born' = published /\ raised' = {}
  /\ UNCHANGED <<scene, edits, evals>>

-----------------------------------------------------------------------------
(* Evaluations.                                                            *)

NoEvent == 0

\* Mutant: the trace is stored before the event is handed off.
StoresAlways(outcome) == TRUE

\* The trace is stored after the hand-off: not when that raises.
Stores(outcome) == outcome # "raised"

\* The event of a confirmed decision is on the bus, whether or not the
\* execution publisher then raises.
Publishes(outcome) == outcome \in {"confirmed", "raised"}

\* POST /evaluate for flow f at version v, when the catalogue has it.
Evaluate(f, v, at, outcome) ==
  /\ Serving /\ evals < scene.evals /\ evals' = evals + 1
  /\ IF Publishes(outcome) THEN Feed!Publish ELSE UNCHANGED feed
  /\ \E c \in Catalog!Get(f, v) :
       IF Stores(outcome)
       THEN Store!Save([id |-> evals', at |-> at, flow |-> c,
                        status |-> outcome,
                        event |-> IF Publishes(outcome) THEN published'
                                  ELSE NoEvent])
       ELSE UNCHANGED store
  /\ raised' = IF outcome = "raised" THEN raised \cup {published'} ELSE raised
  /\ UNCHANGED <<scene, catalogue, edits, born>>

-----------------------------------------------------------------------------
(* Reading.                                                                *)

Poll ==
  /\ Serving /\ scene.client = "events"
  /\ \E n \in Limits : Feed!Poll(n)
  /\ UNCHANGED <<scene, catalogue, store, edits, evals, history>>

Browse ==
  /\ Serving /\ scene.client = "traces"
  /\ Store!NextPage \/ \E n \in Limits : Store!FirstPage(n)
  /\ UNCHANGED <<scene, catalogue, feed, edits, evals, history>>

\* Mutant: the flow is found by name, at its latest version.
FlowForByName(t) == Catalog!Get(t.flow.flow, "none")

\* simulate_decision: the loaded flow with the id the trace records.
FlowFor(t) == {c \in Range(flows) : Catalog!KeyOf(c) = Catalog!KeyOf(t.flow)}

-----------------------------------------------------------------------------

Asked == {c.flow : c \in Contents} \X
           ({"none"} \cup {c.version.text : c \in Contents})

Next ==
  \/ \E p \in Range(Paths), c \in Contents \cup {Absent} : Edit(p, c)
  \/ StartUp \/ Restart
  \/ \E q \in Asked, at \in scene.times,
        outcome \in {"confirmed", "raised", "other"} :
       Evaluate(q[1], q[2], at, outcome)
  \/ Poll \/ Browse

Spec == Init /\ [][Next]_vars

\* The event reader keeps polling a process that is up.
FairSpec == Spec /\ WF_vars(Poll)

-----------------------------------------------------------------------------
(* Properties.                                                             *)

\* FlowCatalog's promise: the whole directory or no service.
WholeDirectoryOrNothing == Catalog!WholeDirectoryOrNothing

\* FlowCatalog's promise: no version means the highest one.
LatestIsHighest == Catalog!LatestIsHighest

\* EventFeed's promise: no event twice, none out of order, none passed over.
FeedIsExact == Feed!FeedIsExact

\* TraceQueries's promise: paging to the end misses nothing, and repetitions
\* come from arrivals only.
PagingIsExact == Store!PagingIsExact

\* A stored trace can be replayed against exactly the flow it was evaluated
\* with, whatever has been deployed since and whichever version a request would
\* get today: what simulate finds by id is that flow, body and all.
SimulationReplaysItsFlow ==
  \A t \in Range(traces) : FlowFor(t) = {t.flow}

\* The event list and the trace list of a process tell one story: its events
\* are those of the confirmed traces, in their order, and those whose hand-off
\* raised; so /stats counts as confirmed what the consumer was asked to do,
\* except the latter, as long as the store is within its listing.
EventsMatchTraces ==
  LET tales  == {i \in DOMAIN traces : traces[i].event # NoEvent}
      events == {k \in DOMAIN bus : bus[k] > born /\ bus[k] \notin raised}
  IN  Serving =>
        /\ \E at \in [tales -> events] :
             /\ Range(at) = events
             /\ \A i \in tales : bus[at[i]] = traces[i].event
             /\ \A i, j \in tales : i < j => at[i] < at[j]
        /\ raised \subseteq Range(bus)
        /\ Len(traces) <= MaxRecent =>
             Store!Count(MaxRecent, "confirmed") = Cardinality(events)

\* When the process stays up, an event the bus holds reaches the reader that
\* keeps polling: no cursor gets stuck, one from a former process included.
EverythingReceived ==
  scene.client = "events" /\ <>[]Serving => Feed!EverythingReceived

=============================================================================
