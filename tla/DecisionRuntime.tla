--------------------------- MODULE DecisionRuntime --------------------------
(***************************************************************************)
(* One Decision Runtime process: the event loop that serves POST /evaluate *)
(* and POST /human-gates/{id}/approve|reject, the engine's side-effect     *)
(* pipeline, the stores it writes, and the systems behind it (PostgreSQL   *)
(* ledger, Redis event bus, Kafka producer and topic).                     *)
(*                                                                         *)
(* Every handler is an async function without an await, so a handler runs  *)
(* to its end before the next request is read; what makes the pipeline     *)
(* hard is that it can stop between any two side effects, because a call   *)
(* raises or because the process dies, and that the client then retries.   *)
(*                                                                         *)
(* An evaluation is named by the number of its trace: trace_id is a fresh  *)
(* uuid4, so no two evaluations share one.  Requests that are answered     *)
(* without changing any state (a cached reply, 404, 409, 400, the GET      *)
(* endpoints, POST /simulate) are stuttering steps.                        *)
(***************************************************************************)
EXTENDS LedgerEvents, FiniteSets

CONSTANTS
  Key,            \* idempotency keys clients use
  NoKey,          \* the request carries no idempotency key
  None,           \* an absent entry of a store
  Callers,        \* keys requests arrive with: a subset of Key and NoKey
  Decisions,      \* decisions the flow can reach for some signal
  LedgerMode,     \* "off" | "parallel" | "strict"
  LedgerDurable,  \* ledger_backend = postgres
  BusDurable,     \* event_bus_backend = redis
  Kafka,          \* execution_publisher_backend = kafka
  AppendFaults,   \* how LedgerClient.append can fail: "raise", "invalid"
  MaxEval,        \* bound: evaluations
  MaxCrash,       \* bound: crashes of the process
  MaxFault        \* bound: failures of external calls

ASSUME KeyAssumption ==
  /\ NoKey \notin Key
  /\ Callers \subseteq Key \cup {NoKey}
  /\ Decisions \subseteq Decision

ASSUME ConfigAssumption ==
  /\ LedgerMode \in {"off", "parallel", "strict"}
  /\ LedgerDurable \in BOOLEAN
  /\ BusDurable \in BOOLEAN
  /\ Kafka \in BOOLEAN
  /\ AppendFaults \subseteq {"raise", "invalid"}
  /\ "raise" \in AppendFaults => LedgerDurable  \* a list append cannot fail

ASSUME BoundAssumption ==
  /\ MaxEval \in Nat
  /\ MaxCrash \in Nat
  /\ MaxFault \in Nat

Trace == 1..MaxEval

\* A DecisionResult as its reader tells them apart.
Result == [trace : Trace, status : Status]

\* A DecisionTrace in the TraceStore: the result it embeds and the status of
\* the gate request it embeds.
StoredTrace == [status : Status, gate : {"none", "pending"}]

ASSUME NoneAssumption == None \notin Result \cup StoredTrace

\* One evaluation of a signal: its key, its decision and the life of the
\* process it ran in.
Evaluation == [key : Key \cup {NoKey}, decision : Decision, life : Nat]

GateStatus == {"none", "pending", "approved", "rejected"}

Fate == {"none", "running", "answered", "refused", "raised", "crashed"}

VARIABLES
  pc,       \* where the event loop is
  cur,      \* trace the running handler works on, 0 when there is none
  todo,     \* ledger events the running handler has still to append
  seen,     \* append results the running commit has collected
  evals,    \* the evaluations in order (history)
  fate,     \* what became of each evaluation's request (history)
  idem,     \* IdempotencyStore
  gates,    \* HumanGateManager: status of the gate of each trace
  traces,   \* TraceStore
  ledger,   \* ledger events of each trace, in sequence order
  bus,      \* EXECUTION_REQUESTED events on the event bus, by trace
  buffer,   \* records in the Kafka producer's buffer
  topic,    \* records on the Kafka topic
  acked,    \* gate resolutions the reviewer got a 200 for (history)
  crashes,  \* crashes so far
  faults    \* failures of external calls so far

handlerVars == <<pc, cur, todo, seen>>
historyVars == <<evals, fate, acked>>
storeVars   == <<idem, gates, traces>>
handoffVars == <<bus, buffer, topic>>
faultVars   == <<crashes, faults>>
vars == <<handlerVars, historyVars, storeVars, ledger, handoffVars, faultVars>>

DecisionOf(t) == evals[t].decision
KeyOf(t)      == evals[t].key

Evaluating == {"commit", "publish", "send", "flush", "save", "record"}

Init ==
  /\ pc = "idle" /\ cur = 0 /\ todo = <<>> /\ seen = {}
  /\ evals = <<>>
  /\ fate = [t \in Trace |-> "none"]
  /\ acked = [t \in Trace |-> "none"]
  /\ idem = [k \in Key |-> None]
  /\ gates = [t \in Trace |-> "none"]
  /\ traces = [t \in Trace |-> None]
  /\ ledger = [t \in Trace |-> <<>>]
  /\ bus = <<>> /\ buffer = <<>> /\ topic = <<>>
  /\ crashes = 0 /\ faults = 0

-----------------------------------------------------------------------------
(* How a handler moves on and how it ends.                                 *)

GoTo(p) == pc' = p /\ UNCHANGED <<cur, todo, seen>>

BackToLoop == pc' = "idle" /\ cur' = 0 /\ todo' = <<>> /\ seen' = {}

Fail == faults < MaxFault /\ faults' = faults + 1 /\ UNCHANGED crashes

\* An exception leaves engine.evaluate: the route answers 400 or 500 and
\* nothing is cached.
Raise ==
  /\ fate' = [fate EXCEPT ![cur] = "raised"]
  /\ BackToLoop

\* Mutant: only confirmed results are worth caching.
CacheConfirmedOnly(k, r) ==
  idem' = IF k = NoKey \/ r.status # "confirmed" THEN idem
          ELSE [idem EXCEPT ![k] = r]

\* The route caches every result it returns, an ERROR result too.
Cache(k, r) ==
  idem' = IF k = NoKey THEN idem ELSE [idem EXCEPT ![k] = r]

Answer(f, r) ==
  /\ fate' = [fate EXCEPT ![cur] = f]
  /\ Cache(KeyOf(cur), r)
  /\ BackToLoop

\* Only a confirmed decision asks for execution; the others go on to be saved.
Dispatch(d) == IF StatusOf(d) = "confirmed" THEN "publish" ELSE "save"

-----------------------------------------------------------------------------
(* POST /evaluate.                                                         *)

\* Mutant: the idempotency store is written but never asked.
CacheMissIgnored(k) == k \in Key \cup {NoKey}

CacheMiss(k) == k # NoKey => idem[k] = None

\* Mutant: a blocked decision waits at a gate too.
OpenGateForBlocked(t, d) ==
  IF StatusOf(d) \in {"pending_human", "blocked"}
  THEN [gates EXCEPT ![t] = "pending"] ELSE gates

\* create_request: an escalated decision waits at a gate of its own.
OpenGate(t, d) ==
  IF StatusOf(d) = "pending_human" THEN [gates EXCEPT ![t] = "pending"]
  ELSE gates

\* Cache miss, flow found, signal built, _pure_evaluate reaches decision d, a
\* gate is created for an escalated decision, and in strict mode the trace is
\* turned into events before anything is dispatched.
Evaluate(k, d) ==
  LET t == Len(evals) + 1 IN
  /\ pc = "idle"
  /\ CacheMiss(k)
  /\ t \in Trace
  /\ evals' = Append(evals, [key |-> k, decision |-> d, life |-> crashes])
  /\ fate' = [fate EXCEPT ![t] = "running"]
  /\ gates' = OpenGate(t, d)
  /\ cur' = t
  /\ seen' = {}
  /\ IF LedgerMode = "strict"
     THEN pc' = "commit" /\ todo' = BuildEvents(d)
     ELSE pc' = Dispatch(d) /\ todo' = <<>>
  /\ UNCHANGED <<acked, idem, traces, ledger, handoffVars, faultVars>>

\* Mutant: an INVALID event does not fail the commit.
CommitStatusIgnoringInvalid ==
  IF "duplicate" \notin seen THEN "accepted" ELSE "duplicate"

\* What RuntimeLedgerAdapter.commit makes of the append results it collected.
CommitStatus ==
  IF "invalid" \in seen THEN "failed"
  ELSE IF "duplicate" \notin seen THEN "accepted"
  ELSE IF "accepted" \in seen THEN "partial"
  ELSE "duplicate"

\* _recover_prior_result: the idempotency store, then the trace store.
PriorResult ==
  LET k == KeyOf(cur) IN
  IF k # NoKey /\ idem[k] # None THEN idem[k]
  ELSE IF traces[cur] # None
  THEN [trace |-> cur, status |-> traces[cur].status]
  ELSE None

\* Mutant: the ERROR result keeps the status of the decision.
ErrorResultKeepsStatus ==
  [trace |-> cur, status |-> StatusOf(DecisionOf(cur))]

ErrorResult == [trace |-> cur, status |-> "error"]

\* Strict mode, every event accepted: the decision may be dispatched.
CommitAccepted ==
  /\ pc = "commit" /\ todo = <<>>
  /\ CommitStatus = "accepted"
  /\ GoTo(Dispatch(DecisionOf(cur)))
  /\ UNCHANGED <<historyVars, storeVars, ledger, handoffVars, faultVars>>

\* Strict mode, anything else: a duplicate is answered with the prior result
\* when there is one, all others with an ERROR result, which is cached.
CommitRefused ==
  /\ pc = "commit" /\ todo = <<>>
  /\ CommitStatus # "accepted"
  /\ Answer("refused", IF CommitStatus = "duplicate" /\ PriorResult # None
                       THEN PriorResult ELSE ErrorResult)
  /\ UNCHANGED <<evals, acked, gates, traces, ledger, handoffVars, faultVars>>

\* EventBus.publish returns: the event is on the bus.
BusPublish ==
  /\ pc = "publish"
  /\ bus' = Append(bus, cur)
  /\ GoTo(IF Kafka THEN "send" ELSE "save")
  /\ UNCHANGED <<historyVars, storeVars, ledger, buffer, topic, faultVars>>

\* Mutant: a failed XADD is tried again in place.
BusPublishRaisesRetried ==
  /\ pc = "publish" /\ BusDurable /\ Fail
  /\ bus' \in {bus, Append(bus, cur)}
  /\ UNCHANGED <<handlerVars, historyVars, storeVars, ledger, buffer, topic>>

\* XADD raises: the connection broke before or after Redis added the entry.
BusPublishRaises ==
  /\ pc = "publish" /\ BusDurable /\ Fail
  /\ bus' \in {bus, Append(bus, cur)}
  /\ Raise
  /\ UNCHANGED <<evals, acked, storeVars, ledger, buffer, topic>>

\* producer.send: the record is queued for the broker; its future is dropped.
KafkaSend ==
  /\ pc = "send"
  /\ buffer' = Append(buffer, cur)
  /\ GoTo("flush")
  /\ UNCHANGED <<historyVars, storeVars, ledger, bus, topic, faultVars>>

\* producer.send raises (no metadata, buffer full): nothing is queued.
KafkaSendRaises ==
  /\ pc = "send" /\ Fail
  /\ Raise
  /\ UNCHANGED <<evals, acked, storeVars, ledger, handoffVars>>

\* Mutant: flush waits until the record has reached the topic.
KafkaFlushDelivered ==
  /\ pc = "flush" /\ cur \in Range(topic)
  /\ GoTo("save")
  /\ UNCHANGED <<historyVars, storeVars, ledger, handoffVars, faultVars>>

\* producer.flush returns once no record is left in the buffer.
KafkaFlush ==
  /\ pc = "flush" /\ buffer = <<>>
  /\ GoTo("save")
  /\ UNCHANGED <<historyVars, storeVars, ledger, handoffVars, faultVars>>

\* Mutant: a flush that raises is taken for a lost record, which is sent again.
KafkaFlushRaisesResent ==
  /\ pc = "flush" /\ Fail
  /\ buffer' = Append(buffer, cur)
  /\ UNCHANGED <<handlerVars, historyVars, storeVars, ledger, bus, topic>>

\* producer.flush raises, whatever the sender thread has done by then.
KafkaFlushRaises ==
  /\ pc = "flush" /\ Fail
  /\ Raise
  /\ UNCHANGED <<evals, acked, storeVars, ledger, handoffVars>>

\* The end of engine.evaluate and of the route.  Strict mode stores the result
\* under the key before the trace is saved; the route stores the same result
\* again.  Parallel mode first commits the trace to the ledger.
Save ==
  LET r == [trace |-> cur, status |-> StatusOf(DecisionOf(cur))] IN
  /\ pc = "save"
  /\ traces' = [traces EXCEPT ![cur] =
                  [status |-> r.status,
                   gate |-> IF r.status = "pending_human" THEN "pending"
                            ELSE "none"]]
  /\ IF LedgerMode = "parallel"
     THEN /\ pc' = "record" /\ todo' = BuildEvents(DecisionOf(cur))
          /\ seen' = {} /\ UNCHANGED <<cur, fate, idem>>
     ELSE Answer("answered", r)
  /\ UNCHANGED <<evals, acked, gates, ledger, handoffVars, faultVars>>

\* Parallel mode, the commit loop is over: its status changes nothing.
Recorded ==
  /\ pc = "record" /\ todo = <<>>
  /\ Answer("answered",
            [trace |-> cur, status |-> StatusOf(DecisionOf(cur))])
  /\ UNCHANGED <<evals, acked, gates, traces, ledger, handoffVars, faultVars>>

-----------------------------------------------------------------------------
(* LedgerClient.append, called from the strict commit, the parallel commit *)
(* and the human gate handlers.                                            *)

Appending == pc \in {"commit", "record", "gate"} /\ todo # <<>>

LedgerHas(t, k) == \E e \in Range(ledger[t]) : EventId(t, e) = EventId(t, k)

\* The event is stored, unless one with its id already is.
AppendEvent ==
  LET e   == Head(todo)
      dup == LedgerHas(cur, e)
  IN
  /\ Appending
  /\ ledger' = IF dup THEN ledger ELSE [ledger EXCEPT ![cur] = Append(@, e)]
  /\ seen' = seen \cup {IF dup THEN "duplicate" ELSE "accepted"}
  /\ todo' = Tail(todo)
  /\ UNCHANGED <<pc, cur, historyVars, storeVars, handoffVars, faultVars>>

\* A client that refuses the event: the commit loop notes it and carries on.
AppendInvalid ==
  /\ Appending /\ "invalid" \in AppendFaults /\ Fail
  /\ seen' = seen \cup {"invalid"}
  /\ todo' = Tail(todo)
  /\ UNCHANGED <<pc, cur, historyVars, storeVars, ledger, handoffVars>>

\* Mutant: the strict commit swallows the exception and dispatches.
CommitRaisesSwallowed ==
  pc = "commit" /\ GoTo(Dispatch(DecisionOf(cur))) /\ UNCHANGED <<fate, idem, acked>>

\* Nothing catches an exception of the strict commit before the route.
CommitRaises == pc = "commit" /\ Raise /\ UNCHANGED <<idem, acked>>

\* Mutant: the parallel commit skips the event and goes on with the next.
RecordRaisesSkipsEvent ==
  /\ pc = "record"
  /\ todo' = Tail(todo)
  /\ UNCHANGED <<pc, cur, seen, fate, idem, acked>>

\* The engine swallows an exception of the parallel commit: the events not
\* yet appended are lost and the result is returned.
RecordRaises ==
  /\ pc = "record"
  /\ Answer("answered", [trace |-> cur, status |-> StatusOf(DecisionOf(cur))])
  /\ UNCHANGED acked

\* Mutant: the gate handlers swallow the exception in strict mode too.
GateRaisesSwallowed ==
  /\ pc = "gate"
  /\ acked' = [acked EXCEPT ![cur] = gates[cur]]
  /\ BackToLoop
  /\ UNCHANGED <<fate, idem>>

\* The gate handlers answer 500 in strict mode, the resolution otherwise.
GateRaises ==
  /\ pc = "gate"
  /\ acked' = IF LedgerMode = "strict" THEN acked
              ELSE [acked EXCEPT ![cur] = gates[cur]]
  /\ BackToLoop
  /\ UNCHANGED <<fate, idem>>

\* The client raises, before the transaction commits or after it has (the
\* acknowledgement is lost).
AppendRaises ==
  LET e == Head(todo) IN
  /\ Appending /\ "raise" \in AppendFaults /\ Fail
  /\ \/ ledger' = ledger
     \/ ~LedgerHas(cur, e) /\ ledger' = [ledger EXCEPT ![cur] = Append(@, e)]
  /\ CommitRaises \/ RecordRaises \/ GateRaises
  /\ UNCHANGED <<evals, gates, traces, handoffVars>>

-----------------------------------------------------------------------------
(* POST /human-gates/{id}/approve and /reject.                             *)

\* Mutant: the state of the gate is not checked.
IsPendingIgnored(t) == gates[t] # "none"

\* _require_pending
IsPending(t) == gates[t] = "pending"

\* HumanGateManager resolves a pending gate; then the handler appends the
\* resolution to the ledger, if there is one.
ResolveGate(t, resolution, event) ==
  /\ pc = "idle"
  /\ IsPending(t)
  /\ gates' = [gates EXCEPT ![t] = resolution]
  /\ IF LedgerMode = "off"
     THEN acked' = [acked EXCEPT ![t] = resolution] /\ UNCHANGED handlerVars
     ELSE /\ pc' = "gate" /\ cur' = t /\ todo' = <<event>> /\ seen' = {}
          /\ UNCHANGED acked
  /\ UNCHANGED <<evals, fate, idem, traces, ledger, handoffVars, faultVars>>

Approve(t) == ResolveGate(t, "approved", "approve")
Reject(t)  == ResolveGate(t, "rejected", "reject")

\* The append returned: an INVALID result is a 500 in strict mode, anything
\* else (DUPLICATE too) lets the resolution be returned.
GateDone ==
  /\ pc = "gate" /\ todo = <<>>
  /\ acked' = IF LedgerMode = "strict" /\ "invalid" \in seen THEN acked
              ELSE [acked EXCEPT ![cur] = gates[cur]]
  /\ BackToLoop
  /\ UNCHANGED <<evals, fate, storeVars, ledger, handoffVars, faultVars>>

-----------------------------------------------------------------------------
(* The Kafka producer's sender thread and the broker.                      *)

BrokerAck ==
  /\ buffer # <<>>
  /\ topic' = Append(topic, Head(buffer))
  /\ buffer' = Tail(buffer)
  /\ UNCHANGED <<handlerVars, historyVars, storeVars, ledger, bus, faultVars>>

\* The batch expires or the broker refuses it: only its future learns of it.
BrokerDrop ==
  /\ buffer # <<>> /\ Fail
  /\ buffer' = Tail(buffer)
  /\ UNCHANGED <<handlerVars, historyVars, storeVars, ledger, bus, topic>>

-----------------------------------------------------------------------------
(* The process.                                                            *)

\* Mutant: a commit cut short by a crash is rolled back as one transaction.
SurvivingLedgerRollback ==
  IF pc \in {"commit", "record"} THEN [ledger EXCEPT ![cur] = <<>>] ELSE ledger

\* Each event was committed on its own connection, so nothing is rolled back.
SurvivingLedger == IF LedgerDurable THEN ledger ELSE [t \in Trace |-> <<>>]

\* Everything held in memory is lost: the stores, the producer's buffer and
\* the ledger and the bus when they are in-memory ones.
Crash ==
  /\ pc # "down" /\ crashes < MaxCrash
  /\ crashes' = crashes + 1
  /\ pc' = "down" /\ cur' = 0 /\ todo' = <<>> /\ seen' = {}
  /\ fate' = IF pc \in Evaluating THEN [fate EXCEPT ![cur] = "crashed"]
             ELSE fate
  /\ idem' = [k \in Key |-> None]
  /\ gates' = [t \in Trace |-> "none"]
  /\ traces' = [t \in Trace |-> None]
  /\ ledger' = SurvivingLedger
  /\ bus' = IF BusDurable THEN bus ELSE <<>>
  /\ buffer' = <<>>
  /\ UNCHANGED <<evals, acked, topic, faults>>

\* lifespan: empty stores, the backends the settings name.
Restart ==
  /\ pc = "down"
  /\ GoTo("idle")
  /\ UNCHANGED <<historyVars, storeVars, ledger, handoffVars, faultVars>>

-----------------------------------------------------------------------------

Request == \E k \in Callers, d \in Decisions : Evaluate(k, d)

Review == \E t \in Trace : Approve(t) \/ Reject(t)

\* The handler that is running takes its next step.
HandlerStep ==
  \/ AppendEvent \/ CommitAccepted \/ CommitRefused
  \/ BusPublish \/ KafkaSend \/ KafkaFlush
  \/ Save \/ Recorded \/ GateDone

\* A call the handler makes raises or is refused.
HandlerFault ==
  \/ AppendInvalid \/ AppendRaises \/ BusPublishRaises
  \/ KafkaSendRaises \/ KafkaFlushRaises

Next ==
  \/ Request \/ Review
  \/ HandlerStep \/ HandlerFault
  \/ BrokerAck \/ BrokerDrop
  \/ Crash \/ Restart

Spec == Init /\ [][Next]_vars

\* The event loop keeps running the handler it has started, the producer's
\* thread keeps draining its buffer, the supervisor restarts the process, and
\* a client that got no answer sends its request again.
Fairness ==
  /\ WF_vars(HandlerStep)
  /\ WF_vars(BrokerAck)
  /\ WF_vars(Restart)
  /\ \A k \in Callers \ {NoKey} :
       WF_vars(\E d \in Decisions : Evaluate(k, d))

FairSpec == Spec /\ Fairness

-----------------------------------------------------------------------------
(* Type correctness.                                                       *)

\* The type invariant: every store holds what its class can hold.
TypeOK ==
  /\ pc \in {"idle", "gate", "down"} \cup Evaluating
  /\ cur \in 0..MaxEval
  /\ todo \in Seq(Kind)
  /\ seen \subseteq {"accepted", "duplicate", "invalid"}
  /\ evals \in Seq(Evaluation)
  /\ Len(evals) <= MaxEval
  /\ fate \in [Trace -> Fate]
  /\ idem \in [Key -> Result \cup {None}]
  /\ gates \in [Trace -> GateStatus]
  /\ traces \in [Trace -> StoredTrace \cup {None}]
  /\ ledger \in [Trace -> Seq(Kind)]
  /\ bus \in Seq(Trace) /\ buffer \in Seq(Trace) /\ topic \in Seq(Trace)
  /\ acked \in [Trace -> {"none", "approved", "rejected"}]
  /\ crashes \in Nat /\ faults \in Nat

-----------------------------------------------------------------------------
(* Safety.                                                                 *)

Evaluated == 1..Len(evals)

\* Every event of the evaluation is in the ledger.
Committed(t) ==
  Range(BuildEvents(DecisionOf(t))) \subseteq Range(ledger[t])

\* Evaluations some reader may execute.
HandedOff == Range(bus) \cup Range(buffer) \cup Range(topic)

\* Execution is requested for confirmed decisions only (never for one that
\* waits for, or got, a human answer) and, in strict mode with a ledger that
\* survives, only for decisions whose every event the ledger holds: at any
\* crash point, whichever call raised (engine.evaluate, the commit gate).
CommitBeforeExecute ==
  \A t \in HandedOff :
    /\ StatusOf(DecisionOf(t)) = "confirmed"
    /\ LedgerMode = "strict" /\ LedgerDurable => Committed(t)

Increasing(s) == \A i, j \in DOMAIN s : i < j => s[i] < s[j]

\* Each evaluation is handed off at most once per channel and in evaluation
\* order, across failed flushes and restarts, and the orchestrator is never
\* asked to run something the event bus has no record of.
SingleOrderedHandoff ==
  /\ Increasing(bus)
  /\ Increasing(topic \o buffer)
  /\ BusDurable => Range(topic \o buffer) \subseteq Range(bus)

\* Execution is requested twice under one idempotency key only when the
\* client of the first request was never answered by this process: the
\* handler raised, or the process has restarted since (evaluate, the cache).
RepeatOnlyAfterLoss ==
  \A t, u \in HandedOff :
    t < u /\ KeyOf(t) = KeyOf(u) /\ KeyOf(t) # NoKey =>
      \/ fate[t] = "raised"
      \/ evals[t].life < evals[u].life

\* A result in the idempotency store is the end of a finished pipeline: the
\* trace is in the trace store with the same status, a confirmed one is on
\* the bus, an escalated one has a gate, and in strict mode the ledger has it
\* all; an ERROR result left nothing on any channel.
CachedMeansFinished ==
  \A k \in Key : idem[k] # None =>
    LET t == idem[k].trace
        s == idem[k].status
    IN  /\ KeyOf(t) = k
        /\ evals[t].life = crashes
        /\ IF s = "error"
           THEN t \notin HandedOff /\ traces[t] = None
           ELSE /\ traces[t] # None /\ traces[t].status = s
                /\ s = "confirmed" => t \in Range(bus)
                /\ s = "pending_human" => gates[t] # "none"
                /\ LedgerMode = "strict" => Committed(t)

\* A request that ended in an ERROR result or an exception after its gate was
\* opened leaves that gate behind and nothing else: no trace, no result but
\* the ERROR under its key, nothing handed off, also when a reviewer resolves
\* the gate later (engine.evaluate creates the gate before the strict commit).
FailedRequestLeavesGateOnly ==
  \A t \in Evaluated : fate[t] \in {"refused", "raised"} =>
    /\ traces[t] = None
    /\ \A k \in Key :
         idem[k] # None /\ idem[k].trace = t => idem[k].status = "error"
    /\ gates[t] # "none" => t \notin HandedOff /\ evals[t].life = crashes

\* A stored trace shows a pending gate for exactly the decisions that have one,
\* whatever its reviewer has answered since, and the status it was saved with:
\* the resolution is found at the gate and in the ledger only, and no trace
\* ever counts as rejected or as an error in GET /stats.
GateAndTraceAgree ==
  \A t \in Trace : traces[t] # None =>
    /\ traces[t].status = StatusOf(DecisionOf(t))
    /\ traces[t].gate = "pending" <=> gates[t] # "none"
    /\ evals[t].life = crashes

\* One gate, one answer: the ledger never holds both an approval and a
\* rejection of a decision, and what a reviewer was told agrees with it, even
\* when the append raised after the transaction committed.
NoConflictingResolution ==
  \A t \in Trace :
    LET e == Range(ledger[t]) IN
    /\ ~({"approve", "reject"} \subseteq e)
    /\ acked[t] = "approved" => "reject" \notin e
    /\ acked[t] = "rejected" => "approve" \notin e

\* In strict mode a resolution the reviewer got a 200 for is in the ledger.
AckedResolutionRecorded ==
  LedgerMode = "strict" /\ LedgerDurable =>
    \A t \in Trace :
      /\ acked[t] = "approved" => "approve" \in Range(ledger[t])
      /\ acked[t] = "rejected" => "reject" \in Range(ledger[t])

\* The ledger of a trace never has a hole: what is there is a prefix of what
\* the evaluation writes, then at most one resolution (every append either
\* stores the next event or ends the handler), unless a client refuses events
\* one by one.
LedgerIsPrefix ==
  "invalid" \notin AppendFaults =>
    \A t \in Evaluated :
      LET all == BuildEvents(DecisionOf(t))
          n   == Len(ledger[t])
          at(i) == ledger[t][i]
          m   == IF n > 0 /\ at(n) \in {"approve", "reject"} THEN n - 1 ELSE n
      IN  m <= Len(all) /\ \A i \in 1..m : at(i) = all[i]

\* What the projector rebuilds from a ledger that has the outcome event is
\* the decision that was made, whatever came after it.
ProjectionAgrees ==
  \A t \in Evaluated :
    "outcome" \in Range(ledger[t]) =>
      Project(ledger[t], DecisionOf(t)) =
        [state |-> "completed", status |-> StatusOf(DecisionOf(t))]

\* A strict answer survives the process: once the client has a result other
\* than ERROR, the trace endpoint serves that decision after any restart.
StrictAnswerIsDurable ==
  LedgerMode = "strict" /\ LedgerDurable =>
    \A t \in Evaluated :
      fate[t] = "answered" =>
        Project(ledger[t], DecisionOf(t)) =
          [state |-> "completed", status |-> StatusOf(DecisionOf(t))]

-----------------------------------------------------------------------------
(* Action properties.                                                      *)

\* Within one life of the process the result cached under a key is never
\* replaced, so every repeated request gets the same reply.
CacheIsWriteOnce ==
  [][\A k \in Key : idem[k] # None /\ pc' # "down" => idem'[k] = idem[k]]_vars

\* A durable ledger is append-only, event by event, and a trace is closed when
\* its request ends: after that only the resolution of its gate is added
\* (commit, append_human_gate_event, and no rollback at a crash).
LedgerAppendOnly ==
  [][LedgerDurable =>
       \A t \in Trace : ledger'[t] # ledger[t] =>
         \E k \in Kind :
           /\ ledger'[t] = Append(ledger[t], k)
           /\ k \in {"approve", "reject"} <=> fate[t] # "running"]_vars

-----------------------------------------------------------------------------
(* Liveness.                                                               *)

\* Failures being finite, a client that keeps retrying its key ends up with a
\* cached result for good.
EventuallyServed == \A k \in Callers \ {NoKey} : <>[](idem[k] # None)

\* No handler hangs: the loop comes back for the next request forever.
LoopReturns == []<>(pc = "idle")

-----------------------------------------------------------------------------
(* The inductive invariant behind CommitBeforeExecute and the refinement.  *)

\* The running handler works on a trace it may work on: the newest one while
\* a signal is evaluated, one whose gate was just resolved in a gate handler.
HandlerOwnsTrace ==
  /\ pc \in Evaluating => cur = Len(evals) /\ cur \in Trace
  /\ pc = "gate" => cur \in Trace /\ gates[cur] \in {"approved", "rejected"}

\* No event of the strict commit is lost: it is in the ledger, still to be
\* appended, or a refusal was noted.  Nothing is written ahead for a trace.
CommitLosesNothing ==
  /\ pc = "commit" /\ "invalid" \notin seen =>
       Range(BuildEvents(DecisionOf(cur))) \subseteq
         Range(ledger[cur]) \cup Range(todo)
  /\ \A t \in Trace \ Evaluated : ledger[t] = <<>> /\ gates[t] = "none"

\* Whoever is about to hand off holds a confirmed decision the ledger has
\* accepted, newer than everything handed off before it.
HandoffIsDue ==
  /\ pc \in {"publish", "send", "flush"} =>
       /\ StatusOf(DecisionOf(cur)) = "confirmed"
       /\ LedgerMode = "strict" => Committed(cur)
  /\ HandedOff \subseteq Evaluated
  /\ pc \in {"commit", "publish"} => \A t \in Range(bus) : t < cur

IInv ==
  TypeOK /\ HandlerOwnsTrace /\ CommitLosesNothing /\ HandoffIsDue
    /\ CommitBeforeExecute

-----------------------------------------------------------------------------
(* Refinement.                                                             *)

\* In strict mode the pipeline implements the commit gate of the engine's
\* docstring: accepted is what the ledger fully holds, requested the event bus.
Gate == INSTANCE CommitGate WITH
          accepted  <- {t \in Evaluated : Committed(t)},
          requested <- bus

\* The pipeline with a strict durable ledger and a durable bus is a CommitGate.
ImplementsCommitGate == Gate!Spec

=============================================================================
