# Verification of the decision runtime core

TLA+ models of the decision runtime (`src/backend/app`), the TLC configurations
that check them on small instances, and theorems about them that TLAPS checks
for every value of the constants.

```
tlc -config strict.cfg MCDecisionRuntime.tla      # a run; PROJECT.json lists them all
tlapm LedgerProofs.tla                            # a module of proofs
```

## The system

One FastAPI process takes signals (`POST /evaluate`), evaluates a flow loaded
from YAML, and asks an orchestrator to execute confirmed decisions. Everything
it keeps is either in memory or, if so configured, in PostgreSQL, Redis and
Kafka. Every route is an `async def` without an `await`, so a handler occupies
the event loop from its first line to its last: handlers do not interleave. The
documentation allows one process only (`docs/runtime-policy.md:213`). What is
hard is that a handler is a row of side effects that can stop anywhere, because a
call raises or the process dies, with a client that then retries, and that some
things move on their own: the Kafka producer's thread, the broker, PostgreSQL
transactions whose client has gone, the flow directory, readers that page while
events and traces arrive, and restarts.

### Inventory

| Component | State | Operations | Correct when |
|---|---|---|---|
| Evaluation pipeline (`runtime/engine.py`, `POST /evaluate`) | none of its own | cache lookup, decide, gate, commit, publish, hand off, save, record, cache | execution is requested for confirmed and, in strict mode, committed decisions only; a key is not executed twice without cause |
| Decision logic (`engine._pure_evaluate`, `boundary_engine.py`) | none | match, resolve, fall back, apply boundaries | the result is the documented function of all nodes; errors surface |
| Condition evaluator | none | normalise, parse, check and evaluate a restricted expression | what is forbidden is refused before anything runs; the rest never raises and means what is documented |
| Ledger adapter | none | build events, commit, record | events of a trace in order, ids never collide |
| Ledger clients (memory, PostgreSQL) | events, per-trace sequence and hash chain | append, read | append-only, one event per id, a chain without a hole |
| Ledger projector | none | rebuild a trace | agrees with the decision made |
| Human gate manager | gate requests | create, approve, reject | one resolution per gate, and the ledger agrees |
| Idempotency store | key → result | get, set | write-once; holds finished results only |
| Trace store, trace builder | traces by id, newest last | save, get, list | has every finished evaluation of this life |
| Event bus (memory, Redis) | events in publication order | publish, paged reads | a reader that follows its cursor gets each event once |
| Execution publisher (null, Kafka) | producer buffer | send and flush | at most once per evaluation, in order |
| Flow validator | none | shape checks, reachability, cycles, contracts | accepts exactly the flows that keep the rules |
| Flow registry, contract registry | flows by id and version | load, get, list | the whole directory or no service; the latest version is the highest |
| Lifecycle (`main.py`, `config.py`) | wires the above | start, stop | in-memory state starts empty |
| Read endpoints (traces, events, stats, explain, compare, simulate) | none | page, count, rebuild, replay | listings miss and invent nothing; what they show agrees with the decision |
| Metrics, logging, auth, headers | counters | read and format | change nothing |

Interactions are direct calls. The order in the pipeline is: key lookup →
decision → gate creation → (strict) ledger commit → event bus → Kafka send →
Kafka flush → (strict) key stored → trace saved → (parallel) ledger commit → key
stored by the route. A gate's resolution is: gate manager → ledger.
The hazards this makes for are listed in PROJECT.json, each at its line.

## The modules

```
 CommitGate <-- DecisionRuntime --> LedgerEvents     LedgerLog <-- LedgerChain
                     ^                                    (the ledger it appends to)
                DocumentedClaims
 FlowEvaluation <-- TraceViews       FlowCatalog, EventFeed, TraceQueries <-- ReadSide
 FlowValidation    ConditionLanguage
```

An arrow `<--` to `CommitGate` or `LedgerLog` is a refinement; the others are
EXTENDS or INSTANCE. Every `MC...` module names the sets a configuration uses.

### The pipeline

**`LedgerEvents`** holds the pure part: a decision (did a decision node match,
which boundary effect was dominant), the status it leads to (`StatusOf`), the
ledger events it is written as (`BuildEvents`), their ids and step types, and
what the projector makes of them (`Project`).

**`DecisionRuntime`** is the process. `pc` says where the event loop is: `idle`,
in one of the pipeline's phases, in a gate handler, or `down`. One action per
side effect:

| Code | Action |
|---|---|
| cache lookup, `_pure_evaluate`, gate creation | `Evaluate` |
| `LedgerClient.append` in a commit or a gate handler | `AppendEvent`, `AppendRaises` (before or after the transaction commits), `AppendInvalid` |
| what `commit` makes of the results | `CommitAccepted`, `CommitRefused` |
| `EventBus.publish` | `BusPublish`, `BusPublishRaises` |
| `producer.send`, `producer.flush` | `KafkaSend`, `KafkaFlush` and their `...Raises` |
| trace saved, result cached, answer | `Save`, `Recorded` |
| approve, reject | `Approve`, `Reject`, then the append, then `GateDone` |
| producer thread and broker | `BrokerAck`, `BrokerDrop` |
| process | `Crash`, `Restart` |

An exception in the strict commit becomes a 500 (`CommitRaises`), in the parallel
commit it is swallowed and the remaining events are lost (`RecordRaises`), in a
gate handler it depends on the mode (`GateRaises`). Requests that change nothing
(cached replies, 404, 409, 400, reads, `/simulate`) are stuttering steps. A trace
is named by the number of its evaluation: `trace_id` is a fresh `uuid4`. Which
backends survive a crash, the ledger mode and the presence of Kafka are constants
of the configuration. `evals`, `fate` and `acked` are history variables: they
record what clients were told and no action's guard reads them except to find the
key and the decision of the running evaluation.

**`CommitGate`** is the abstract specification: decisions are accepted for good,
and each accepted decision is requested at most once, in order. `DecisionRuntime`
implements it with `accepted` = the evaluations whose every event the ledger
holds, and `requested` = the event bus.

**`DocumentedClaims`** states sentences of the documentation that the code does
not keep (below).

### The ledger

**`LedgerChain`** is `PostgresLedgerClient.append` statement by statement: the
duplicate check, the next number, the previous hash, the INSERT, the COMMIT, each
an action, in a READ COMMITTED transaction. The process appends one event at a
time, but a connection that breaks or a process that dies leaves its transaction
to the server (`indoubt`), which may commit it while the next append is between
its reads. Two constraints of the table (`SameKey`) are what holds the chain
together: an INSERT waits for a transaction in doubt with the same key, and raises
when that one commits. A hash is modelled by what it covers, the chain up to the
event.

**`LedgerLog`** is what a client of the ledger may rely on: per trace a log that
grows at its end and holds an event once. `LedgerChain` implements it, and it is
the in-memory client as it stands. `DecisionRuntime` writes to such a log. There,
a COMMIT that takes effect after its call has raised is placed at the moment of the
raise. The events of a trace end up the same: an append that comes in between is
kept out by the constraint, which is a call that raises. What the placement leaves
out is a reader who looks twice, before and after the late COMMIT.

### The logic behind it

**`FlowEvaluation`** is `_pure_evaluate` and `BoundaryEngine.apply` node by node,
over flows that are arbitrary sequences of nodes. A condition is what the
evaluator makes of it for the signal: true, false, or bad. Its property
`AbstractionIsFaithful` ties it to the pipeline: the two facts a `Decision` keeps
determine the status and the kinds of node events, so `DecisionRuntime` can leave
flows out.

**`TraceViews`** extends it with everything shown of an evaluation afterwards: the
trace, the explanation, the ledger events with the payload fields that are read
back, the trace the projector rebuilds, and `/compare`. These are functions of a
finished evaluation; its properties relate them to each other, for ledgers that
are cut anywhere or have a resolution added.

**`ConditionLanguage`** is `ConditionEvaluator`: the rewriting of `true`, `false`
and `null` in the text, the whitelist over the parsed tree, and the evaluation of
each construct over values of every Python type, with the missing sentinel,
short-circuiting and chained comparisons. `Handle` is what a node's handler makes
of the values of its subtrees, and `Eval` applies it along a tree; `Means` and
`Meaning` are the same for the documented meaning. Each of them is a recursive
function over the constant `Trees`, the trees the model speaks of, so that they can
be reasoned about. The order of texts and the substring test are constants, since
nothing depends on which texts there are. A dictionary is compared as a whole, and
numbers are integers: no infinity and no NaN.

**`FlowValidation`** is `FlowValidator.validate`, with the breadth-first search
and the recursive depth-first search step by step (the call stack is a sequence).
Edge order is left open, so one flow is searched in every order. The reference
definitions `Closed` and `Acyclic` quantify over sets of nodes; `Acyclic` is
compared with the usual definition in an assumption of `MCFlowValidation`.

None of these four runs concurrently with anything: they stand in for the atomic
`Evaluate` action and for startup, which is why they are modules of their own.

### The readers

**`FlowCatalog`** is `FlowRegistry`: a start lists the directory once and loads it
file by file while someone edits it; the first file that is refused aborts the
start. **`EventFeed`** is a reader that pages through the bus with a cursor while
events arrive and the process restarts, for both backends. **`TraceQueries`** is
the trace store and a client that pages through it by offset from the newest down.

**`ReadSide`** composes the three into one process: a restart reloads the
catalogue, empties the trace store and, in memory, the bus; an evaluation asks the
catalogue for its flow, and its event and its trace enter bus and store, the event
alone when the execution publisher raises. An evaluation is one step here, since
its handler does not await. `Scenes` bounds who reads and what is edited in one
behaviour, so that the run is a union of three smaller questions.

## What the runs show

| Run | Bounds | States | Shows |
|---|---|---|---|
| `strict` | 2 evaluations, 1 key and none, 3 kinds of decisions, 1 crash, 2 failed calls | 374 961 | the commit gate, its inductive invariant and the refinement of `CommitGate`; ordered hand-off; durable answers; acknowledged resolutions; what the cache holds; what a failed request leaves; every handler comes back |
| `parallel` | the same with 4 kinds of decisions, no Kafka | 97 495 | what is in the ledger when it follows the answer: a prefix, append-only, no conflicting resolutions, projections that agree, traces and gates that agree |
| `in_memory` | 5 evaluations of 1 key, 2 kinds of decisions, 2 crashes, 2 failed calls | 36 066 | a key is executed twice only when its first client got no answer; the cache is write-once; a retrying client is served for good |
| `ledger_chain` | 3 events of one trace and 1 of another, 2 broken connections, 1 crash | 111 299 | the chain has no hole and no fork; what was accepted stays; the refinement of `LedgerLog`; an append returns |
| `flow_evaluation` | every flow of up to 3 nodes, both strategies | 131 466 | documented selection and dominance; no error is absorbed; the pipeline's abstraction; projection and explanation tell of the same decision |
| `conditions` | conditions 3 levels deep, values of every type, missing fields | 85 710 | what is accepted never raises and means what is documented; a missing field never matches |
| `flow_validation` | all graphs on 3 nodes, 4-node graphs around a chain, malformed flows | 76 747 | accepted exactly when valid, with the right reason; always ends |
| `read_side` | 2 files, 5 contents; limits 1 to 3 with a cap of 2; 4 events and traces, 2 restarts, listings of 3 | 351 289 | the whole directory or no service; the highest version; both listings exact; events and traces tell one story; a replay uses the flow the trace was made with |

Why the bounds are enough. A hand-off hazard needs two evaluations of one key and
one failure between them; `in_memory` has five, one more than two crashes and two
failed calls can spoil, so the last retry must succeed: with fewer, the bound would
end the retries and not the code. Two failed calls allow a failure and a failure
of what follows it. One crash separates two lives. One key and requests without a
key are enough for the cache, because entries of different keys never meet. For
the ledger, two transactions in doubt and one running append can meet on one
number, and a third event is appended behind them; the other trace is the
bystander. For flows, ties and dominance are about pairs of nodes, and the third is
the bystander; a diamond and a cycle through an already finished node both fit
into three nodes. Conditions reach a connective over a comparison over an
attribute chain and a comparison of comparisons, so that a missing value passes
through every construct. A page cap of 2 lets limits lie below, on and above it, and four events are two full
pages; four traces exceed a listing of three.

`CHECK_DEADLOCK FALSE` stands where a system may really rest: a server nobody
calls, a validation or an evaluation that has ended. `ledger_chain` can always
begin another append and checks for deadlock. `AppendFaults` contains "invalid" in
`strict` only: neither client of the repository returns INVALID, but the adapter
handles it, so the run covers a client that does.

Two of the properties deserve a word. `RepeatOnlyAfterLoss` says exactly how far
idempotency goes: a second execution under one key needs a handler that raised or
a restart in between. `NegationPartsOnlyWithoutValues` says where `not (a < b)` and
`a >= b` part: exactly where an operand is missing or the two cannot be compared,
which is what an author of flows has to know.

### Fairness

- `strict` and `in_memory`: the event loop carries on with the handler it has
  started (`WF(HandlerStep)`; there is no `await` at which it could be left), the
  Kafka producer's thread drains its buffer (`WF(BrokerAck)`), a supervisor
  restarts the process (`WF(Restart)`, the restart policy of a deployment), and a
  client without an answer retries (`WF(Evaluate)` for its key, which the cached
  reply disables). Failures are bounded, which is the usual "finitely many
  faults". No fairness is assumed of failures, of crashes or of reviewers.
- `ledger_chain`: a statement that can run is run, and the server ends the
  transactions it is left with (`WF(ServerStep)`, TCP keepalive and the end of a
  backend whose client has gone). It is needed: the client sets no lock timeout.
- `flow_validation`: a call runs until it returns.
- `read_side`: the reader keeps polling a process that is up. `EverythingReceived`
  is conditional on the process staying up in the end.

### Where the documentation and the code part

Each of these runs finds a behaviour that contradicts a sentence of the
repository.

| Run | Sentence | Code |
|---|---|---|
| `claim_projection` | `ledger_projector.py:17`: completed when an outcome event is present, evaluating otherwise | a fallback node's event is filed under step type `outcome`, so a commit cut short before the outcome projects as completed and confirmed |
| `claim_restart_recovery` | `features.md:46`: the ledger recovers a key across restarts in strict mode | nothing looks a key up in the ledger; the retry is decided anew |
| `claim_at_least_once` | `kafka_execution_publisher.py:10`: at-least-once | the future of `send` is dropped, so an expired record goes unnoticed |
| `claim_active_fallback` | `runtime-policy.md:137`: one active fallback, validated at load time | `is_active` is not looked at |

Further divergences seen while modelling, without a run of their own:

- `features.md:44` promises no duplicate events for one key; a publish that raises
  after taking effect leaves nothing cached, and the retry publishes again.
  `RepeatOnlyAfterLoss` is the exact condition.
- `features.md:53-56` says a trace captures its gate's resolution; the stored
  trace is never updated (`GateAndTraceAgree` says what it shows instead), so the
  `rejected` and `error` counts of `/stats` are always zero.
- `features.md:74` says failures of a strict commit return `status = error`; that
  is so for refused events, but an exception of the client becomes HTTP 500.
- An append that finds a transaction in doubt for its own event raises
  UniqueViolation instead of reporting DUPLICATE when that transaction commits.
- `runtime-policy.md:90` says an allow never overrides a block unless it has the
  higher severity; of two equally severe boundaries the first declared wins,
  whatever its effect.
- `runtime-policy.md:159` has conditions checked at load time; only those of
  DECISION nodes are. A `contract_version` that is no string raises a TypeError
  at startup instead of a validation error.
- `condition_evaluator.py:81-82` calls the normalised words literals; they are
  rewritten in the text, so the string `"true"` becomes `"True"` and
  `payload.true` is a syntax error. Negative numbers and lists are not on the
  whitelist. `flow-format.md` has missing keys resolve to False, while
  `not payload.missing` holds.
- `flow-format.md` says `is_active: false` disables a flow; nothing reads a
  flow's `is_active`.
- Flows are listed in the order they were first loaded: a duplicate keeps the place
  of the one it replaces.
- An idempotency key is not scoped to a flow, and it is looked up before the flow
  is, so it answers for any flow.
- `event_bus.py:43` says a read without a limit is capped at 1000; the cap only
  applies to a given limit (the endpoint always gives one).
- `routes/runtime.py:348` says unknown cursors fall back to the start; Redis
  rejects an id that is not a stream entry id.

## What is proved

Every safety and action property of the three `DecisionRuntime` runs, of
`ledger_chain`, `flow_evaluation`, `flow_validation`, `conditions` and `read_side`,
and both refinements: for every set of keys, decisions, traces and events, flows of
any length, graphs of any size, conditions of any shape and depth, directories of
any size, every configuration and all bounds. So every property of a run is proved
except the liveness properties. The assumptions are the named ones of the modules. In `DecisionRuntime`, keys are not `NoKey`, modes
and flags are what `config.py` allows, an in-memory append does not raise, bounds
are naturals, `None` is no result; in `LedgerChain`, each event has a trace and
bounds are naturals; in `FlowEvaluation`, nodes have the fields of a node; in
`FlowValidation`, a flow's fallback and active nodes are among its nodes; in
`ConditionLanguage`, a tree is finite and has the subtrees its kind asks for, which
is what `ast.parse` returns, numbers, times and texts have an order, and what a
dictionary holds is a value; in `ReadSide`, the directory listing is a sequence,
limits and bounds are naturals, and a version is three numbers, which
`models/flow.py:127` enforces.

| Module | Theorems | Inductive invariant |
|---|---|---|
| `DecisionRuntimeProofs` | `TypeCorrect`, `Inductive`, `CommitGateHolds`, `StrictImplementsGate` | `TypeInv`, `Safe` |
| | `KeyExecutesOnce`, `RepliesAreStable` | with `Kept` |
| | `CachedIsFinished`, `FailureLeavesGateOnly`, `TraceKeepsItsGate` | with `Settled` |
| | `HandoffInOrder` | with `SentInOrder` |
| `LedgerProofs` | `OneAnswerPerGate`, `AckedIsRecorded` | `Resolved` |
| | `LedgerReadsBack`, `StrictAnswerSurvives`, `LedgerOnlyGrows`, `LedgerHasNoHole` | with `WrittenInOrder`, `NothingMissing` |
| `LedgerChainProofs` | `ChainInvariant`, `TypeCorrect`, `ChainNeverBreaks`, `AcceptedIsNeverLost`, `ChainImplementsLog` | `IInv` of `LedgerChain` |
| `FlowValidationProofs` | `VerdictIsExact` | `ReachExact`, `StackIsPath`, `SearchedIsAcyclic`, `VerdictSoFar` |
| `FlowEvaluationProofs` | `ErrorsSurface`, `ResultIsDocumented` | `Progress`, `Failures` |
| | `AbstractionHolds` | with `Recorded` |
| | `ExplanationIsEvidence`, `ProjectionIsFaithful` | with `Listed` |
| `ConditionProofs` | `JudgedInvariant`, `NeverRaises`, `EvaluationIsMeaning`, `MissingFieldFailsClosed`, `NegationParts` | `Judged` |
| `ReadSideProofs` | `CatalogCorrect`, `ServesWholeDirectory`, `LatestIsServed` | `CatalogInv` |
| | `FeedCorrect`, `FeedServesInOrder` | `FeedInv` |
| | `StoreCorrect`, `SimulationIsFaithful`, `OneStory` | with `StoreInv` |
| | `PagingServesAll` | with `PagesAreCovered` |

`RangeLemmas` states what `Append`, `Head`, `Tail` and `\o` do to the range of a
sequence, that a set of naturals has a least element, and that a total transitive
relation on a finite set has a best element (`BestExists`). The last two are what
a `CHOOSE` of a minimum or maximum rests on. They are proved once by well-founded
induction, stated without an operator parameter.

**The commit gate.** `CommitBeforeExecute` is about what is on the bus, in the
buffer and on the topic, and is not inductive: nothing in it says that the handler
in phase `publish` may publish. `HandoffIsDue` says so: a handler that is about to
hand off works on a confirmed decision which, in strict mode, is committed. That is
established when `CommitAccepted` leaves the commit phase, and there it needs
`CommitLosesNothing`: unless a refusal was noted, each event of the decision is in
the ledger or still to be appended, so an empty `todo` means all are in. That in
turn needs the ledger of a durable backend to grow only (lemma `LedgerGrows`) and
nothing to be written for evaluations that have not begun. Typing needs
`HandlerOwnsTrace`: a step of the pipeline indexes the stores with `cur`, which is
a trace only while a handler is running. The refinement adds that a request's
number is higher than those on the bus; every other step leaves the gate's
variables alone or accepts one decision, by its last event (`GateStep`).

**Requests.** `RepeatOnlyAfterLoss` holds because a key whose request ended in this
life without an exception is cached, and the key of a running one is not
(`KeysAreKept`), so no second one gets past the lookup. The same two facts make
the cache write-once.

**Outcomes.** `Settled` says of each cached entry and each stored trace how far its
request got (`Entries`, `Stored`), which gates are alive (`GatesLive`), and which
effects the running request has behind it (`Progress`). A lemma, `NoPriorResult`,
shows that the strict commit is never answered with a prior result: the branch
`_recover_prior_result` of the engine is not reached, because a running key is
never cached and a running trace never stored.

**The hand-off.** Bus, topic and buffer increase because what will be sent next is
newer than all that was sent (`SentInOrder`), and nothing in the buffer is older
than a record on the topic.

**Resolutions.** While the process has a gate, its status bounds what the ledger
can hold (`GateBinds`); only a gate handler has an answer to append, and it is its
gate's (`OnlyGatesAnswer`). After a restart no gate is left to resolve, so what
the ledger holds stays.

**The ledger.** The outcome is the last event an evaluation writes and nothing a
reader takes for an outcome follows it (`WrittenInOrder`), so the projector reads
back the decision (`ReadBack`). That the ledger has no hole needs to know which
event comes next: what is in the ledger and what is still to be appended make up
`BuildEvents` (`NothingMissing`).

**The chain.** `ChainIntact` says what the rows are, and the rows to come are those
of the running append and of the transactions in doubt. `ReadsHold` is the point
of the proof: what a transaction has read is right or its number has been taken
since, and in the second case `Holds` and the constraints keep its row out. It
does not matter that the number and the hash come from two statements: a commit
between them takes the number. The log is then read off in the order of numbers, and
a commit is an append at its end because numbers have no hole (`Gapless`).

**The validator.** That the breadth-first search is exact is `ReachExact`: what is
found or queued lies in every closed set around the entry, and what is found has
its successors found or queued, so an empty queue leaves a closed set. For the
depth-first search, the call stack is a path of distinct nodes, and what a call
has already looked at is searched or on the stack just above it (`StackIsPath`);
the searched nodes are closed under edges and every set of them has a node without
successors in it (`SearchedIsAcyclic`). A return adds the top of the stack to
them: were there a cycle, it would go through the top, whose successors are all
searched. A back edge closes a cycle because the stack from the node it meets is
one. The order in which edges are taken does not enter.

**The evaluation.** Each loop keeps that its list holds exactly the nodes it has
passed whose condition holds, the earliest first, and that none passed was bad
(`Progress`). What the strategy, the stable sort and the first fallback then
choose exists and is unique, because each is the best element of a finite set
under a total order. For the abstraction, the records are in the order of their
kinds and there is a record of a kind exactly when a node of it was passed
(`Recorded`), so the kinds of the records and those of `BuildEvents` are the same
increasing sequence.

**What is shown of it.** Both properties of `TraceViews` rest on `Listed`: each node
used so far has one record, of its type, and that of the fallback comes right after
those of the decision nodes. So the dominant boundary can be found again among the
listed effects (`TopEffect`), and the lists of an explanation, which divide the
records between them, hold each used node once. The events are the signal, the
records in their order, possibly a gate, and the outcome (`EventsShown`); the
positions that are read back as nodes are those of records that are not of a
fallback, and the last position read as an outcome is the last event, unless the
ledger was cut, when it can only be that of the fallback (`Rebuilt`, `CutShown`).
The two node maps then agree where both are defined, because a node has one record.
What a view lists is stated by `EntriesAt`, the entries at a set of positions in
their order, rather than `SelectSeq`, whose recursive definition cannot be
reasoned about here.

**Conditions.** The state invariant says little (`Judged`: only an accepted tree is
evaluated, and the verdict is its value); the work is in the evaluator. That what
holds of a tree when it holds of its subtrees holds of all trees (`TreeInduction`)
follows from a height that subtrees have less of: were there an exception, there
would be a lowest one. That each definition by recursion over trees has a solution,
so that its equation may be used (`TreeRecursion`), is proved by putting together
the solutions up to each height, which agree where they meet. Then one node at a
time: over values of parts that are there or missing, the handler of an accepted
node raises nothing and gives what the node means (`HandlerMeans`). For the
connectives and chains this is the lemma that a loop which ends at the first
outcome that differs has found whether there is one (`FirstOtherExists`). A missing
field is passed on by `LacksFails`, and a negated comparison is the opposite one
wherever both operands are there, because opposite operators can compare the same
operands (`OppositeRelation`). Python's recursion limit is not modelled: conditions
of any depth means those Python gets to the end of.

**The catalogue.** While a start loads, the dictionary holds for each key the file
read last under it and nothing else (`CatalogExact`), so a start that gets to its
end has the whole directory; `Store` in place keeps keys distinct. The highest
version exists because the lexicographic order on three numbers is total.

**The feed.** The bus of a process is a run of consecutive numbers (`BusIsRun`),
starting at zero or, in memory, where the process began (`Base`). So the page after
any cursor, one from a former process included, begins at the first number the
reader has not passed (`StartIsNext`).

**Stored traces.** Traces of a process name flows of its catalogue, which nothing
changes until it ends, and keys in it are distinct (`TracesAreOfProcess`), so a
lookup by id finds that flow. The confirmed traces tell of the events that did not
raise, one each, in the same order (`TracesTellEvents`); the order-preserving map
of `EventsMatchTraces` and the count of `/stats` are read off it.

**Paging by offset.** An arrival moves the traces behind it one place back. So a
trace on a page the client has passed was given to it, and a trace that stands
behind the client's offset though it was given (`Behind`) will be given again:
`PagesAreCovered` counts repetitions made and due together, against arrivals. An
arrival adds at most one due repetition, the trace it pushes over the edge; a page
turns due repetitions into made ones. `Position` is a rank and hence a permutation
of the store, which is what makes the counting add up.

Only model-checked is liveness (`LoopReturns`, `EventuallyServed`, `AppendReturns`,
`ValidationEnds`, `EverythingReceived`), which is outside what TLAPS can prove.

## Not modelled

- `models/contract.py` and the rules of the contract registry beyond one verdict
  per flow: no code evaluates a contract when a signal is decided.
- Metrics, request logging, authentication, response headers, health endpoints,
  settings parsing.
- Python's parsing of a condition, payload contents beyond the fields a condition
  reads, event metadata, timestamps other than a trace's `started_at`.
- How `/simulate` merges its overrides over the payload; summary fields that copy
  the trace.
- `decision_result_to_ledger_event`, which nothing calls; the conversion of
  boundary results to response objects.
- Appends by several processes (excluded by the documentation); what
  `LedgerChain` shows of abandoned transactions is the concurrency that remains.
- `required_role`, expiry and cancellation of gates: the engine sets none of them.
- Files that are empty in this commit (`state_machine.py`, `resolution_policy.py`,
  `orchestrator_client.py` and others).

## Plan

Done, in this order: `LedgerEvents`, `DecisionRuntime` with `CommitGate`, its
first proofs, `DocumentedClaims`, `FlowValidation`, `FlowEvaluation`; then
`ConditionLanguage`, `LedgerChain` with `LedgerLog` and its proofs, `FlowCatalog`,
`EventFeed` and `TraceQueries` composed in `ReadSide`, `TraceViews`, and the proofs
of all remaining safety properties of the pipeline.

Then the proofs of `FlowValidation`, `FlowEvaluation`, `TraceViews`, `ReadSide` and
`ConditionLanguage`. For these, `FlowCatalog` keeps the files of a start that are
still to be loaded as a set of positions, the least of which is next, the listings
of `TraceViews` are entries at a set of positions, and the recursive definitions of
`ConditionLanguage` are functions over trees.

Next:

1. A composition of `DecisionRuntime` with `LedgerChain` in place of its log,
   which the refinement of `LedgerLog` now stands for.
