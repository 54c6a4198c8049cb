---------------------------- MODULE LedgerProofs ----------------------------
(***************************************************************************)
(* Proofs about the ledger of DecisionRuntime, in two parts: what it holds *)
(* of a gate's resolution and what the reviewer was told; how it grows,    *)
(* and what a reader makes of it afterwards.                               *)
(***************************************************************************)
EXTENDS DecisionRuntimeProofs

(* The resolution of gates. *)

Answers == {"approve", "reject"}

AnswerOf(g) == IF g = "approved" THEN "approve" ELSE "reject"

\* As long as the process has a gate, its status bounds what the ledger holds
\* and what was acknowledged; a gate that still waits has neither.
GateBinds ==
  \A t \in Trace :
    /\ gates[t] = "pending" =>
         Range(ledger[t]) \cap Answers = {} /\ acked[t] = "none"
    /\ gates[t] = "approved" =>
         "reject" \notin Range(ledger[t]) /\ acked[t] # "rejected"
    /\ gates[t] = "rejected" =>
         "approve" \notin Range(ledger[t]) /\ acked[t] # "approved"

\* Only a gate handler has an answer to append, and it is its gate's.
OnlyGatesAnswer ==
  /\ pc \in {"commit", "record"} => Range(todo) \cap Answers = {}
  /\ pc = "gate" => Range(todo) \subseteq {AnswerOf(gates[cur])}
  /\ \A t \in Trace \ Evaluated : acked[t] = "none"

\* A gate handler whose append was not refused has its answer in the ledger.
AnswerWritten ==
  pc = "gate" /\ todo = <<>> /\ "invalid" \notin seen =>
    AnswerOf(gates[cur]) \in Range(ledger[cur])

Resolved ==
  GateBinds /\ OnlyGatesAnswer /\ AnswerWritten
    /\ NoConflictingResolution /\ AckedResolutionRecorded

\* No evaluation writes a resolution.
LEMMA BuildEventsAnswerNothing ==
  ASSUME NEW d \in Decision
  PROVE  Range(BuildEvents(d)) \cap Answers = {}
<1>. DEFINE Other == Kind \ Answers
            a == IF d.matched THEN <<>> ELSE <<"fallback">>
            b == IF d.effect = "none" THEN <<>> ELSE <<"boundary">>
            c == IF StatusOf(d) = "pending_human" THEN <<"human">> ELSE <<>>
<1>1. /\ <<>> \in Seq(Other)
      /\ <<"fallback">> \in Seq(Other) /\ <<"boundary">> \in Seq(Other)
      /\ <<"human">> \in Seq(Other)
  BY DEF Kind, Answers
<1>2. a \in Seq(Other) /\ b \in Seq(Other) /\ c \in Seq(Other)
  BY <1>1, Zenon
<1>3. <<"signal", "decision">> \in Seq(Other) /\ <<"outcome">> \in Seq(Other)
  BY DEF Kind, Answers
<1>4. BuildEvents(d) = <<"signal", "decision">> \o a \o b \o c \o <<"outcome">>
  BY DEF BuildEvents
<1>. HIDE DEF a, b, c, Other
<1>5. BuildEvents(d) \in Seq(Other)
  BY <1>2, <1>3, <1>4
<1>6. Range(BuildEvents(d)) \subseteq Other
  BY <1>5, RangeType
<1>. QED BY <1>6 DEF Other

\* An append adds the event it was about to append, and nothing else.
LEMMA LedgerGains ==
  ASSUME TypeInv, AppendEvent \/ AppendInvalid \/ AppendRaises
  PROVE  /\ cur \in Trace /\ Head(todo) \in Range(todo)
         /\ Range(Tail(todo)) \subseteq Range(todo)
         /\ Range(ledger'[cur]) \subseteq Range(ledger[cur]) \cup {Head(todo)}
<1>1. /\ cur \in Trace /\ ledger \in [Trace -> Seq(Kind)]
      /\ todo \in Seq(Kind) /\ todo # <<>>
  BY Domains DEF AppendEvent, AppendInvalid, AppendRaises, Appending,
     TypeInv, TypeOK, HandlerOwnsTrace
<1>. DEFINE longer == [ledger EXCEPT ![cur] = Append(@, Head(todo))]
<1>2. Head(todo) \in Kind /\ Range(todo) = {Head(todo)} \cup Range(Tail(todo))
  BY <1>1, RangeTail
<1>3. longer[cur] = Append(ledger[cur], Head(todo)) /\ ledger[cur] \in Seq(Kind)
  BY <1>1
<1>4. Range(longer[cur]) = Range(ledger[cur]) \cup {Head(todo)}
  BY <1>2, <1>3, RangeAppend
<1>5. ledger' = ledger \/ ledger' = longer
  BY DEF AppendEvent, AppendInvalid, AppendRaises
<1>. QED BY <1>1, <1>2, <1>4, <1>5

\* There is nothing to resolve at first.
LEMMA ResolvedInit == Init => Resolved
<1>. SUFFICES ASSUME Init PROVE Resolved
  OBVIOUS
<1>1. \A t \in Trace : Range(ledger[t]) = {} /\ acked[t] = "none" /\ gates[t] = "none"
  BY RangeEmpty DEF Init
<1>2. pc = "idle"
  BY DEF Init
<1>. QED BY <1>1, <1>2 DEF Resolved, GateBinds, OnlyGatesAnswer, AnswerWritten,
            NoConflictingResolution, AckedResolutionRecorded

\* A step that leaves gates, ledger and acknowledgements alone and does not
\* enter a handler that appends.
LEMMA ResolvedQuiet ==
  ASSUME Resolved, UNCHANGED <<evals, gates, ledger, acked>>,
         \/ pc' \notin {"commit", "record", "gate"}
         \/ UNCHANGED <<pc, cur, todo, seen>>
  PROVE  Resolved'
BY DEF Resolved, GateBinds, OnlyGatesAnswer, AnswerWritten, NoConflictingResolution,
       AckedResolutionRecorded, Evaluated

\* A new evaluation may open a gate, for which nothing is written yet.
LEMMA ResolvedEvaluate ==
  ASSUME TypeInv, Safe, Resolved,
         NEW k \in Key \cup {NoKey}, NEW d \in Decision, Evaluate(k, d)
  PROVE  Resolved'
<1>. DEFINE n == Len(evals) + 1
<1>1. /\ n \in Trace /\ n \notin Evaluated
      /\ UNCHANGED <<ledger, acked>> /\ Evaluated' = Evaluated \cup {n}
  <2>1. evals' = Append(evals, [key |-> k, decision |-> d, life |-> crashes])
    BY DEF Evaluate
  <2>2. [key |-> k, decision |-> d, life |-> crashes] \in Evaluation
        /\ evals \in Seq(Evaluation)
    BY DEF TypeInv, TypeOK, Evaluation
  <2>3. Len(evals') = n /\ Len(evals) \in Nat
    BY <2>1, <2>2
  <2>. QED BY <2>3 DEF Evaluate, Evaluated
<1>2. ledger[n] = <<>> /\ acked[n] = "none"
  BY <1>1 DEF Safe, CommitLosesNothing, Resolved, OnlyGatesAnswer
<1>3. \A t \in Trace : gates'[t] = gates[t] \/ t = n
  BY <1>1 DEF Evaluate, OpenGate, TypeInv, TypeOK
<1>3a. gates'[n] \in {"none", "pending"}
  BY <1>1 DEF Evaluate, OpenGate, TypeInv, TypeOK, Safe, CommitLosesNothing
<1>4. GateBinds'
  BY <1>1, <1>2, <1>3, <1>3a, RangeEmpty DEF Resolved, GateBinds
<1>5. OnlyGatesAnswer'
  <2>1. pc' = "commit" => todo' = BuildEvents(d)
    BY Domains DEF Evaluate
  <2>2. pc' \in {"commit", "publish", "save"}
    BY Domains DEF Evaluate
  <2>. QED BY <1>1, <2>1, <2>2, BuildEventsAnswerNothing DEF Resolved, OnlyGatesAnswer
<1>6. AnswerWritten'
  BY Domains DEF Evaluate, AnswerWritten
<1>7. NoConflictingResolution' /\ AckedResolutionRecorded'
  BY <1>1 DEF Resolved, NoConflictingResolution, AckedResolutionRecorded
<1>. QED BY <1>4, <1>5, <1>6, <1>7 DEF Resolved

\* A commit appends no answer, and a gate handler its own.
LEMMA ResolvedLedger ==
  ASSUME TypeInv, Safe, Resolved, AppendEvent \/ AppendInvalid \/ AppendRaises
  PROVE  Resolved'
<1>. USE DEF historyVars, storeVars, handoffVars
<1>. DEFINE e == Head(todo)
<1>1. /\ cur \in Trace /\ e \in Range(todo) /\ Range(Tail(todo)) \subseteq Range(todo)
      /\ Range(ledger[cur]) \subseteq Range(ledger'[cur])
      /\ Range(ledger'[cur]) \subseteq Range(ledger[cur]) \cup {e}
      /\ \A t \in Trace : t # cur => ledger'[t] = ledger[t]
  BY LedgerGains, LedgerGrows
<1>2. /\ pc \in {"commit", "record", "gate"} /\ UNCHANGED <<evals, gates>>
      /\ pc # "gate" => e \notin Answers
      /\ pc = "gate" => /\ e = AnswerOf(gates[cur])
                        /\ gates[cur] \in {"approved", "rejected"}
  BY <1>1 DEF AppendEvent, AppendInvalid, AppendRaises, Appending, Resolved,
     OnlyGatesAnswer, TypeInv, HandlerOwnsTrace
<1>3. /\ \A t \in Trace : t # cur => acked'[t] = acked[t]
      /\ \/ acked'[cur] = acked[cur]
         \/ pc = "gate" /\ acked'[cur] = gates[cur] /\ LedgerMode # "strict"
      /\ pc' = "idle" \/ UNCHANGED <<pc, cur, acked>>
  <2>1. CASE AppendEvent \/ AppendInvalid
    BY <2>1 DEF AppendEvent, AppendInvalid
  <2>2. CASE AppendRaises
    BY <1>1, <2>2 DEF AppendRaises, CommitRaises, RecordRaises, GateRaises, Raise, Answer,
                BackToLoop, TypeInv, TypeOK
  <2>. QED BY <2>1, <2>2
<1>4. GateBinds'
  <2>. SUFFICES ASSUME NEW t \in Trace
                PROVE  /\ gates[t] = "pending" =>
                            Range(ledger'[t]) \cap Answers = {} /\ acked'[t] = "none"
                       /\ gates[t] = "approved" =>
                            "reject" \notin Range(ledger'[t]) /\ acked'[t] # "rejected"
                       /\ gates[t] = "rejected" =>
                            "approve" \notin Range(ledger'[t]) /\ acked'[t] # "approved"
    BY <1>2 DEF GateBinds
  <2>1. CASE t # cur
    BY <1>1, <1>3, <2>1 DEF Resolved, GateBinds
  <2>2. CASE t = cur /\ pc # "gate"
    BY <1>1, <1>2, <1>3, <2>2 DEF Resolved, GateBinds, Answers
  <2>3. CASE t = cur /\ pc = "gate"
    BY <1>1, <1>2, <1>3, <2>3 DEF Resolved, GateBinds, AnswerOf
  <2>. QED BY <2>1, <2>2, <2>3
<1>5. NoConflictingResolution'
  <2>1. CASE pc = "gate"
    <3>1. ASSUME NEW t \in Trace, t # cur
          PROVE  ledger'[t] = ledger[t] /\ acked'[t] = acked[t]
      BY <1>1, <1>3, <3>1
    <3>. QED BY <1>2, <1>4, <2>1, <3>1
             DEF Resolved, NoConflictingResolution, GateBinds, Answers
  <2>2. CASE pc # "gate"
    <3>1. \A t \in Trace : /\ acked'[t] = acked[t]
                           /\ Range(ledger'[t]) \cap Answers = Range(ledger[t]) \cap Answers
      BY <1>1, <1>2, <1>3, <2>2
    <3>. QED BY <3>1 DEF Resolved, NoConflictingResolution, Answers
  <2>. QED BY <2>1, <2>2
<1>6. AckedResolutionRecorded'
  <2>1. LedgerMode = "strict" => \A t \in Trace : acked'[t] = acked[t]
    BY <1>3
  <2>2. \A t \in Trace : Range(ledger[t]) \subseteq Range(ledger'[t])
    BY <1>1
  <2>. QED BY <2>1, <2>2 DEF Resolved, AckedResolutionRecorded
<1>7. CASE AppendRaises
  <2>1. pc' = "idle"
    BY <1>7 DEF AppendRaises, CommitRaises, RecordRaises, GateRaises, Raise, Answer,
                BackToLoop
  <2>2. \A t \in Trace \ Evaluated : acked'[t] = "none"
    <3>1. pc = "gate" => cur \in Evaluated
      BY <1>1, <1>2 DEF Safe, CommitLosesNothing
    <3>. QED BY <1>3, <3>1 DEF Resolved, OnlyGatesAnswer
  <2>3. OnlyGatesAnswer' /\ AnswerWritten'
    BY <1>2, <2>1, <2>2 DEF OnlyGatesAnswer, AnswerWritten, Evaluated
  <2>. QED BY <1>4, <1>5, <1>6, <2>3 DEF Resolved
<1>8. CASE AppendEvent \/ AppendInvalid
  <2>1. UNCHANGED <<pc, cur, acked>> /\ todo' = Tail(todo)
    BY <1>8 DEF AppendEvent, AppendInvalid
  <2>2. OnlyGatesAnswer'
    BY <1>1, <1>2, <2>1 DEF Resolved, OnlyGatesAnswer, Evaluated
  <2>3. AnswerWritten'
    <3>1. CASE AppendEvent
      <4>1. e \in Range(ledger'[cur])
        BY <3>1, LedgerGrows
      <4>. QED BY <1>2, <2>1, <4>1 DEF AnswerWritten
    <3>2. CASE AppendInvalid
      BY <3>2 DEF AppendInvalid, AnswerWritten
    <3>. QED BY <1>8, <3>1, <3>2
  <2>. QED BY <1>4, <1>5, <1>6, <2>2, <2>3 DEF Resolved
<1>. QED BY <1>7, <1>8

\* Only a gate that waits is resolved, so nothing is written of it yet.
LEMMA ResolvedReview ==
  ASSUME TypeInv, Safe, Resolved, Review
  PROVE  Resolved'
<1>. USE DEF handlerVars, historyVars, storeVars, handoffVars
<1>1. PICK t \in Trace, g \in {"approved", "rejected"} : ResolveGate(t, g, AnswerOf(g))
  BY DEF Review, Approve, Reject, AnswerOf
<1>2. /\ gates[t] = "pending" /\ gates' = [gates EXCEPT ![t] = g] /\ gates'[t] = g
      /\ \A u \in Trace : u # t => gates'[u] = gates[u]
      /\ UNCHANGED <<evals, ledger>> /\ pc = "idle"
  BY <1>1 DEF ResolveGate, IsPending, TypeInv, TypeOK
<1>3. Range(ledger[t]) \cap Answers = {} /\ acked[t] = "none" /\ t \in Evaluated
  BY <1>2 DEF Resolved, GateBinds, Safe, CommitLosesNothing
<1>4. /\ \A u \in Trace : u # t => acked'[u] = acked[u]
      /\ acked'[t] \in {"none", g}
      /\ LedgerMode = "strict" => acked' = acked
  <2>1. CASE LedgerMode = "off"
    BY <1>1, <2>1 DEF ResolveGate, TypeInv, TypeOK
  <2>2. CASE LedgerMode # "off"
    BY <1>1, <1>3, <2>2 DEF ResolveGate
  <2>. QED BY <2>1, <2>2
<1>5. GateBinds'
  <2>1. \A u \in Trace : u # t => ledger'[u] = ledger[u] /\ acked'[u] = acked[u]
    BY <1>2, <1>4
  <2>2. "reject" \notin Range(ledger'[t]) /\ "approve" \notin Range(ledger'[t])
    BY <1>2, <1>3 DEF Answers
  <2>. QED BY <1>2, <1>4, <2>1, <2>2 DEF Resolved, GateBinds
<1>6. NoConflictingResolution'
  <2>1. \A u \in Trace : u # t => ledger'[u] = ledger[u] /\ acked'[u] = acked[u]
    BY <1>2, <1>4
  <2>2. "reject" \notin Range(ledger'[t]) /\ "approve" \notin Range(ledger'[t])
    BY <1>2, <1>3 DEF Answers
  <2>. QED BY <2>1, <2>2 DEF Resolved, NoConflictingResolution
<1>7. AckedResolutionRecorded'
  BY <1>2, <1>4 DEF Resolved, AckedResolutionRecorded
<1>8. OnlyGatesAnswer' /\ AnswerWritten'
  <2>1. \A u \in Trace \ Evaluated' : acked'[u] = "none"
    BY <1>2, <1>3, <1>4 DEF Resolved, OnlyGatesAnswer, Evaluated
  <2>2. CASE LedgerMode = "off"
    <3>1. pc' = "idle"
      BY <1>1, <1>2, <2>2 DEF ResolveGate
    <3>. QED BY <2>1, <3>1 DEF OnlyGatesAnswer, AnswerWritten
  <2>3. CASE LedgerMode # "off"
    <3>1. pc' = "gate" /\ cur' = t /\ todo' = <<AnswerOf(g)>> /\ AnswerOf(g) \in Kind
      BY <1>1, <2>3, Domains DEF ResolveGate, AnswerOf
    <3>2. Range(todo') = {AnswerOf(g)} /\ todo' # <<>>
      BY <3>1 DEF Range
    <3>. QED BY <1>2, <2>1, <3>1, <3>2 DEF OnlyGatesAnswer, AnswerWritten
  <2>. QED BY <2>2, <2>3
<1>. QED BY <1>5, <1>6, <1>7, <1>8 DEF Resolved

\* The handler acknowledges what it resolved and, in strict mode, appended.
LEMMA ResolvedGateDone ==
  ASSUME TypeInv, Safe, Resolved, GateDone
  PROVE  Resolved'
<1>. USE DEF handlerVars, historyVars, storeVars, handoffVars
<1>1. /\ pc = "gate" /\ todo = <<>> /\ pc' = "idle" /\ UNCHANGED <<evals, gates, ledger>>
      /\ cur \in Trace /\ gates[cur] \in {"approved", "rejected"}
  BY DEF GateDone, BackToLoop, TypeInv, HandlerOwnsTrace
<1>2. /\ \A t \in Trace : t # cur => acked'[t] = acked[t]
      /\ \/ acked'[cur] = acked[cur]
         \/ /\ acked'[cur] = gates[cur]
            /\ LedgerMode = "strict" => "invalid" \notin seen
  BY <1>1 DEF GateDone, TypeInv, TypeOK
<1>3. GateBinds'
  BY <1>1, <1>2 DEF Resolved, GateBinds
<1>4. NoConflictingResolution'
  BY <1>1, <1>2 DEF Resolved, GateBinds, NoConflictingResolution
<1>5. AckedResolutionRecorded'
  BY <1>1, <1>2 DEF Resolved, AnswerWritten, AckedResolutionRecorded, AnswerOf
<1>6. cur \in Evaluated
  BY <1>1 DEF Safe, CommitLosesNothing
<1>7. OnlyGatesAnswer' /\ AnswerWritten'
  BY <1>1, <1>2, <1>6 DEF Resolved, OnlyGatesAnswer, AnswerWritten, Evaluated
<1>. QED BY <1>3, <1>4, <1>5, <1>7 DEF Resolved

\* A crash forgets the gates; what was acknowledged stays, and so does a
\* durable ledger.
LEMMA ResolvedCrash ==
  ASSUME TypeInv, Resolved, Crash
  PROVE  Resolved'
<1>1. /\ pc' = "down" /\ UNCHANGED <<evals, acked>>
      /\ \A t \in Trace : gates'[t] = "none"
      /\ ledger' = ledger \/ \A t \in Trace : ledger'[t] = <<>>
      /\ LedgerDurable => ledger' = ledger
  BY DEF Crash, SurvivingLedger
<1>2. \A t \in Trace : Range(ledger'[t]) \subseteq Range(ledger[t])
  BY <1>1, RangeEmpty
<1>. QED BY <1>1, <1>2 DEF Resolved, GateBinds, OnlyGatesAnswer, AnswerWritten,
            NoConflictingResolution, AckedResolutionRecorded, Evaluated

\* The trace has been turned into events, none of which is an answer.
LEMMA ResolvedSave ==
  ASSUME TypeInv, Resolved, Save
  PROVE  Resolved'
<1>. USE DEF historyVars, storeVars, handoffVars
<1>1. UNCHANGED <<evals, gates, ledger, acked>>
  BY DEF Save
<1>2. CASE LedgerMode # "parallel"
  <2>1. pc' = "idle"
    BY <1>2 DEF Save, Answer, BackToLoop
  <2>. QED BY <1>1, <2>1, ResolvedQuiet
<1>3. CASE LedgerMode = "parallel"
  <2>1. pc' = "record" /\ todo' = BuildEvents(DecisionOf(cur))
    BY <1>3 DEF Save
  <2>2. DecisionOf(cur) \in Decision
    BY CurrentTrace, Domains DEF Save
  <2>3. Range(todo') \cap Answers = {}
    BY <2>1, <2>2, BuildEventsAnswerNothing
  <2>. QED BY <1>1, <2>1, <2>3
           DEF Resolved, GateBinds, OnlyGatesAnswer, AnswerWritten,
               NoConflictingResolution, AckedResolutionRecorded, Evaluated
<1>. QED BY <1>2, <1>3

\* All other steps are quiet.
LEMMA ResolvedElsewhere ==
  ASSUME TypeInv, Resolved,
         \/ CommitAccepted \/ CommitRefused
         \/ BusPublish \/ BusPublishRaises
         \/ KafkaSend \/ KafkaSendRaises \/ KafkaFlush \/ KafkaFlushRaises
         \/ Recorded \/ BrokerAck \/ BrokerDrop \/ Restart
  PROVE  Resolved'
<1>. USE DEF handlerVars, historyVars, storeVars, handoffVars
<1>1. UNCHANGED <<evals, gates, ledger, acked>>
  BY DEF CommitAccepted, CommitRefused, BusPublish, BusPublishRaises, KafkaSend,
         KafkaSendRaises, KafkaFlush, KafkaFlushRaises, Recorded, BrokerAck,
         BrokerDrop, Restart
<1>2. CASE BrokerAck \/ BrokerDrop
  <2>1. UNCHANGED <<pc, cur, todo, seen>>
    BY <1>2 DEF BrokerAck, BrokerDrop
  <2>. QED BY <1>1, <2>1, ResolvedQuiet
<1>3. CASE CommitAccepted
  <2>1. pc' \in {"publish", "save"}
    BY <1>3, CurrentTrace, Domains DEF CommitAccepted, GoTo
  <2>. QED BY <1>1, <2>1, ResolvedQuiet
<1>4. CASE ~(BrokerAck \/ BrokerDrop \/ CommitAccepted)
  <2>1. pc' \in {"idle", "send", "flush", "save"}
    BY <1>4 DEF CommitRefused, BusPublish, BusPublishRaises, KafkaSend,
         KafkaSendRaises, KafkaFlush, KafkaFlushRaises, Recorded, Restart,
         GoTo, Raise, Answer, BackToLoop
  <2>. QED BY <1>1, <2>1, ResolvedQuiet
<1>. QED BY <1>2, <1>3, <1>4

\* Every step keeps gates, ledger and acknowledgements in agreement.
LEMMA ResolvedStep == TypeInv /\ Safe /\ Resolved /\ [Next]_vars => Resolved'
<1>. SUFFICES ASSUME TypeInv, Safe, Resolved, [Next]_vars PROVE Resolved'
  OBVIOUS
<1>1. CASE Request
  BY <1>1, ResolvedEvaluate, KeyAssumption DEF Request
<1>2. CASE Review
  BY <1>2, ResolvedReview
<1>3. CASE HandlerStep
  BY <1>3, ResolvedLedger, ResolvedSave, ResolvedGateDone, ResolvedElsewhere
     DEF HandlerStep
<1>4. CASE HandlerFault
  BY <1>4, ResolvedLedger, ResolvedElsewhere DEF HandlerFault
<1>5. CASE BrokerAck \/ BrokerDrop \/ Crash \/ Restart
  BY <1>5, ResolvedElsewhere, ResolvedCrash
<1>6. CASE UNCHANGED vars
  BY <1>6, ResolvedQuiet DEF vars, handlerVars, historyVars, storeVars
<1>. QED BY <1>1, <1>2, <1>3, <1>4, <1>5, <1>6 DEF Next

\* The strengthening holds in every behaviour.
LEMMA ResolvedAlways == Spec => []Resolved
<1>1. Init => TypeInv /\ Safe /\ Resolved
  BY TypeInit, SafeInit, ResolvedInit
<1>2. TypeInv /\ Safe /\ Resolved /\ [Next]_vars => (TypeInv /\ Safe /\ Resolved)'
  BY TypeStep, SafeStep, ResolvedStep
<1>. QED BY <1>1, <1>2, PTL DEF Spec

\* One gate, one answer, for any number of retries, crashes and lost
\* acknowledgements: the ledger never holds an approval and a rejection of one
\* decision, and contradicts no reviewer (_require_pending, the gate handlers).
THEOREM OneAnswerPerGate == Spec => []NoConflictingResolution
<1>1. Resolved => NoConflictingResolution
  BY DEF Resolved
<1>. QED BY <1>1, ResolvedAlways, PTL

\* In strict mode on a durable ledger a resolution a reviewer got a 200 for is
\* in the ledger for good (_append_human_gate_to_ledger).
THEOREM AckedIsRecorded == Spec => []AckedResolutionRecorded
<1>1. Resolved => AckedResolutionRecorded
  BY DEF Resolved
<1>. QED BY <1>1, ResolvedAlways, PTL

-----------------------------------------------------------------------------

(* The growth and the meaning of the ledger. *)

EndsWithOutcome(s) == \A i \in DOMAIN s : s[i] = "outcome" <=> i = Len(s)

\* No event a reader takes for an outcome comes after the outcome event.
OutcomeLast(s) ==
  \A i, j \in DOMAIN s : s[i] = "outcome" /\ StepType[s[j]] = "outcome" => j <= i

\* Outside strict mode the ledger gets a trace at the end; a commit writes the
\* outcome last; what was answered in strict mode is committed.
WrittenInOrder ==
  /\ pc \in {"publish", "send", "flush", "save"} /\ LedgerMode # "strict" =>
       ledger[cur] = <<>>
  /\ pc \in {"commit", "record"} =>
       /\ EndsWithOutcome(todo)
       /\ todo # <<>> => "outcome" \notin Range(ledger[cur])
  /\ pc = "commit" => LedgerMode = "strict"
  /\ pc = "record" => LedgerMode = "parallel"
  /\ \A t \in Trace : OutcomeLast(ledger[t])
  /\ LedgerMode = "strict" /\ LedgerDurable =>
       \A t \in Evaluated : fate[t] = "answered" => Committed(t)

\* The outcome is the last event an evaluation writes, and written once.
LEMMA BuildEventsOutcome ==
  ASSUME NEW d \in Decision
  PROVE  EndsWithOutcome(BuildEvents(d)) /\ "outcome" \in Range(BuildEvents(d))
<1>. DEFINE Other == Kind \ {"outcome"}
            a == IF d.matched THEN <<>> ELSE <<"fallback">>
            b == IF d.effect = "none" THEN <<>> ELSE <<"boundary">>
            c == IF StatusOf(d) = "pending_human" THEN <<"human">> ELSE <<>>
            w == <<"signal", "decision">> \o a \o b \o c
<1>1. /\ <<>> \in Seq(Other) /\ <<"signal", "decision">> \in Seq(Other)
      /\ <<"fallback">> \in Seq(Other) /\ <<"boundary">> \in Seq(Other)
      /\ <<"human">> \in Seq(Other)
  BY DEF Kind
<1>2. a \in Seq(Other) /\ b \in Seq(Other) /\ c \in Seq(Other)
  BY <1>1, Zenon
<1>3. BuildEvents(d) = w \o <<"outcome">>
  BY DEF BuildEvents
<1>. HIDE DEF a, b, c
<1>4. w \in Seq(Other)
  BY <1>1, <1>2
<1>. HIDE DEF w
<1>5. /\ Len(w \o <<"outcome">>) = Len(w) + 1 /\ Len(w) \in Nat
      /\ DOMAIN (w \o <<"outcome">>) = 1..Len(w) + 1
      /\ \A i \in 1..Len(w) : (w \o <<"outcome">>)[i] = w[i] /\ w[i] \in Other
      /\ (w \o <<"outcome">>)[Len(w) + 1] = "outcome"
  BY <1>4 DEF Kind
<1>6. EndsWithOutcome(BuildEvents(d))
  BY <1>3, <1>5 DEF EndsWithOutcome
<1>7. "outcome" \in Range(BuildEvents(d))
  <2>1. Len(w) + 1 \in DOMAIN BuildEvents(d) /\ BuildEvents(d)[Len(w) + 1] = "outcome"
    BY <1>3, <1>5
  <2>. QED BY <2>1 DEF Range
<1>. QED BY <1>6, <1>7

\* An event after the outcome keeps it the last one if no reader takes it for
\* an outcome; before there is an outcome any event may come.
LEMMA OutcomeLastAppend ==
  ASSUME NEW s \in Seq(Kind), NEW e \in Kind, OutcomeLast(s),
         "outcome" \in Range(s) => StepType[e] # "outcome"
  PROVE  OutcomeLast(Append(s, e))
<1>1. /\ DOMAIN s = 1..Len(s) /\ Len(s) \in Nat
      /\ DOMAIN Append(s, e) = 1..Len(s) + 1
      /\ \A i \in 1..Len(s) : Append(s, e)[i] = s[i] /\ s[i] \in Range(s)
      /\ Append(s, e)[Len(s) + 1] = e
  BY RangeType
<1>. DEFINE w == Append(s, e)
<1>. HIDE DEF w
<1>2. ASSUME NEW i \in DOMAIN w, NEW j \in DOMAIN w,
             w[i] = "outcome", StepType[w[j]] = "outcome"
      PROVE  j <= i
  <2>1. CASE i = Len(s) + 1
    BY <1>1, <2>1 DEF w
  <2>2. CASE i \in 1..Len(s) /\ j \in 1..Len(s)
    BY <1>1, <1>2, <2>2 DEF OutcomeLast, w
  <2>3. CASE i \in 1..Len(s) /\ j = Len(s) + 1
    BY <1>1, <1>2, <2>3 DEF w
  <2>4. /\ i \in 1..Len(s) \/ i = Len(s) + 1
        /\ j \in 1..Len(s) \/ j = Len(s) + 1
    BY <1>1 DEF w
  <2>. QED BY <2>1, <2>2, <2>3, <2>4
<1>. QED BY <1>2 DEF OutcomeLast, w

\* What is left of a commit still ends with the outcome.
LEMMA EndsWithOutcomeTail ==
  ASSUME NEW s \in Seq(Kind), s # <<>>, EndsWithOutcome(s)
  PROVE  /\ EndsWithOutcome(Tail(s))
         /\ Tail(s) # <<>> => Head(s) # "outcome"
<1>1. /\ Len(s) \in Nat /\ Len(s) > 0 /\ Head(s) = s[1]
      /\ Tail(s) \in Seq(Kind) /\ Len(Tail(s)) = Len(s) - 1
      /\ DOMAIN s = 1..Len(s) /\ DOMAIN Tail(s) = 1..Len(s) - 1
      /\ \A i \in 1..Len(s) - 1 : Tail(s)[i] = s[i + 1]
  OBVIOUS
<1>2. EndsWithOutcome(Tail(s))
  <2>. SUFFICES ASSUME NEW i \in DOMAIN Tail(s)
                PROVE  Tail(s)[i] = "outcome" <=> i = Len(Tail(s))
    BY DEF EndsWithOutcome
  <2>1. i + 1 \in DOMAIN s /\ Tail(s)[i] = s[i + 1]
    BY <1>1
  <2>. QED BY <1>1, <2>1 DEF EndsWithOutcome
<1>3. Tail(s) # <<>> => Len(s) # 1
  BY <1>1
<1>. QED BY <1>1, <1>2, <1>3 DEF EndsWithOutcome

\* Nothing is written at first.
LEMMA WrittenInit == Init => WrittenInOrder
BY DEF Init, WrittenInOrder, OutcomeLast, Evaluated

\* A step that leaves the ledger alone and starts no commit.
LEMMA WrittenQuiet ==
  ASSUME WrittenInOrder, UNCHANGED <<evals, ledger>>,
         LedgerMode = "strict" =>
           \A t \in Evaluated : fate'[t] = "answered" => fate[t] = "answered" \/ Committed(t),
         \/ UNCHANGED <<pc, cur, todo>>
         \/ pc' \in {"idle", "gate", "down"}
         \/ /\ pc' \in {"publish", "send", "flush", "save"} /\ cur' = cur
            /\ LedgerMode = "strict" \/ pc \in {"publish", "send", "flush", "save"}
  PROVE  WrittenInOrder'
<1>1. Evaluated' = Evaluated /\ \A t : Committed(t)' = Committed(t)
  BY DEF Evaluated, Committed, DecisionOf
<1>2. LedgerMode = "strict" /\ LedgerDurable =>
        \A t \in Evaluated : fate'[t] = "answered" => Committed(t)
  BY DEF WrittenInOrder
<1>. QED BY <1>1, <1>2 DEF WrittenInOrder

\* A new evaluation: its ledger is empty and its commit has all to write.
LEMMA WrittenEvaluate ==
  ASSUME TypeInv, Safe, WrittenInOrder,
         NEW k \in Key \cup {NoKey}, NEW d \in Decision, Evaluate(k, d)
  PROVE  WrittenInOrder'
<1>. DEFINE n == Len(evals) + 1
<1>1. /\ n \in Trace /\ n \notin Evaluated /\ cur' = n
      /\ Evaluated' = Evaluated \cup {n}
      /\ \A t \in Evaluated : t < n /\ t \in Trace /\ evals'[t] = evals[t]
      /\ pc' \in {"commit", "publish", "save"}
      /\ fate'[n] = "running"
      /\ \A t \in Trace : t # n => fate'[t] = fate[t]
  BY Opened
<1>2. ledger' = ledger /\ ledger[n] = <<>> /\ Range(ledger[n]) = {}
  BY <1>1, RangeEmpty DEF Evaluate, Safe, CommitLosesNothing
<1>3. pc' = "commit" => todo' = BuildEvents(d) /\ LedgerMode = "strict"
  BY Domains DEF Evaluate
<1>4. pc' = "commit" => EndsWithOutcome(todo')
  BY <1>3, BuildEventsOutcome
<1>5. ASSUME LedgerMode = "strict", LedgerDurable, NEW t \in Evaluated', fate'[t] = "answered"
      PROVE  Committed(t)'
  <2>1. t \in Evaluated /\ t # n /\ evals'[t] = evals[t] /\ fate[t] = "answered"
    BY <1>1, <1>5
  <2>. QED BY <1>2, <1>5, <2>1 DEF WrittenInOrder, Committed, DecisionOf
<1>. QED BY <1>1, <1>2, <1>3, <1>4, <1>5 DEF WrittenInOrder

\* Parallel mode starts its commit once the trace is saved.
LEMMA WrittenSave ==
  ASSUME TypeInv, Kept, Settled, WrittenInOrder, Save
  PROVE  WrittenInOrder'
<1>1. /\ UNCHANGED <<evals, ledger>> /\ pc = "save" /\ pc \in Evaluating
  BY Domains DEF Save
<1>2. /\ cur \in Trace /\ DecisionOf(cur) \in Decision
      /\ LedgerMode = "strict" => Committed(cur)
  BY <1>1, CurrentTrace DEF Settled, Progress
<1>3. CASE LedgerMode # "parallel"
  <2>1. /\ pc' = "idle"
        /\ \A t \in Trace : t # cur => fate'[t] = fate[t]
    BY <1>2, <1>3 DEF Save, Answer, BackToLoop, TypeInv, TypeOK
  <2>. QED BY <1>1, <1>2, <2>1, EvaluatedType, WrittenQuiet
<1>4. CASE LedgerMode = "parallel"
  <2>1. /\ pc' = "record" /\ cur' = cur /\ fate' = fate
        /\ todo' = BuildEvents(DecisionOf(cur))
    BY <1>4 DEF Save
  <2>2. EndsWithOutcome(todo') /\ "outcome" \notin Range(ledger[cur])
    BY <1>1, <1>2, <1>4, <2>1, BuildEventsOutcome, RangeEmpty DEF WrittenInOrder
  <2>. QED BY <1>1, <1>4, <2>1, <2>2 DEF WrittenInOrder
<1>. QED BY <1>3, <1>4

\* The ledger client appends the events of a commit in order, and the answer
\* of a gate after them.
LEMMA WrittenLedger ==
  ASSUME TypeInv, Safe, Resolved, WrittenInOrder,
         AppendEvent \/ AppendInvalid \/ AppendRaises
  PROVE  WrittenInOrder'
<1>. USE DEF historyVars, storeVars, handoffVars
<1>. DEFINE e == Head(todo)
<1>1. /\ cur \in Trace /\ todo \in Seq(Kind) /\ todo # <<>>
      /\ e \in Kind /\ e \in Range(todo) /\ ledger[cur] \in Seq(Kind)
      /\ pc \in {"commit", "record", "gate"} /\ evals' = evals
  BY LedgerGains, RangeTail DEF AppendEvent, AppendInvalid, AppendRaises, Appending,
     TypeInv, TypeOK
<1>2. /\ \A t \in Trace : t # cur => ledger'[t] = ledger[t]
      /\ ledger'[cur] \in {ledger[cur], Append(ledger[cur], e)}
  BY <1>1 DEF AppendEvent, AppendInvalid, AppendRaises, TypeInv, TypeOK
<1>3. "outcome" \in Range(ledger[cur]) => StepType[e] # "outcome"
  <2>1. CASE pc = "gate"
    <3>1. e \in Answers
      BY <1>1, <2>1 DEF Resolved, OnlyGatesAnswer, Answers, AnswerOf
    <3>. QED BY <3>1 DEF Answers, StepType
  <2>2. CASE pc # "gate"
    BY <1>1, <2>2 DEF WrittenInOrder
  <2>. QED BY <2>1, <2>2
<1>4. \A t \in Trace : OutcomeLast(ledger'[t])
  BY <1>1, <1>2, <1>3, OutcomeLastAppend DEF WrittenInOrder
<1>5. ASSUME LedgerMode = "strict", LedgerDurable, NEW t \in Evaluated', fate'[t] = "answered"
      PROVE  Committed(t)'
  <2>1. t \in Evaluated /\ t \in Trace /\ Range(ledger[t]) \subseteq Range(ledger'[t])
    BY <1>1, EvaluatedType, LedgerGrows DEF Evaluated
  <2>2. pc # "record" => fate[t] = "answered"
    <3>1. pc = "commit" => cur \in Trace
      BY <1>1
    <3>. QED BY <1>1, <1>5, <2>1, <3>1
             DEF AppendEvent, AppendInvalid, AppendRaises, CommitRaises, RecordRaises,
                 GateRaises, Raise, TypeInv, TypeOK
  <2>3. pc # "record"
    BY <1>5 DEF WrittenInOrder
  <2>. QED BY <1>1, <1>5, <2>1, <2>2, <2>3 DEF WrittenInOrder, Committed, DecisionOf
<1>6. CASE AppendRaises
  <2>1. pc' = "idle"
    BY <1>6 DEF AppendRaises, CommitRaises, RecordRaises, GateRaises, Raise, Answer,
                BackToLoop
  <2>. QED BY <1>4, <1>5, <2>1 DEF WrittenInOrder
<1>7. CASE AppendEvent \/ AppendInvalid
  <2>1. UNCHANGED <<pc, cur>> /\ todo' = Tail(todo)
    BY <1>7 DEF AppendEvent, AppendInvalid
  <2>2. ASSUME pc \in {"commit", "record"}
        PROVE  /\ EndsWithOutcome(todo')
               /\ todo' # <<>> => "outcome" \notin Range(ledger'[cur])
    <3>1. /\ EndsWithOutcome(Tail(todo))
          /\ Tail(todo) # <<>> => e # "outcome"
      BY <1>1, <2>2, EndsWithOutcomeTail DEF WrittenInOrder
    <3>2. Range(ledger'[cur]) \subseteq Range(ledger[cur]) \cup {e}
      BY <1>7, LedgerGains
    <3>. QED BY <1>1, <2>1, <2>2, <3>1, <3>2 DEF WrittenInOrder
  <2>. QED BY <1>1, <1>4, <1>5, <2>1, <2>2 DEF WrittenInOrder
<1>. QED BY <1>6, <1>7

\* A crash loses a ledger in memory and ends the running commit.
LEMMA WrittenCrash ==
  ASSUME TypeInv, WrittenInOrder, Crash
  PROVE  WrittenInOrder'
<1>1. /\ evals' = evals /\ pc' = "down" /\ (LedgerDurable => ledger' = ledger)
      /\ ledger' = ledger \/ \A t \in Trace : ledger'[t] = <<>>
  BY DEF Crash, SurvivingLedger
<1>2. \A t \in Trace : OutcomeLast(ledger'[t])
  <2>1. OutcomeLast(<<>>)
    BY DEF OutcomeLast
  <2>. QED BY <1>1, <2>1 DEF WrittenInOrder
<1>3. \A t \in Trace : fate'[t] = "answered" => fate[t] = "answered"
  <2>1. CASE pc \in Evaluating
    BY <2>1, CurrentTrace DEF Crash, TypeInv, TypeOK
  <2>2. CASE pc \notin Evaluating
    BY <2>2 DEF Crash
  <2>. QED BY <2>1, <2>2
<1>4. LedgerMode = "strict" /\ LedgerDurable =>
        \A t \in Evaluated : fate'[t] = "answered" => Committed(t)'
  BY <1>1, <1>3, EvaluatedType DEF WrittenInOrder, Committed, DecisionOf
<1>. QED BY <1>1, <1>2, <1>4 DEF WrittenInOrder, Evaluated

\* Every step writes in order.
LEMMA WrittenStep ==
  TypeInv /\ Safe /\ Resolved /\ Kept /\ Settled /\ WrittenInOrder /\ [Next]_vars =>
    WrittenInOrder'
<1>. SUFFICES ASSUME TypeInv, Safe, Resolved, Kept, Settled, WrittenInOrder, [Next]_vars
              PROVE  WrittenInOrder'
  OBVIOUS
<1>. USE DEF handlerVars, historyVars, storeVars, handoffVars
<1>1. CASE Request
  BY <1>1, WrittenEvaluate, KeyAssumption DEF Request
<1>2. CASE AppendEvent \/ AppendInvalid \/ AppendRaises
  BY <1>2, WrittenLedger
<1>3. CASE Save \/ Crash
  BY <1>3, WrittenSave, WrittenCrash
<1>4. CASE UNCHANGED vars \/ BrokerAck \/ BrokerDrop
  <2>1. UNCHANGED <<evals, ledger, fate, pc, cur, todo>>
    BY <1>4 DEF vars, BrokerAck, BrokerDrop
  <2>. QED BY <2>1, WrittenQuiet
<1>5. CASE CommitAccepted
  <2>1. UNCHANGED <<evals, ledger, fate, cur>> /\ pc' \in {"publish", "save"}
    BY <1>5, CurrentTrace, Domains DEF CommitAccepted, GoTo
  <2>2. /\ pc = "commit" /\ todo = <<>>
        /\ "invalid" \notin seen
    BY <1>5 DEF CommitAccepted, CommitStatus
  <2>3. CASE LedgerMode = "strict"
    BY <2>1, <2>3, WrittenQuiet
  <2>4. CASE LedgerMode # "strict"
    <3>1. FALSE
      BY <2>2, <2>4 DEF WrittenInOrder
    <3>. QED BY <3>1
  <2>. QED BY <2>3, <2>4
<1>6. CASE BusPublish \/ KafkaSend \/ KafkaFlush
  <2>1. /\ UNCHANGED <<evals, ledger, fate, cur>> /\ pc' \in {"send", "flush", "save"}
        /\ pc \in {"publish", "send", "flush"}
    BY <1>6 DEF BusPublish, KafkaSend, KafkaFlush, GoTo
  <2>. QED BY <2>1, WrittenQuiet
<1>7. CASE Review
  <2>1. UNCHANGED <<evals, ledger, fate>> /\ pc' \in {"idle", "gate"}
    BY <1>7 DEF Review, Approve, Reject, ResolveGate
  <2>. QED BY <2>1, WrittenQuiet
<1>8. CASE \/ CommitRefused \/ BusPublishRaises \/ KafkaSendRaises \/ KafkaFlushRaises
           \/ Recorded \/ GateDone \/ Restart
  <2>1. UNCHANGED <<evals, ledger>> /\ pc' = "idle"
    BY <1>8 DEF CommitRefused, BusPublishRaises, KafkaSendRaises, KafkaFlushRaises,
                Recorded, GateDone, Restart, GoTo, Raise, Answer, BackToLoop
  <2>2. LedgerMode = "strict" =>
          \A t \in Trace : fate'[t] = "answered" => fate[t] = "answered"
    BY <1>8, CurrentTrace, Domains
       DEF CommitRefused, BusPublishRaises, KafkaSendRaises, KafkaFlushRaises,
           Recorded, GateDone, Restart, Raise, Answer, WrittenInOrder, TypeInv, TypeOK
  <2>. QED BY <2>1, <2>2, EvaluatedType, WrittenQuiet
<1>. QED BY <1>1, <1>2, <1>3, <1>4, <1>5, <1>6, <1>7, <1>8
         DEF Next, HandlerStep, HandlerFault

\* The strengthening holds in every behaviour.
LEMMA WrittenAlways ==
  Spec => [](TypeInv /\ Safe /\ Resolved /\ Kept /\ Settled /\ WrittenInOrder)
<1>1. Init => TypeInv /\ Safe /\ Resolved /\ Kept /\ Settled /\ WrittenInOrder
  BY TypeInit, SafeInit, ResolvedInit, KeptInit, SettledInit, WrittenInit
<1>2. /\ TypeInv /\ Safe /\ Resolved /\ Kept /\ Settled /\ WrittenInOrder
      /\ [Next]_vars
      => (TypeInv /\ Safe /\ Resolved /\ Kept /\ Settled /\ WrittenInOrder)'
  BY TypeStep, SafeStep, ResolvedStep, KeptStep, SettledStep, WrittenStep
<1>. QED BY <1>1, <1>2, PTL DEF Spec

\* A ledger that has the outcome event is read back as the decision it was
\* written for, whatever came after it (LedgerProjector.project).
LEMMA ReadBack ==
  ASSUME NEW s \in Seq(Kind), NEW d \in Decision, OutcomeLast(s), "outcome" \in Range(s)
  PROVE  Project(s, d) = [state |-> "completed", status |-> StatusOf(d)]
<1>. DEFINE outcomes == {i \in DOMAIN s : StepType[s[i]] = "outcome"}
            last == CHOOSE i \in outcomes : \A j \in outcomes : j <= i
<1>1. PICK n \in DOMAIN s : s[n] = "outcome"
  BY DEF Range
<1>2. StepType["outcome"] = "outcome" /\ DOMAIN s = 1..Len(s) /\ Len(s) \in Nat
  BY DEF StepType
<1>3. n \in outcomes /\ \A j \in outcomes : j <= n
  BY <1>1, <1>2 DEF OutcomeLast
<1>4. last \in outcomes /\ \A j \in outcomes : j <= last
  BY <1>3
<1>. HIDE DEF last
<1>5. last = n
  BY <1>2, <1>3, <1>4
<1>. USE DEF last
<1>6. Project(s, d) = [state |-> "completed",
                       status |-> IF s[last] = "outcome" THEN StatusOf(d) ELSE "confirmed"]
  BY <1>3 DEF Project
<1>. HIDE DEF last
<1>. QED BY <1>1, <1>5, <1>6

\* What the projector rebuilds from a ledger with an outcome is the decision
\* that was made, in every mode and at every point of the pipeline.
THEOREM LedgerReadsBack == Spec => []ProjectionAgrees
<1>1. TypeInv /\ WrittenInOrder => ProjectionAgrees
  <2>. SUFFICES ASSUME TypeInv, WrittenInOrder,
                       NEW t \in Evaluated, "outcome" \in Range(ledger[t])
                PROVE  Project(ledger[t], DecisionOf(t)) =
                         [state |-> "completed", status |-> StatusOf(DecisionOf(t))]
    BY DEF ProjectionAgrees
  <2>1. t \in Trace /\ ledger[t] \in Seq(Kind)
    BY EvaluatedType DEF TypeInv, TypeOK
  <2>2. DecisionOf(t) \in Decision
    <3>1. t \in 1..Len(evals) /\ evals \in Seq(Evaluation)
      BY DEF Evaluated, TypeInv, TypeOK
    <3>2. evals[t] \in Evaluation
      BY <3>1
    <3>. QED BY <3>2 DEF DecisionOf, Evaluation
  <2>. QED BY <2>1, <2>2, ReadBack DEF WrittenInOrder
<1>. QED BY <1>1, WrittenAlways, PTL

\* What a client of strict mode was answered is what the ledger is read back
\* as, after any number of crashes (engine.evaluate, GET /traces/{id}).
THEOREM StrictAnswerSurvives == Spec => []StrictAnswerIsDurable
<1>1. TypeInv /\ WrittenInOrder /\ ProjectionAgrees => StrictAnswerIsDurable
  <2>. SUFFICES ASSUME TypeInv, WrittenInOrder, ProjectionAgrees,
                       LedgerMode = "strict", LedgerDurable,
                       NEW t \in Evaluated, fate[t] = "answered"
                PROVE  Project(ledger[t], DecisionOf(t)) =
                         [state |-> "completed", status |-> StatusOf(DecisionOf(t))]
    BY DEF StrictAnswerIsDurable
  <2>1. DecisionOf(t) \in Decision
    <3>1. t \in 1..Len(evals) /\ evals \in Seq(Evaluation)
      BY DEF Evaluated, TypeInv, TypeOK
    <3>2. evals[t] \in Evaluation
      BY <3>1
    <3>. QED BY <3>2 DEF DecisionOf, Evaluation
  <2>2. "outcome" \in Range(ledger[t])
    BY <2>1, BuildEventsOutcome DEF WrittenInOrder, Committed
  <2>. QED BY <2>2 DEF ProjectionAgrees
<1>. QED BY <1>1, LedgerReadsBack, WrittenAlways, PTL

\* A durable ledger only grows, event by event, and once its request has ended
\* a trace gets nothing but the resolution of its gate (commit,
\* append_human_gate_event).
THEOREM LedgerOnlyGrows == Spec => LedgerAppendOnly
<1>1. TypeInv /\ Resolved /\ Kept /\ [Next]_vars =>
        [LedgerDurable =>
           \A t \in Trace : ledger'[t] # ledger[t] =>
             \E k \in Kind :
               /\ ledger'[t] = Append(ledger[t], k)
               /\ k \in {"approve", "reject"} <=> fate[t] # "running"]_vars
  <2>. SUFFICES ASSUME TypeInv, Resolved, Kept, Next, LedgerDurable,
                       NEW t \in Trace, ledger'[t] # ledger[t]
                PROVE  \E k \in Kind :
                         /\ ledger'[t] = Append(ledger[t], k)
                         /\ k \in {"approve", "reject"} <=> fate[t] # "running"
    OBVIOUS
  <2>1. AppendEvent \/ AppendInvalid \/ AppendRaises
    BY DEF Next, HandlerStep, HandlerFault, Request, Evaluate, Review, Approve, Reject,
           ResolveGate, CommitAccepted, CommitRefused, BusPublish, BusPublishRaises,
           KafkaSend, KafkaSendRaises, KafkaFlush, KafkaFlushRaises, Save, Recorded,
           GateDone, BrokerAck, BrokerDrop, Crash, SurvivingLedger, Restart
  <2>2. /\ cur \in Trace /\ todo \in Seq(Kind) /\ todo # <<>> /\ Head(todo) \in Range(todo)
        /\ Head(todo) \in Kind /\ pc \in {"commit", "record", "gate"}
    BY <2>1, LedgerGains, RangeTail
       DEF AppendEvent, AppendInvalid, AppendRaises, Appending, TypeInv, TypeOK
  <2>3. t = cur /\ ledger'[t] = Append(ledger[t], Head(todo))
    BY <2>1, <2>2 DEF AppendEvent, AppendInvalid, AppendRaises, TypeInv, TypeOK
  <2>4. Head(todo) \in {"approve", "reject"} <=> pc = "gate"
    BY <2>2 DEF Resolved, OnlyGatesAnswer, Answers, AnswerOf
  <2>5. fate[cur] = "running" <=> pc # "gate"
    BY <2>2, Domains DEF Kept, RequestsEnd, Running
  <2>. QED BY <2>2, <2>3, <2>4, <2>5
<1>. QED BY <1>1, WrittenAlways, PTL DEF Spec, LedgerAppendOnly

-----------------------------------------------------------------------------
(* No holes.                                                               *)

\* A ledger that is what the evaluation writes, up to some point, and then at
\* most one answer.
Follows(s, all) ==
  LET n == Len(s)
      m == IF n > 0 /\ s[n] \in Answers THEN n - 1 ELSE n
  IN  m <= Len(all) /\ \A i \in 1..m : s[i] = all[i]

\* What a commit has appended and what it has still to append make up all it
\* writes, if no event is refused.
NothingMissing ==
  "invalid" \notin AppendFaults =>
    /\ pc \in {"commit", "record"} => ledger[cur] \o todo = BuildEvents(DecisionOf(cur))
    /\ \A t \in Evaluated : Follows(ledger[t], BuildEvents(DecisionOf(t)))

Distinct(s) == \A i, j \in 1..Len(s) : s[i] = s[j] => i = j

\* A new event at the end, or none, leaves the events distinct.
LEMMA DistinctStep ==
  ASSUME NEW s \in Seq(Kind), Distinct(s), NEW e \in Kind, e \notin Range(s),
         NEW u, u = <<>> \/ u = <<e>>
  PROVE  /\ s \o u \in Seq(Kind) /\ Distinct(s \o u)
         /\ Range(s \o u) \subseteq Range(s) \cup {e}
<1>1. CASE u = <<>>
  BY <1>1, ConcatEmptySeq
<1>2. CASE u = <<e>>
  <2>1. s \o u = Append(s, e)
    BY <1>2
  <2>2. /\ Append(s, e) \in Seq(Kind) /\ Len(s) \in Nat /\ Len(Append(s, e)) = Len(s) + 1
        /\ \A i \in 1..Len(s) : Append(s, e)[i] = s[i] /\ s[i] # e
        /\ Append(s, e)[Len(s) + 1] = e
    BY RangeType
  <2>3. Distinct(Append(s, e))
    BY <2>2 DEF Distinct
  <2>. QED BY <2>1, <2>2, <2>3, RangeAppend
<1>. QED BY <1>1, <1>2

\* No evaluation writes an event twice.
LEMMA BuildEventsDistinct ==
  ASSUME NEW d \in Decision
  PROVE  Distinct(BuildEvents(d))
<1>. DEFINE a == IF d.matched THEN <<>> ELSE <<"fallback">>
            b == IF d.effect = "none" THEN <<>> ELSE <<"boundary">>
            c == IF StatusOf(d) = "pending_human" THEN <<"human">> ELSE <<>>
            w == <<"signal", "decision">>
<1>1. /\ a = <<>> \/ a = <<"fallback">>
      /\ b = <<>> \/ b = <<"boundary">>
      /\ c = <<>> \/ c = <<"human">>
  BY Zenon
<1>2. BuildEvents(d) = (((w \o a) \o b) \o c) \o <<"outcome">>
  BY DEF BuildEvents
<1>. HIDE DEF a, b, c
<1>3. w \in Seq(Kind) /\ Distinct(w) /\ Range(w) \subseteq {"signal", "decision"}
  BY DEF Kind, Distinct, Range
<1>. HIDE DEF w
<1>4. /\ w \o a \in Seq(Kind) /\ Distinct(w \o a)
      /\ Range(w \o a) \subseteq {"signal", "decision", "fallback"}
  <2>1. "fallback" \in Kind /\ "fallback" \notin Range(w)
    BY <1>3 DEF Kind
  <2>. QED BY <1>1, <1>3, <2>1, DistinctStep
<1>5. /\ (w \o a) \o b \in Seq(Kind) /\ Distinct((w \o a) \o b)
      /\ Range((w \o a) \o b) \subseteq {"signal", "decision", "fallback", "boundary"}
  <2>1. "boundary" \in Kind /\ "boundary" \notin Range(w \o a)
    BY <1>4 DEF Kind
  <2>. QED BY <1>1, <1>4, <2>1, DistinctStep
<1>6. /\ ((w \o a) \o b) \o c \in Seq(Kind) /\ Distinct(((w \o a) \o b) \o c)
      /\ Range(((w \o a) \o b) \o c)
           \subseteq {"signal", "decision", "fallback", "boundary", "human"}
  <2>1. "human" \in Kind /\ "human" \notin Range((w \o a) \o b)
    BY <1>5 DEF Kind
  <2>. QED BY <1>1, <1>5, <2>1, DistinctStep
<1>7. "outcome" \in Kind /\ "outcome" \notin Range(((w \o a) \o b) \o c)
  BY <1>6 DEF Kind
<1>8. PICK u : u = <<"outcome">>
  OBVIOUS
<1>9. Distinct((((w \o a) \o b) \o c) \o u)
  BY <1>6, <1>7, <1>8, DistinctStep
<1>. QED BY <1>2, <1>8, <1>9

\* Moving the first event to append to the end of the ledger changes nothing
\* of the two together, and it is where the whole has it.
LEMMA AppendMoves ==
  ASSUME NEW s \in Seq(Kind), NEW u \in Seq(Kind), u # <<>>
  PROVE  /\ Append(s, Head(u)) \o Tail(u) = s \o u
         /\ Len(s) < Len(s \o u) /\ Len(s) + 1 \in 1..Len(s \o u)
         /\ (s \o u)[Len(s) + 1] = Head(u)
         /\ \A i \in 1..Len(s) : i \in 1..Len(s \o u) /\ (s \o u)[i] = s[i]
<1>1. /\ Len(s) \in Nat /\ Len(u) \in Nat /\ Len(u) > 0 /\ Head(u) = u[1]
      /\ Head(u) \in Kind /\ Tail(u) \in Seq(Kind) /\ Len(Tail(u)) = Len(u) - 1
      /\ \A i \in 1..Len(u) - 1 : Tail(u)[i] = u[i + 1]
  OBVIOUS
<1>. DEFINE a == Append(s, Head(u))
<1>2. /\ a \in Seq(Kind) /\ Len(a) = Len(s) + 1 /\ a[Len(s) + 1] = Head(u)
      /\ \A i \in 1..Len(s) : a[i] = s[i]
  BY <1>1
<1>. HIDE DEF a
<1>3. /\ s \o u \in Seq(Kind) /\ Len(s \o u) = Len(s) + Len(u)
      /\ \A i \in 1..Len(s) : (s \o u)[i] = s[i]
      /\ \A i \in 1..Len(u) : (s \o u)[Len(s) + i] = u[i]
  BY <1>1
<1>4. /\ a \o Tail(u) \in Seq(Kind) /\ Len(a \o Tail(u)) = Len(s) + Len(u)
      /\ \A i \in 1..Len(a) : (a \o Tail(u))[i] = a[i]
      /\ \A i \in 1..Len(u) - 1 : (a \o Tail(u))[Len(a) + i] = Tail(u)[i]
  BY <1>1, <1>2
<1>5. ASSUME NEW i \in 1..Len(s \o u)
      PROVE  (a \o Tail(u))[i] = (s \o u)[i]
  <2>1. CASE i \in 1..Len(s)
    BY <1>1, <1>2, <1>3, <1>4, <2>1
  <2>2. CASE i = Len(s) + 1
    <3>1. (s \o u)[Len(s) + 1] = u[1]
      BY <1>1, <1>3
    <3>2. (a \o Tail(u))[Len(s) + 1] = a[Len(s) + 1]
      BY <1>1, <1>2, <1>4
    <3>. QED BY <1>1, <1>2, <2>2, <3>1, <3>2
  <2>3. CASE i > Len(s) + 1
    <3>1. i - Len(s) \in 1..Len(u) /\ i - Len(s) - 1 \in 1..Len(u) - 1
      BY <1>1, <1>3, <2>3
    <3>2. (s \o u)[Len(s) + (i - Len(s))] = u[i - Len(s)]
      BY <1>3, <3>1
    <3>3. (a \o Tail(u))[Len(a) + (i - Len(s) - 1)] = Tail(u)[i - Len(s) - 1]
      BY <1>4, <3>1
    <3>4. Tail(u)[i - Len(s) - 1] = u[i - Len(s)]
      <4>1. (i - Len(s) - 1) + 1 = i - Len(s)
        BY <1>1
      <4>. QED BY <1>1, <3>1, <4>1
    <3>5. Len(s) + (i - Len(s)) = i /\ Len(a) + (i - Len(s) - 1) = i
      BY <1>1, <1>2
    <3>. QED BY <3>2, <3>3, <3>4, <3>5
  <2>4. i \in 1..Len(s) \/ i = Len(s) + 1 \/ i > Len(s) + 1
    BY <1>1, <1>3
  <2>. QED BY <2>1, <2>2, <2>3, <2>4
<1>6. a \o Tail(u) = s \o u
  BY <1>3, <1>4, <1>5, SeqEqual
<1>7. (s \o u)[Len(s) + 1] = Head(u)
  BY <1>1, <1>3
<1>. QED BY <1>1, <1>3, <1>6, <1>7 DEF a

\* Of distinct events the next one is not among those that came before.
LEMMA DistinctNext ==
  ASSUME NEW s \in Seq(Kind), NEW all, Distinct(all), Len(s) + 1 \in 1..Len(all),
         \A i \in 1..Len(s) : i \in 1..Len(all) /\ all[i] = s[i]
  PROVE  all[Len(s) + 1] \notin Range(s)
<1>1. DOMAIN s = 1..Len(s) /\ Len(s) \in Nat
  OBVIOUS
<1>2. ASSUME NEW i \in 1..Len(s)
      PROVE  s[i] # all[Len(s) + 1]
  <2>1. i # Len(s) + 1
    BY <1>1
  <2>. QED BY <2>1 DEF Distinct
<1>. QED BY <1>1, <1>2 DEF Range

\* Nothing is missing at first.
LEMMA NothingMissingInit == Init => NothingMissing
BY DEF Init, NothingMissing, Evaluated

\* A step that leaves the ledger alone and starts no commit.
LEMMA NothingMissingQuiet ==
  ASSUME NothingMissing, UNCHANGED <<evals, ledger>>,
         pc' \in {"commit", "record"} => UNCHANGED <<pc, cur, todo>>
  PROVE  NothingMissing'
<1>1. Evaluated' = Evaluated /\ \A t : DecisionOf(t)' = DecisionOf(t)
  BY DEF Evaluated, DecisionOf
<1>2. pc' \in {"commit", "record"} => DecisionOf(cur)' = DecisionOf(cur)
  BY DEF DecisionOf
<1>. QED BY <1>1, <1>2 DEF NothingMissing

\* A commit that begins has everything to write and nothing written.
LEMMA NothingMissingBegin ==
  ASSUME TypeInv, Safe, Kept, WrittenInOrder, NothingMissing,
         \/ Save
         \/ \E k \in Key \cup {NoKey}, d \in Decision : Evaluate(k, d)
  PROVE  NothingMissing'
<1>1. \A d \in Decision : <<>> \o BuildEvents(d) = BuildEvents(d)
  BY BuildEventsType, ConcatEmptySeq
<1>2. CASE Save
  <2>1. /\ UNCHANGED <<evals, ledger>> /\ pc = "save" /\ pc \in Evaluating
        /\ pc' \in {"idle", "record"}
    BY <1>2, Domains DEF Save, Answer, BackToLoop
  <2>2. CASE LedgerMode # "parallel"
    <3>1. pc' = "idle"
      BY <1>2, <2>2 DEF Save, Answer, BackToLoop
    <3>. QED BY <2>1, <3>1, NothingMissingQuiet
  <2>3. CASE LedgerMode = "parallel"
    <3>1. todo' = BuildEvents(DecisionOf(cur)) /\ cur' = cur
      BY <1>2, <2>3 DEF Save
    <3>2. ledger[cur] = <<>> /\ DecisionOf(cur) \in Decision
      BY <2>1, <2>3, CurrentTrace DEF WrittenInOrder
    <3>3. /\ Evaluated' = Evaluated /\ \A t : DecisionOf(t)' = DecisionOf(t)
          /\ DecisionOf(cur)' = DecisionOf(cur)
      BY <2>1, <3>1 DEF Evaluated, DecisionOf
    <3>. QED BY <1>1, <2>1, <3>1, <3>2, <3>3 DEF NothingMissing
  <2>. QED BY <2>2, <2>3
<1>3. ASSUME NEW k \in Key \cup {NoKey}, NEW d \in Decision, Evaluate(k, d)
      PROVE  NothingMissing'
  <2>. DEFINE n == Len(evals) + 1
  <2>1. /\ n \in Trace /\ n \notin Evaluated /\ cur' = n
        /\ Evaluated' = Evaluated \cup {n}
        /\ \A t \in Evaluated : t < n /\ t \in Trace /\ evals'[t] = evals[t]
        /\ evals'[n] = [key |-> k, decision |-> d, life |-> crashes]
        /\ pc' \in {"commit", "publish", "save"}
    BY <1>3, Opened
  <2>2. ledger' = ledger /\ ledger[n] = <<>>
    BY <1>3, <2>1 DEF Evaluate, Safe, CommitLosesNothing
  <2>3. pc' = "commit" => todo' = BuildEvents(d)
    BY <1>3, Domains DEF Evaluate
  <2>4. ASSUME NEW t \in Evaluated', "invalid" \notin AppendFaults
        PROVE  Follows(ledger'[t], BuildEvents(evals'[t].decision))
    <3>1. CASE t = n
      <4>1. BuildEvents(d) \in Seq(Kind)
        BY BuildEventsType
      <4>. QED BY <2>1, <2>2, <3>1, <4>1 DEF Follows
    <3>2. CASE t \in Evaluated
      BY <2>1, <2>2, <2>4, <3>2 DEF NothingMissing, DecisionOf
    <3>. QED BY <2>1, <3>1, <3>2
  <2>. QED BY <1>1, <2>1, <2>2, <2>3, <2>4 DEF NothingMissing, DecisionOf
<1>. QED BY <1>2, <1>3

\* The next event of a commit continues what is there, and an answer ends it.
LEMMA NothingMissingLedger ==
  ASSUME TypeInv, Safe, Resolved, Kept, NothingMissing,
         AppendEvent \/ AppendInvalid \/ AppendRaises
  PROVE  NothingMissing'
<1>. SUFFICES ASSUME "invalid" \notin AppendFaults
              PROVE  NothingMissing'
  BY DEF NothingMissing
<1>. USE DEF historyVars, storeVars, handoffVars
<1>. DEFINE e == Head(todo)
            all == BuildEvents(DecisionOf(cur))
<1>1. /\ cur \in Trace /\ todo \in Seq(Kind) /\ todo # <<>>
      /\ e \in Kind /\ e \in Range(todo) /\ ledger[cur] \in Seq(Kind)
      /\ pc \in {"commit", "record", "gate"} /\ evals' = evals
      /\ AppendEvent \/ AppendRaises
  BY LedgerGains, RangeTail DEF AppendEvent, AppendInvalid, AppendRaises, Appending,
     TypeInv, TypeOK
<1>2. /\ Evaluated' = Evaluated /\ Evaluated \subseteq Trace
      /\ \A t : DecisionOf(t)' = DecisionOf(t)
  BY <1>1, EvaluatedType DEF Evaluated, DecisionOf
<1>3. /\ \A t \in Trace : t # cur => ledger'[t] = ledger[t]
      /\ \/ ledger'[cur] = ledger[cur]
         \/ ~LedgerHas(cur, e) /\ ledger'[cur] = Append(ledger[cur], e)
      /\ AppendEvent =>
           ledger'[cur] = IF LedgerHas(cur, e) THEN ledger[cur] ELSE Append(ledger[cur], e)
  BY <1>1 DEF AppendEvent, AppendRaises, TypeInv, TypeOK
<1>4. LedgerHas(cur, e) <=> e \in Range(ledger[cur])
  BY DEF LedgerHas, EventId
<1>5. ASSUME pc \in {"commit", "record"}
      PROVE  /\ e \notin Range(ledger[cur]) /\ e \notin Answers
             /\ DecisionOf(cur) \in Decision
             /\ Len(ledger[cur]) + 1 \in 1..Len(all)
             /\ all[Len(ledger[cur]) + 1] = e
             /\ \A i \in 1..Len(ledger[cur]) : all[i] = ledger[cur][i]
             /\ Append(ledger[cur], e) \o Tail(todo) = all
  <2>1. /\ DecisionOf(cur) \in Decision /\ ledger[cur] \o todo = all
    BY <1>5, CurrentTrace, Domains DEF NothingMissing
  <2>2. /\ Append(ledger[cur], e) \o Tail(todo) = all
        /\ Len(ledger[cur]) + 1 \in 1..Len(all) /\ Len(ledger[cur]) \in Nat
        /\ all[Len(ledger[cur]) + 1] = e
        /\ \A i \in 1..Len(ledger[cur]) : i \in 1..Len(all) /\ all[i] = ledger[cur][i]
    BY <1>1, <2>1, AppendMoves
  <2>3. Distinct(all)
    BY <2>1, BuildEventsDistinct
  <2>4. e \notin Range(ledger[cur])
    BY <1>1, <2>2, <2>3, DistinctNext
  <2>5. e \notin Answers
    BY <1>1, <1>5 DEF Resolved, OnlyGatesAnswer
  <2>. QED BY <2>1, <2>2, <2>4, <2>5
<1>6. ASSUME cur \in Evaluated
      PROVE  Follows(ledger'[cur], all)
  <2>1. Follows(ledger[cur], all)
    BY <1>6 DEF NothingMissing
  <2>. DEFINE w == Append(ledger[cur], e)
  <2>2. /\ Len(w) = Len(ledger[cur]) + 1 /\ Len(ledger[cur]) \in Nat
        /\ w[Len(ledger[cur]) + 1] = e
        /\ \A i \in 1..Len(ledger[cur]) : w[i] = ledger[cur][i]
    BY <1>1
  <2>. HIDE DEF w, all
  <2>3. CASE ledger'[cur] = ledger[cur]
    BY <2>1, <2>3
  <2>4. CASE pc \in {"commit", "record"} /\ ledger'[cur] = w
    <3>1. /\ e \notin Answers /\ Len(ledger[cur]) + 1 \in 1..Len(all)
          /\ all[Len(ledger[cur]) + 1] = e
          /\ \A i \in 1..Len(ledger[cur]) : all[i] = ledger[cur][i]
      BY <1>5, <2>4 DEF all
    <3>2. \A i \in 1..Len(w) : w[i] = all[i]
      BY <2>2, <3>1
    <3>3. Len(w) <= Len(all) /\ w[Len(w)] \notin Answers
      BY <2>2, <3>1
    <3>. QED BY <2>4, <3>2, <3>3 DEF Follows
  <2>5. CASE pc = "gate" /\ ~LedgerHas(cur, e) /\ ledger'[cur] = w
    <3>1. /\ gates[cur] \in {"approved", "rejected"} /\ e = AnswerOf(gates[cur])
      BY <1>1, <2>5 DEF Resolved, OnlyGatesAnswer, TypeInv, HandlerOwnsTrace
    <3>2. e \in Answers /\ Range(ledger[cur]) \cap Answers = {}
      BY <1>1, <1>4, <2>5, <3>1 DEF Resolved, GateBinds, Answers, AnswerOf
    <3>3. \A i \in 1..Len(ledger[cur]) : ledger[cur][i] \notin Answers
      BY <1>1, <3>2, RangeType
    <3>4. Len(ledger[cur]) <= Len(all)
          /\ \A i \in 1..Len(ledger[cur]) : ledger[cur][i] = all[i]
      <4>1. ~(Len(ledger[cur]) > 0 /\ ledger[cur][Len(ledger[cur])] \in Answers)
        BY <2>2, <3>3
      <4>. QED BY <2>1, <4>1 DEF Follows
    <3>5. Len(w) > 0 /\ w[Len(w)] \in Answers /\ Len(w) - 1 = Len(ledger[cur])
      BY <2>2, <3>2
    <3>. QED BY <2>2, <2>5, <3>4, <3>5 DEF Follows
  <2>. QED BY <1>1, <1>3, <2>3, <2>4, <2>5 DEF w
<1>7. \A t \in Evaluated : Follows(ledger'[t], BuildEvents(DecisionOf(t)))
  BY <1>2, <1>3, <1>6 DEF NothingMissing
<1>8. CASE AppendRaises
  <2>1. pc' = "idle"
    BY <1>8 DEF AppendRaises, CommitRaises, RecordRaises, GateRaises, Raise, Answer,
                BackToLoop
  <2>. QED BY <1>2, <1>7, <2>1 DEF NothingMissing
<1>9. CASE AppendEvent
  <2>1. UNCHANGED <<pc, cur>> /\ todo' = Tail(todo)
    BY <1>9 DEF AppendEvent
  <2>2. pc \in {"commit", "record"} => ledger'[cur] \o todo' = all
    BY <1>3, <1>4, <1>5, <1>9, <2>1
  <2>3. DecisionOf(cur)' = DecisionOf(cur)
    BY <1>1, <2>1 DEF DecisionOf
  <2>. QED BY <1>2, <1>7, <2>1, <2>2, <2>3 DEF NothingMissing
<1>. QED BY <1>1, <1>8, <1>9

\* A crash leaves a durable ledger as it is, and another one empty.
LEMMA NothingMissingCrash ==
  ASSUME TypeInv, NothingMissing, Crash
  PROVE  NothingMissing'
<1>1. /\ evals' = evals /\ pc' = "down"
      /\ ledger' = ledger \/ \A t \in Trace : ledger'[t] = <<>>
  BY DEF Crash, SurvivingLedger
<1>2. CASE ledger' = ledger
  BY <1>1, <1>2, NothingMissingQuiet
<1>3. CASE \A t \in Trace : ledger'[t] = <<>>
  <2>1. ASSUME NEW t \in Evaluated
        PROVE  Follows(<<>>, BuildEvents(DecisionOf(t)))
    <3>1. t \in 1..Len(evals) /\ evals \in Seq(Evaluation)
      BY DEF Evaluated, TypeInv, TypeOK
    <3>2. evals[t] \in Evaluation
      BY <3>1
    <3>3. BuildEvents(DecisionOf(t)) \in Seq(Kind)
      BY <3>2, BuildEventsType DEF DecisionOf, Evaluation
    <3>. QED BY <3>3 DEF Follows
  <2>. QED BY <1>1, <1>3, <2>1, EvaluatedType DEF NothingMissing, Evaluated, DecisionOf
<1>. QED BY <1>1, <1>2, <1>3

\* Every step keeps the ledger free of holes.
LEMMA NothingMissingStep ==
  /\ TypeInv /\ Safe /\ Resolved /\ Kept /\ WrittenInOrder /\ NothingMissing
  /\ [Next]_vars
  => NothingMissing'
<1>. SUFFICES ASSUME TypeInv, Safe, Resolved, Kept, WrittenInOrder, NothingMissing,
                     [Next]_vars
              PROVE  NothingMissing'
  OBVIOUS
<1>. USE DEF handlerVars, historyVars, storeVars, handoffVars
<1>1. CASE Request \/ Save
  BY <1>1, NothingMissingBegin, KeyAssumption DEF Request
<1>2. CASE AppendEvent \/ AppendInvalid \/ AppendRaises
  BY <1>2, NothingMissingLedger
<1>3. CASE Crash
  BY <1>3, NothingMissingCrash
<1>4. CASE UNCHANGED vars \/ BrokerAck \/ BrokerDrop
  <2>1. UNCHANGED <<evals, ledger, pc, cur, todo>>
    BY <1>4 DEF vars, BrokerAck, BrokerDrop
  <2>. QED BY <2>1, NothingMissingQuiet
<1>5. CASE CommitAccepted
  <2>1. UNCHANGED <<evals, ledger>> /\ pc' \in {"publish", "save"}
    BY <1>5, CurrentTrace, Domains DEF CommitAccepted, GoTo
  <2>. QED BY <2>1, NothingMissingQuiet
<1>6. CASE Review
  <2>1. UNCHANGED <<evals, ledger>> /\ pc' \in {"idle", "gate"}
    BY <1>6 DEF Review, Approve, Reject, ResolveGate
  <2>. QED BY <2>1, NothingMissingQuiet
<1>7. CASE \/ CommitRefused \/ BusPublish \/ BusPublishRaises \/ KafkaSend
           \/ KafkaSendRaises \/ KafkaFlush \/ KafkaFlushRaises
           \/ Recorded \/ GateDone \/ Restart
  <2>1. UNCHANGED <<evals, ledger>> /\ pc' \in {"idle", "send", "flush", "save"}
    BY <1>7 DEF CommitRefused, BusPublish, BusPublishRaises, KafkaSend, KafkaSendRaises,
                KafkaFlush, KafkaFlushRaises, Recorded, GateDone, Restart, GoTo, Raise,
                Answer, BackToLoop
  <2>. QED BY <2>1, NothingMissingQuiet
<1>. QED BY <1>1, <1>2, <1>3, <1>4, <1>5, <1>6, <1>7
         DEF Next, HandlerStep, HandlerFault

\* Unless a client refuses events one by one, the ledger of a trace is a prefix
\* of what its evaluation writes, then at most the answer at its gate, wherever
\* a call raised or the process died (commit, append_human_gate_event).
THEOREM LedgerHasNoHole == Spec => []LedgerIsPrefix
<1>1. Init => NothingMissing
  BY NothingMissingInit
<1>2. /\ TypeInv /\ Safe /\ Resolved /\ Kept /\ Settled /\ WrittenInOrder
      /\ NothingMissing /\ [Next]_vars
      => NothingMissing'
  BY NothingMissingStep
<1>3. NothingMissing => LedgerIsPrefix
  BY DEF NothingMissing, Follows, Answers, LedgerIsPrefix
<1>. QED BY <1>1, <1>2, <1>3, WrittenAlways, PTL DEF Spec
=============================================================================
