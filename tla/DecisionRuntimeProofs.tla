------------------------ MODULE DecisionRuntimeProofs -----------------------
(***************************************************************************)
(* Proofs about DecisionRuntime for every choice of its constants, in four *)
(* parts: its types and the commit gate; what a repeated idempotency key   *)
(* is answered with and executed for; what a request has done when it      *)
(* ends, and what its cached result and stored trace say of it; what is    *)
(* handed off, and in which order.                                         *)
(***************************************************************************)
EXTENDS DecisionRuntime, RangeLemmas, SequenceTheorems, TLAPS

\* The events of an evaluation are a non-empty sequence of event kinds.
LEMMA BuildEventsType ==
  ASSUME NEW d \in Decision
  PROVE  /\ BuildEvents(d) \in Seq(Kind)
         /\ Range(BuildEvents(d)) # {}
         /\ StatusOf(d) \in Status
<1>. DEFINE a == IF d.matched THEN <<>> ELSE <<"fallback">>
            b == IF d.effect = "none" THEN <<>> ELSE <<"boundary">>
            c == IF StatusOf(d) = "pending_human" THEN <<"human">> ELSE <<>>
<1>1. a \in Seq(Kind) /\ b \in Seq(Kind) /\ c \in Seq(Kind)
  <2>1. <<>> \in Seq(Kind)
    OBVIOUS
  <2>2. <<"fallback">> \in Seq(Kind) /\ <<"boundary">> \in Seq(Kind)
    BY DEF Kind
  <2>3. <<"human">> \in Seq(Kind)
    BY DEF Kind
  <2>. QED BY <2>1, <2>2, <2>3, Zenon
<1>5. /\ <<"signal", "decision">> \in Seq(Kind) /\ <<"outcome">> \in Seq(Kind)
      /\ Len(<<"signal", "decision">>) = 2
  BY DEF Kind
<1>2. BuildEvents(d) = <<"signal", "decision">> \o a \o b \o c \o <<"outcome">>
  BY DEF BuildEvents
<1>. HIDE DEF a, b, c
<1>4. BuildEvents(d) \in Seq(Kind) /\ Len(BuildEvents(d)) >= 2
  BY <1>1, <1>2, <1>5
<1>3. StatusOf(d) \in Status
  BY DEF StatusOf, Status
<1>. QED BY <1>3, <1>4, RangeEmpty

-----------------------------------------------------------------------------
(* Type correctness.                                                       *)

TypeInv == TypeOK /\ HandlerOwnsTrace

\* What the typing proof needs of the definitions it does not look into.
LEMMA Domains ==
  /\ Trace = 1..MaxEval /\ MaxEval \in Nat
  /\ Evaluating = {"commit", "publish", "send", "flush", "save", "record"}
  /\ \A d \in Decision : StatusOf(d) \in Status /\ BuildEvents(d) \in Seq(Kind)
  /\ \A d \in Decision : Dispatch(d) \in {"publish", "save"}
  /\ "error" \in Status
  /\ "approve" \in Kind /\ "reject" \in Kind
BY BoundAssumption, BuildEventsType
   DEF Trace, Evaluating, Dispatch, Status, Kind

\* An empty process is well typed.
LEMMA TypeInit == Init => TypeInv
<1>. SUFFICES ASSUME Init PROVE TypeInv
  OBVIOUS
<1>1. TypeOK
  BY Domains DEF Init, TypeOK, Fate, GateStatus, Evaluating
<1>2. HandlerOwnsTrace
  BY DEF Init, HandlerOwnsTrace, Evaluating
<1>. QED BY <1>1, <1>2 DEF TypeInv

\* The trace a handler works on is one of the evaluations, and its decision
\* and key are typed.
LEMMA CurrentTrace ==
  ASSUME TypeInv, pc \in Evaluating
  PROVE  /\ cur \in Trace /\ cur \in Nat
         /\ DecisionOf(cur) \in Decision
         /\ KeyOf(cur) \in Key \cup {NoKey}
<1>1. cur = Len(evals) /\ cur \in Trace /\ cur \in 1..Len(evals) /\ cur \in Nat
  BY Domains DEF TypeInv, TypeOK, HandlerOwnsTrace
<1>2. evals[cur] \in Evaluation
  BY <1>1 DEF TypeInv, TypeOK
<1>. QED BY <1>1, <1>2 DEF DecisionOf, KeyOf, Evaluation

\* Evaluate keeps the types: the trace it opens is the next one.
LEMMA TypeEvaluate ==
  ASSUME TypeInv, NEW k \in Key \cup {NoKey}, NEW d \in Decision, Evaluate(k, d)
  PROVE  TypeInv'
<1>. DEFINE t == Len(evals) + 1
            row == [key |-> k, decision |-> d, life |-> crashes]
<1>1. t \in Trace /\ t \in 0..MaxEval
  BY Domains DEF Evaluate
<1>2. row \in Evaluation
  BY DEF TypeInv, TypeOK, Evaluation
<1>3. evals' = Append(evals, row) /\ cur' = t /\ seen' = {}
  BY DEF Evaluate
<1>4. /\ evals' \in Seq(Evaluation)
      /\ Len(evals') = t
  BY <1>2, <1>3 DEF TypeInv, TypeOK
<1>5. fate' \in [Trace -> Fate] /\ gates' \in [Trace -> GateStatus]
  BY <1>1 DEF Evaluate, OpenGate, TypeInv, TypeOK, Fate, GateStatus
<1>6. todo' \in Seq(Kind) /\ pc' \in {"commit", "publish", "save"}
  <2>1. CASE LedgerMode = "strict"
    BY <2>1, Domains DEF Evaluate
  <2>2. CASE LedgerMode # "strict"
    <3>1. todo' = <<>> /\ pc' = Dispatch(d)
      BY <2>2 DEF Evaluate
    <3>. QED BY <3>1, Domains
  <2>. QED BY <2>1, <2>2
<1>7. TypeOK'
  <2>. USE <1>1, <1>3, <1>4, <1>5, <1>6, Domains
  <2>1. UNCHANGED <<acked, idem, traces, ledger, bus, buffer, topic, crashes, faults>>
    BY DEF Evaluate, handoffVars, faultVars
  <2>. QED BY <2>1 DEF TypeInv, TypeOK
<1>8. HandlerOwnsTrace'
  BY <1>1, <1>3, <1>4, <1>6, Domains DEF HandlerOwnsTrace
<1>. QED BY <1>7, <1>8 DEF TypeInv

\* Ending a handler, with or without a result, keeps the types of what it
\* touches.
LEMMA TypeEnd ==
  ASSUME TypeInv
  PROVE  /\ BackToLoop => /\ pc' = "idle" /\ cur' = 0 /\ cur' \in 0..MaxEval
                          /\ todo' \in Seq(Kind) /\ seen' = {}
         /\ Fail => faults' \in Nat /\ crashes' \in Nat
         /\ pc \in Evaluating /\ Raise => fate' \in [Trace -> Fate]
         /\ \A f \in Fate, r \in Result :
              pc \in Evaluating /\ Answer(f, r) =>
                /\ fate' \in [Trace -> Fate]
                /\ idem' \in [Key -> Result \cup {None}]
<1>1. BackToLoop => /\ pc' = "idle" /\ cur' = 0 /\ cur' \in 0..MaxEval
                    /\ todo' \in Seq(Kind) /\ seen' = {}
  BY Domains DEF BackToLoop
<1>2. Fail => faults' \in Nat /\ crashes' \in Nat
  BY DEF Fail, TypeInv, TypeOK
<1>3. pc \in Evaluating /\ Raise => fate' \in [Trace -> Fate]
  BY CurrentTrace DEF Raise, Fate, TypeInv, TypeOK
<1>4. ASSUME NEW f \in Fate, NEW r \in Result, pc \in Evaluating, Answer(f, r)
      PROVE  fate' \in [Trace -> Fate] /\ idem' \in [Key -> Result \cup {None}]
  <2>1. fate' \in [Trace -> Fate]
    BY <1>4, CurrentTrace DEF Answer, TypeInv, TypeOK
  <2>2. KeyOf(cur) \in Key \cup {NoKey}
    BY <1>4, CurrentTrace
  <2>3. idem' \in [Key -> Result \cup {None}]
    BY <1>4, <2>2 DEF Answer, Cache, TypeInv, TypeOK
  <2>. QED BY <2>1, <2>3
<1>. QED BY <1>1, <1>2, <1>3, <1>4

\* The steps of POST /evaluate after the decision is made.
LEMMA TypePipeline ==
  ASSUME TypeInv,
         \/ CommitAccepted \/ CommitRefused
         \/ BusPublish \/ BusPublishRaises
         \/ KafkaSend \/ KafkaSendRaises \/ KafkaFlush \/ KafkaFlushRaises
         \/ Save \/ Recorded
  PROVE  TypeInv'
<1>. USE Domains
     DEF handlerVars, historyVars, storeVars, handoffVars, faultVars
<1>1. CASE CommitAccepted
  <2>1. pc \in Evaluating /\ pc' \in {"publish", "save"}
    BY <1>1, CurrentTrace DEF CommitAccepted, GoTo
  <2>. QED BY <1>1, <2>1 DEF CommitAccepted, GoTo, TypeInv, TypeOK, HandlerOwnsTrace
<1>2. CASE CommitRefused
  <2>1. pc \in Evaluating
    BY <1>2 DEF CommitRefused
  <2>2. ErrorResult \in Result
    BY <2>1, CurrentTrace DEF ErrorResult, Result
  <2>3. PriorResult # None => PriorResult \in Result
    <3>1. idem \in [Key -> Result \cup {None}]
      BY DEF TypeInv, TypeOK
    <3>2. traces[cur] # None => traces[cur].status \in Status
      BY <2>1, CurrentTrace DEF TypeInv, TypeOK, StoredTrace
    <3>. QED BY <2>1, <3>1, <3>2, CurrentTrace DEF PriorResult, Result
  <2>4. PICK r \in Result : Answer("refused", r)
    BY <1>2, <2>2, <2>3 DEF CommitRefused
  <2>5. fate' \in [Trace -> Fate] /\ idem' \in [Key -> Result \cup {None}]
    BY <2>1, <2>4, TypeEnd DEF Fate
  <2>6. BackToLoop
    BY <2>4 DEF Answer
  <2>. QED BY <1>2, <2>5, <2>6, TypeEnd
           DEF CommitRefused, TypeInv, TypeOK, HandlerOwnsTrace
<1>3. CASE BusPublish \/ KafkaSend
  <2>1. pc \in Evaluating /\ cur \in Trace
    BY <1>3, CurrentTrace DEF BusPublish, KafkaSend
  <2>2. bus' \in Seq(Trace) /\ buffer' \in Seq(Trace) /\ topic' = topic
    <3>1. bus \in Seq(Trace) /\ buffer \in Seq(Trace)
      BY DEF TypeInv, TypeOK
    <3>2. Append(bus, cur) \in Seq(Trace) /\ Append(buffer, cur) \in Seq(Trace)
      BY <2>1, <3>1, RangeAppend
    <3>. QED BY <1>3, <3>1, <3>2 DEF BusPublish, KafkaSend
  <2>3. pc' \in {"send", "flush", "save"}
    BY <1>3 DEF BusPublish, KafkaSend, GoTo
  <2>. QED BY <1>3, <2>1, <2>2, <2>3
           DEF BusPublish, KafkaSend, GoTo, TypeInv, TypeOK, HandlerOwnsTrace
<1>4. CASE BusPublishRaises \/ KafkaSendRaises \/ KafkaFlushRaises
  <2>1. pc \in Evaluating /\ cur \in Trace
    BY <1>4, CurrentTrace DEF BusPublishRaises, KafkaSendRaises, KafkaFlushRaises
  <2>2. bus' \in Seq(Trace) /\ buffer' = buffer /\ topic' = topic
    <3>1. bus \in Seq(Trace)
      BY DEF TypeInv, TypeOK
    <3>2. Append(bus, cur) \in Seq(Trace)
      BY <2>1, <3>1, RangeAppend
    <3>. QED BY <1>4, <3>1, <3>2
             DEF BusPublishRaises, KafkaSendRaises, KafkaFlushRaises
  <2>3. Raise /\ Fail /\ BackToLoop
    BY <1>4 DEF BusPublishRaises, KafkaSendRaises, KafkaFlushRaises, Raise
  <2>4. UNCHANGED <<evals, acked, idem, gates, traces, ledger>>
    BY <1>4 DEF BusPublishRaises, KafkaSendRaises, KafkaFlushRaises
  <2>. QED BY <2>1, <2>2, <2>3, <2>4, TypeEnd DEF TypeInv, TypeOK, HandlerOwnsTrace
<1>5. CASE KafkaFlush
  BY <1>5 DEF KafkaFlush, GoTo, TypeInv, TypeOK, HandlerOwnsTrace
<1>6. CASE Save
  <2>. DEFINE r == [trace |-> cur, status |-> StatusOf(DecisionOf(cur))]
  <2>1. pc \in Evaluating /\ cur \in Trace /\ r \in Result
    BY <1>6, CurrentTrace DEF Save, Result
  <2>2. traces' \in [Trace -> StoredTrace \cup {None}]
    BY <1>6, <2>1 DEF Save, TypeInv, TypeOK, StoredTrace, Result
  <2>3. UNCHANGED <<evals, acked, gates, ledger, bus, buffer, topic, crashes, faults>>
    BY <1>6 DEF Save
  <2>4. CASE LedgerMode = "parallel"
    <3>1. /\ pc' = "record" /\ todo' \in Seq(Kind) /\ seen' = {}
          /\ UNCHANGED <<cur, fate, idem>>
      BY <1>6, <2>1, <2>4, CurrentTrace DEF Save
    <3>. QED BY <2>1, <2>2, <2>3, <3>1 DEF TypeInv, TypeOK, HandlerOwnsTrace
  <2>5. CASE LedgerMode # "parallel"
    <3>1. Answer("answered", r)
      BY <1>6, <2>5 DEF Save
    <3>2. fate' \in [Trace -> Fate] /\ idem' \in [Key -> Result \cup {None}]
      BY <2>1, <3>1, TypeEnd DEF Fate
    <3>3. BackToLoop
      BY <3>1 DEF Answer
    <3>. QED BY <2>2, <2>3, <3>2, <3>3, TypeEnd DEF TypeInv, TypeOK, HandlerOwnsTrace
  <2>. QED BY <2>4, <2>5
<1>7. CASE Recorded
  <2>. DEFINE r == [trace |-> cur, status |-> StatusOf(DecisionOf(cur))]
  <2>1. pc \in Evaluating /\ r \in Result
    BY <1>7, CurrentTrace DEF Recorded, Result
  <2>2. Answer("answered", r)
    BY <1>7 DEF Recorded
  <2>3. fate' \in [Trace -> Fate] /\ idem' \in [Key -> Result \cup {None}]
    BY <2>1, <2>2, TypeEnd DEF Fate
  <2>4. BackToLoop
    BY <2>2 DEF Answer
  <2>. QED BY <1>7, <2>3, <2>4, TypeEnd DEF Recorded, TypeInv, TypeOK, HandlerOwnsTrace
<1>. QED BY <1>1, <1>2, <1>3, <1>4, <1>5, <1>6, <1>7

\* The steps of the ledger client.
LEMMA TypeLedger ==
  ASSUME TypeInv, AppendEvent \/ AppendInvalid \/ AppendRaises
  PROVE  TypeInv'
<1>. USE Domains
     DEF handlerVars, historyVars, storeVars, handoffVars, faultVars
<1>1. /\ Appending /\ cur \in Trace
      /\ Head(todo) \in Kind /\ Tail(todo) \in Seq(Kind)
  <2>1. Appending /\ todo # <<>> /\ pc \in Evaluating \cup {"gate"}
    BY DEF AppendEvent, AppendInvalid, AppendRaises, Appending
  <2>2. cur \in Trace
    BY <2>1 DEF TypeInv, HandlerOwnsTrace
  <2>3. todo \in Seq(Kind)
    BY DEF TypeInv, TypeOK
  <2>. QED BY <2>1, <2>2, <2>3, RangeTail
<1>2. [ledger EXCEPT ![cur] = Append(@, Head(todo))] \in [Trace -> Seq(Kind)]
  <2>1. ledger \in [Trace -> Seq(Kind)] /\ ledger[cur] \in Seq(Kind)
    BY <1>1 DEF TypeInv, TypeOK
  <2>2. Append(ledger[cur], Head(todo)) \in Seq(Kind)
    BY <1>1, <2>1, RangeAppend
  <2>. QED BY <2>1, <2>2
<1>3. CASE AppendEvent
  <2>1. ledger' \in [Trace -> Seq(Kind)]
    BY <1>2, <1>3 DEF AppendEvent, TypeInv, TypeOK
  <2>2. /\ todo' = Tail(todo) /\ seen' \subseteq {"accepted", "duplicate", "invalid"}
        /\ UNCHANGED <<pc, cur, evals, fate, acked, idem, gates, traces,
                       bus, buffer, topic, crashes, faults>>
    BY <1>3 DEF AppendEvent, TypeInv, TypeOK
  <2>. QED BY <1>1, <2>1, <2>2 DEF TypeInv, TypeOK, HandlerOwnsTrace
<1>4. CASE AppendInvalid
  <2>1. /\ todo' = Tail(todo) /\ seen' \subseteq {"accepted", "duplicate", "invalid"}
        /\ UNCHANGED <<pc, cur, evals, fate, acked, idem, gates, traces,
                       ledger, bus, buffer, topic>>
    BY <1>4 DEF AppendInvalid, TypeInv, TypeOK
  <2>2. crashes' \in Nat /\ faults' \in Nat
    BY <1>4, TypeEnd DEF AppendInvalid
  <2>. QED BY <1>1, <2>1, <2>2 DEF TypeInv, TypeOK, HandlerOwnsTrace
<1>5. CASE AppendRaises
  <2>1. ledger' \in [Trace -> Seq(Kind)]
    BY <1>2, <1>5 DEF AppendRaises, TypeInv, TypeOK
  <2>2. /\ crashes' \in Nat /\ faults' \in Nat
        /\ UNCHANGED <<evals, gates, traces, bus, buffer, topic>>
    BY <1>5, TypeEnd DEF AppendRaises
  <2>3. /\ BackToLoop
        /\ fate' \in [Trace -> Fate] /\ idem' \in [Key -> Result \cup {None}]
        /\ acked' \in [Trace -> {"none", "approved", "rejected"}]
    <3>1. CASE CommitRaises
      BY <3>1, TypeEnd DEF CommitRaises, Raise, TypeInv, TypeOK
    <3>2. CASE RecordRaises
      <4>. DEFINE r == [trace |-> cur, status |-> StatusOf(DecisionOf(cur))]
      <4>1. pc \in Evaluating /\ r \in Result
        BY <3>2, CurrentTrace DEF RecordRaises, Result
      <4>2. Answer("answered", r) /\ BackToLoop /\ acked' = acked
        BY <3>2 DEF RecordRaises, Answer
      <4>. QED BY <4>1, <4>2, TypeEnd DEF Fate, TypeInv, TypeOK
    <3>3. CASE GateRaises
      <4>1. gates[cur] \in {"approved", "rejected"}
        BY <3>3 DEF GateRaises, TypeInv, HandlerOwnsTrace
      <4>. QED BY <1>1, <3>3, <4>1 DEF GateRaises, TypeInv, TypeOK
    <3>. QED BY <1>5, <3>1, <3>2, <3>3 DEF AppendRaises
  <2>. QED BY <2>1, <2>2, <2>3, TypeEnd DEF TypeInv, TypeOK, HandlerOwnsTrace
<1>. QED BY <1>3, <1>4, <1>5

\* The human gate handlers.
LEMMA TypeGate ==
  ASSUME TypeInv, Review \/ GateDone
  PROVE  TypeInv'
<1>. USE Domains
     DEF handlerVars, historyVars, storeVars, handoffVars, faultVars
<1>1. ASSUME NEW t \in Trace, NEW g \in {"approved", "rejected"}, NEW e \in Kind,
             ResolveGate(t, g, e)
      PROVE  TypeInv'
  <2>1. gates' \in [Trace -> GateStatus] /\ gates'[t] = g
    BY <1>1 DEF ResolveGate, TypeInv, TypeOK, GateStatus
  <2>2. UNCHANGED <<evals, fate, idem, traces, ledger, bus, buffer, topic, crashes, faults>>
    BY <1>1 DEF ResolveGate
  <2>3. CASE LedgerMode = "off"
    <3>1. /\ acked' \in [Trace -> {"none", "approved", "rejected"}]
          /\ pc = "idle" /\ UNCHANGED <<pc, cur, todo, seen>>
      BY <1>1, <2>3 DEF ResolveGate, TypeInv, TypeOK
    <3>. QED BY <2>1, <2>2, <3>1 DEF TypeInv, TypeOK, HandlerOwnsTrace
  <2>4. CASE LedgerMode # "off"
    <3>1. pc' = "gate" /\ cur' = t /\ todo' = <<e>> /\ seen' = {} /\ acked' = acked
      BY <1>1, <2>4 DEF ResolveGate
    <3>2. todo' \in Seq(Kind)
      BY <1>1, <3>1
    <3>. QED BY <2>1, <2>2, <3>1, <3>2 DEF TypeInv, TypeOK, HandlerOwnsTrace
  <2>. QED BY <2>3, <2>4
<1>2. CASE GateDone
  <2>1. cur \in Trace /\ gates[cur] \in {"approved", "rejected"}
    BY <1>2 DEF GateDone, TypeInv, HandlerOwnsTrace
  <2>2. acked' \in [Trace -> {"none", "approved", "rejected"}]
    BY <1>2, <2>1 DEF GateDone, TypeInv, TypeOK
  <2>3. /\ BackToLoop
        /\ UNCHANGED <<evals, fate, idem, gates, traces, ledger, bus, buffer, topic,
                       crashes, faults>>
    BY <1>2 DEF GateDone
  <2>. QED BY <2>2, <2>3, TypeEnd DEF TypeInv, TypeOK, HandlerOwnsTrace
<1>. QED BY <1>1, <1>2 DEF Review, Approve, Reject

\* The broker and the life of the process.
LEMMA TypeWorld ==
  ASSUME TypeInv, BrokerAck \/ BrokerDrop \/ Crash \/ Restart
  PROVE  TypeInv'
<1>. USE Domains
     DEF handlerVars, historyVars, storeVars, handoffVars, faultVars
<1>1. CASE BrokerAck \/ BrokerDrop
  <2>1. buffer \in Seq(Trace) /\ buffer # <<>> /\ topic \in Seq(Trace)
    BY <1>1 DEF BrokerAck, BrokerDrop, TypeInv, TypeOK
  <2>2. Tail(buffer) \in Seq(Trace) /\ Append(topic, Head(buffer)) \in Seq(Trace)
    BY <2>1, RangeTail, RangeAppend
  <2>3. buffer' \in Seq(Trace) /\ topic' \in Seq(Trace)
    BY <1>1, <2>1, <2>2 DEF BrokerAck, BrokerDrop
  <2>4. UNCHANGED <<pc, cur, todo, seen, evals, fate, acked, idem, gates, traces,
                    ledger, bus>>
    BY <1>1 DEF BrokerAck, BrokerDrop
  <2>5. crashes' \in Nat /\ faults' \in Nat
    BY <1>1, TypeEnd DEF BrokerAck, BrokerDrop, TypeInv, TypeOK
  <2>. QED BY <2>3, <2>4, <2>5 DEF TypeInv, TypeOK, HandlerOwnsTrace
<1>2. CASE Crash
  <2>1. fate' \in [Trace -> Fate]
    BY <1>2, CurrentTrace DEF Crash, Fate, TypeInv, TypeOK
  <2>2. /\ idem' \in [Key -> Result \cup {None}]
        /\ gates' \in [Trace -> GateStatus]
        /\ traces' \in [Trace -> StoredTrace \cup {None}]
    BY <1>2 DEF Crash, GateStatus
  <2>3. ledger' \in [Trace -> Seq(Kind)]
    BY <1>2 DEF Crash, SurvivingLedger, TypeInv, TypeOK
  <2>4. bus' \in Seq(Trace) /\ buffer' \in Seq(Trace)
    <3>1. bus \in Seq(Trace)
      BY DEF TypeInv, TypeOK
    <3>2. <<>> \in Seq(Trace)
      OBVIOUS
    <3>3. bus' \in {bus, <<>>} /\ buffer' = <<>>
      BY <1>2 DEF Crash
    <3>. QED BY <3>1, <3>2, <3>3
  <2>5. /\ pc' = "down" /\ cur' = 0 /\ cur' \in 0..MaxEval
        /\ todo' \in Seq(Kind) /\ seen' = {}
        /\ crashes' \in Nat
        /\ UNCHANGED <<evals, acked, topic, faults>>
    BY <1>2 DEF Crash, TypeInv, TypeOK
  <2>. QED BY <2>1, <2>2, <2>3, <2>4, <2>5 DEF TypeInv, TypeOK, HandlerOwnsTrace
<1>3. CASE Restart
  BY <1>3 DEF Restart, GoTo, TypeInv, TypeOK, HandlerOwnsTrace
<1>. QED BY <1>1, <1>2, <1>3

\* Every step of the process, of the broker and of its clients keeps the types.
LEMMA TypeStep == TypeInv /\ [Next]_vars => TypeInv'
<1>. SUFFICES ASSUME TypeInv, [Next]_vars PROVE TypeInv'
  OBVIOUS
<1>1. CASE Request
  BY <1>1, TypeEvaluate, KeyAssumption DEF Request
<1>2. CASE Review
  BY <1>2, TypeGate
<1>3. CASE HandlerStep
  BY <1>3, TypePipeline, TypeLedger, TypeGate DEF HandlerStep
<1>4. CASE HandlerFault
  BY <1>4, TypePipeline, TypeLedger DEF HandlerFault
<1>5. CASE BrokerAck \/ BrokerDrop \/ Crash \/ Restart
  BY <1>5, TypeWorld
<1>6. CASE UNCHANGED vars
  BY <1>6 DEF vars, handlerVars, historyVars, storeVars, handoffVars, faultVars,
              TypeInv, TypeOK, HandlerOwnsTrace
<1>. QED BY <1>1, <1>2, <1>3, <1>4, <1>5, <1>6 DEF Next

\* The stores, the ledger, the channels and the handler's own state only ever
\* hold what their classes can hold, whatever fails and whenever the process
\* dies; and a running handler always works on an existing evaluation.
THEOREM TypeCorrect == Spec => [](TypeOK /\ HandlerOwnsTrace)
<1>1. Init => TypeInv
  BY TypeInit
<1>2. TypeInv /\ [Next]_vars => TypeInv'
  BY TypeStep
<1>. QED BY <1>1, <1>2, PTL DEF Spec, TypeInv

-----------------------------------------------------------------------------
(* The commit gate.                                                        *)

Safe == CommitLosesNothing /\ HandoffIsDue /\ CommitBeforeExecute

\* Nothing is handed off, committed or running at first.
LEMMA SafeInit == Init => Safe
<1>. SUFFICES ASSUME Init PROVE Safe
  OBVIOUS
<1>1. HandedOff = {}
  BY RangeEmpty DEF Init, HandedOff
<1>2. CommitLosesNothing
  BY DEF Init, CommitLosesNothing
<1>3. HandoffIsDue /\ CommitBeforeExecute
  BY <1>1 DEF Init, HandoffIsDue, CommitBeforeExecute
<1>. QED BY <1>2, <1>3 DEF Safe

\* What has been evaluated stays what it was while no evaluation starts, and
\* a committed trace stays committed while its ledger does not shrink.
LEMMA EvaluatedStable ==
  ASSUME UNCHANGED evals
  PROVE  /\ Evaluated' = Evaluated
         /\ \A t : DecisionOf(t)' = DecisionOf(t)
         /\ \A t : Range(ledger[t]) \subseteq Range(ledger'[t]) /\ Committed(t)
                  => Committed(t)'
BY DEF Evaluated, DecisionOf, Committed

\* An evaluation's number is a trace, because evaluations are bounded.
LEMMA EvaluatedIsTrace ==
  ASSUME TypeInv
  PROVE  Evaluated \subseteq Trace /\ Len(evals) \in Nat
BY Domains DEF TypeInv, TypeOK, Evaluated

\* A step that hands nothing off, starts no evaluation and leaves the dispatch
\* of the running one cannot break the commit gate.
LEMMA SafeQuiet ==
  ASSUME TypeInv, Safe,
         UNCHANGED evals,
         LedgerDurable =>
           \A t \in Trace : Range(ledger[t]) \subseteq Range(ledger'[t]),
         \A t \in Trace \ Evaluated : ledger'[t] = <<>> /\ gates'[t] = "none",
         HandedOff' \subseteq HandedOff,
         pc' \in {"idle", "gate", "down", "save", "record"}
  PROVE  Safe'
<1>1. CommitLosesNothing'
  BY EvaluatedStable DEF CommitLosesNothing
<1>2. HandoffIsDue'
  BY EvaluatedStable DEF Safe, HandoffIsDue
<1>3. CommitBeforeExecute'
  <2>. SUFFICES ASSUME NEW t \in HandedOff'
                PROVE  /\ (StatusOf(DecisionOf(t)) = "confirmed")'
                       /\ LedgerMode = "strict" /\ LedgerDurable => Committed(t)'
    BY DEF CommitBeforeExecute
  <2>1. t \in HandedOff /\ t \in Trace
    BY EvaluatedIsTrace DEF Safe, HandoffIsDue
  <2>2. /\ StatusOf(DecisionOf(t)) = "confirmed"
        /\ LedgerMode = "strict" /\ LedgerDurable => Committed(t)
    BY <2>1 DEF Safe, CommitBeforeExecute
  <2>. QED BY <2>1, <2>2, EvaluatedStable
<1>. QED BY <1>1, <1>2, <1>3 DEF Safe

\* A new evaluation: everything of its commit is still to be done.
LEMMA SafeEvaluate ==
  ASSUME TypeInv, Safe,
         NEW k \in Key \cup {NoKey}, NEW d \in Decision, Evaluate(k, d)
  PROVE  Safe'
<1>0. PICK n, row : n = Len(evals) + 1 /\ row = [key |-> k, decision |-> d, life |-> crashes]
  OBVIOUS
<1>1. /\ n \in Trace /\ evals' = Append(evals, row) /\ cur' = n
      /\ UNCHANGED <<ledger, bus, buffer, topic>>
  BY <1>0 DEF Evaluate, handoffVars
<1>2. /\ evals \in Seq(Evaluation) /\ row \in Evaluation
  BY <1>0 DEF TypeInv, TypeOK, Evaluation
<1>3. /\ Len(evals') = n /\ Len(evals) \in Nat
      /\ \A t \in 1..Len(evals) : evals'[t] = evals[t]
      /\ evals'[n] = row
  BY <1>0, <1>1, <1>2
<1>4. /\ Evaluated' = Evaluated \cup {n} /\ n \notin Evaluated
      /\ \A t \in Evaluated : t < n
  BY <1>0, <1>3 DEF Evaluated
<1>5. DecisionOf(n)' = d /\ \A t \in Evaluated : DecisionOf(t)' = DecisionOf(t)
  BY <1>0, <1>3 DEF DecisionOf, Evaluated
<1>6. HandedOff' = HandedOff /\ HandedOff \subseteq Evaluated
  BY <1>1 DEF Safe, HandoffIsDue, HandedOff
<1>7. \A t \in HandedOff : Committed(t)' <=> Committed(t)
  BY <1>1, <1>5, <1>6 DEF Committed
<1>11. DecisionOf(cur)' = d
  BY <1>1, <1>5 DEF DecisionOf
<1>8. CommitBeforeExecute'
  BY <1>5, <1>6, <1>7 DEF Safe, CommitBeforeExecute
<1>9. CommitLosesNothing'
  <2>1. ASSUME pc' = "commit"
        PROVE  todo' = BuildEvents(d)
    BY <2>1, Domains DEF Evaluate
  <2>2. \A t \in Trace \ Evaluated' : ledger'[t] = <<>> /\ gates'[t] = "none"
    BY <1>1, <1>4 DEF Safe, CommitLosesNothing, Evaluate, OpenGate, TypeInv, TypeOK
  <2>. QED BY <1>1, <1>11, <2>1, <2>2 DEF CommitLosesNothing
<1>10. HandoffIsDue'
  <2>1. pc' \in {"publish", "send", "flush"} =>
          LedgerMode # "strict" /\ StatusOf(d) = "confirmed"
    BY DEF Evaluate, Dispatch
  <2>2. \A t \in Range(bus') : t < cur'
    BY <1>1, <1>4, <1>6 DEF HandedOff
  <2>. QED BY <1>1, <1>4, <1>11, <1>6, <2>1, <2>2 DEF HandoffIsDue
<1>. QED BY <1>8, <1>9, <1>10 DEF Safe

\* The ledger client only adds events, and only to the current trace.
LEMMA LedgerGrows ==
  ASSUME TypeInv, AppendEvent \/ AppendInvalid \/ AppendRaises
  PROVE  /\ \A t \in Trace : Range(ledger[t]) \subseteq Range(ledger'[t])
         /\ \A t \in Trace : t # cur => ledger'[t] = ledger[t]
         /\ cur \in Trace
         /\ AppendEvent => /\ Head(todo) \in Range(ledger'[cur])
                           /\ Range(todo) = {Head(todo)} \cup Range(Tail(todo))
<1>1. /\ cur \in Trace /\ ledger \in [Trace -> Seq(Kind)]
      /\ todo \in Seq(Kind) /\ todo # <<>>
  BY Domains DEF AppendEvent, AppendInvalid, AppendRaises, Appending,
     TypeInv, TypeOK, HandlerOwnsTrace
<1>. DEFINE e == Head(todo)
            longer == [ledger EXCEPT ![cur] = Append(@, e)]
<1>2. e \in Kind /\ Range(todo) = {e} \cup Range(Tail(todo))
  BY <1>1, RangeTail
<1>3. /\ \A t \in Trace : t # cur => longer[t] = ledger[t]
      /\ longer[cur] = Append(ledger[cur], e)
  BY <1>1
<1>4. Range(longer[cur]) = Range(ledger[cur]) \cup {e}
  <2>1. ledger[cur] \in Seq(Kind)
    BY <1>1
  <2>. QED BY <1>2, <1>3, <2>1, RangeAppend
<1>5. ledger' = ledger \/ ledger' = longer
  BY DEF AppendEvent, AppendInvalid, AppendRaises
<1>6. AppendEvent => e \in Range(ledger'[cur])
  <2>1. CASE LedgerHas(cur, e)
    <3>1. e \in Range(ledger[cur])
      BY <2>1 DEF LedgerHas, EventId
    <3>. QED BY <2>1, <3>1 DEF AppendEvent
  <2>2. CASE ~LedgerHas(cur, e)
    BY <1>4, <2>2 DEF AppendEvent
  <2>. QED BY <2>1, <2>2
<1>. QED BY <1>1, <1>2, <1>3, <1>4, <1>5, <1>6

\* Every append either stores the next event, notes a refusal or ends the
\* handler, so the strict commit never loses sight of an event.
LEMMA SafeLedger ==
  ASSUME TypeInv, Safe, AppendEvent \/ AppendInvalid \/ AppendRaises
  PROVE  Safe'
<1>. USE DEF historyVars, storeVars, handoffVars
<1>1. /\ \A t \in Trace : Range(ledger[t]) \subseteq Range(ledger'[t])
      /\ \A t \in Trace : t # cur => ledger'[t] = ledger[t]
      /\ UNCHANGED <<evals, gates, bus, buffer, topic>>
  BY LedgerGrows DEF AppendEvent, AppendInvalid, AppendRaises
<1>2. HandedOff' = HandedOff
  BY <1>1 DEF HandedOff
<1>3. \A t \in Trace \ Evaluated : ledger'[t] = <<>> /\ gates'[t] = "none"
  <2>1. cur \in Evaluated
    <3>1. CASE pc \in Evaluating
      BY <3>1, CurrentTrace, Domains DEF TypeInv, HandlerOwnsTrace, TypeOK, Evaluated
    <3>2. CASE pc = "gate"
      BY <3>2 DEF TypeInv, HandlerOwnsTrace, Safe, CommitLosesNothing
    <3>. QED BY <3>1, <3>2, Domains
             DEF AppendEvent, AppendInvalid, AppendRaises, Appending
  <2>. QED BY <1>1, <2>1 DEF Safe, CommitLosesNothing
<1>4. CASE AppendRaises
  <2>1. pc' = "idle"
    BY <1>4 DEF AppendRaises, CommitRaises, RecordRaises, GateRaises, Raise, Answer,
                BackToLoop
  <2>. QED BY <1>1, <1>2, <1>3, <2>1, SafeQuiet
<1>5. CASE AppendEvent \/ AppendInvalid
  <2>1. UNCHANGED <<pc, cur>> /\ pc \in {"commit", "record", "gate"} /\ cur \in Trace
    BY <1>5, LedgerGrows DEF AppendEvent, AppendInvalid, Appending
  <2>2. CASE pc # "commit"
    BY <1>1, <1>2, <1>3, <2>1, <2>2, SafeQuiet
  <2>3. CASE pc = "commit"
    <3>1. CommitLosesNothing'
      <4>. SUFFICES ASSUME "invalid" \notin seen'
                    PROVE  Range(BuildEvents(DecisionOf(cur)))
                             \subseteq Range(ledger'[cur]) \cup Range(todo')
        BY <1>1, <1>3, <2>1, EvaluatedStable DEF CommitLosesNothing
      <4>1. AppendEvent /\ "invalid" \notin seen /\ todo' = Tail(todo)
        BY <1>5 DEF AppendEvent, AppendInvalid
      <4>2. Range(BuildEvents(DecisionOf(cur)))
              \subseteq Range(ledger[cur]) \cup Range(todo)
        BY <2>3, <4>1 DEF Safe, CommitLosesNothing
      <4>. QED BY <1>1, <2>1, <4>1, <4>2, LedgerGrows
    <3>2. HandoffIsDue'
      BY <1>1, <1>2, <2>1, <2>3, EvaluatedStable DEF Safe, HandoffIsDue
    <3>3. CommitBeforeExecute'
      <4>1. \A t \in HandedOff : Committed(t) => Committed(t)'
        BY <1>1, EvaluatedStable, EvaluatedIsTrace DEF Safe, HandoffIsDue
      <4>. QED BY <1>1, <1>2, <4>1, EvaluatedStable DEF Safe, CommitBeforeExecute
    <3>. QED BY <3>1, <3>2, <3>3 DEF Safe
  <2>. QED BY <2>2, <2>3
<1>. QED BY <1>4, <1>5

\* The hand-off: the strict commit lets only a fully committed decision pass,
\* and what passes stays committed while it is published and sent.
LEMMA SafeHandoff ==
  ASSUME TypeInv, Safe,
         CommitAccepted \/ BusPublish \/ BusPublishRaises \/ KafkaSend
  PROVE  Safe'
<1>. USE DEF handlerVars, historyVars, storeVars, handoffVars
<1>1. UNCHANGED <<evals, ledger, gates>> /\ pc \in Evaluating /\ cur \in Trace
  BY Domains, CurrentTrace DEF CommitAccepted, BusPublish, BusPublishRaises, KafkaSend
<1>2. /\ Evaluated' = Evaluated
      /\ \A t : DecisionOf(t)' = DecisionOf(t)
      /\ \A t : Committed(t)' = Committed(t)
  BY <1>1 DEF Evaluated, DecisionOf, Committed
<1>3. cur \in Evaluated
  BY <1>1, Domains DEF TypeInv, TypeOK, HandlerOwnsTrace, Evaluated
<1>4. CASE CommitAccepted
  <2>1. /\ pc = "commit" /\ todo = <<>> /\ "invalid" \notin seen
        /\ pc' = Dispatch(DecisionOf(cur)) /\ UNCHANGED <<cur, bus, buffer, topic>>
    BY <1>4 DEF CommitAccepted, CommitStatus, GoTo
  <2>2. Committed(cur)
    BY <2>1, RangeEmpty DEF Safe, CommitLosesNothing, Committed
  <2>3. pc' \in {"publish", "save"}
    BY <1>1, <2>1, CurrentTrace, Domains
  <2>4. pc' = "publish" => StatusOf(DecisionOf(cur)) = "confirmed"
    BY <2>1 DEF Dispatch
  <2>5. HandedOff' = HandedOff
    BY <2>1 DEF HandedOff
  <2>6. DecisionOf(cur)' = DecisionOf(cur) /\ Committed(cur)' = Committed(cur)
    BY <1>1, <2>1 DEF DecisionOf, Committed
  <2>7. CommitLosesNothing'
    BY <1>1, <1>2, <2>3 DEF Safe, CommitLosesNothing
  <2>8. HandoffIsDue'
    BY <1>2, <2>1, <2>2, <2>3, <2>4, <2>5, <2>6 DEF Safe, HandoffIsDue
  <2>9. CommitBeforeExecute'
    BY <1>2, <2>5 DEF Safe, CommitBeforeExecute
  <2>. QED BY <2>7, <2>8, <2>9 DEF Safe
<1>5. CASE BusPublish \/ BusPublishRaises \/ KafkaSend
  <2>1. /\ StatusOf(DecisionOf(cur)) = "confirmed"
        /\ LedgerMode = "strict" => Committed(cur)
    BY <1>5 DEF BusPublish, BusPublishRaises, KafkaSend, Safe, HandoffIsDue
  <2>2. HandedOff' \subseteq HandedOff \cup {cur}
    <3>1. bus \in Seq(Trace) /\ buffer \in Seq(Trace)
      BY DEF TypeInv, TypeOK
    <3>2. /\ Range(Append(bus, cur)) = Range(bus) \cup {cur}
          /\ Range(Append(buffer, cur)) = Range(buffer) \cup {cur}
      BY <1>1, <3>1, RangeAppend
    <3>. QED BY <1>5, <3>2 DEF BusPublish, BusPublishRaises, KafkaSend, HandedOff
  <2>3. CommitBeforeExecute'
    BY <1>2, <2>1, <2>2 DEF Safe, CommitBeforeExecute
  <2>4. pc' \in {"send", "flush", "save", "idle"} /\ (pc' # "idle" => cur' = cur)
    BY <1>5 DEF BusPublish, BusPublishRaises, KafkaSend, GoTo, Raise, BackToLoop
  <2>5. CommitLosesNothing'
    BY <1>1, <1>2, <2>4 DEF Safe, CommitLosesNothing
  <2>6. cur' = cur => DecisionOf(cur)' = DecisionOf(cur) /\ Committed(cur)' = Committed(cur)
    BY <1>1 DEF DecisionOf, Committed
  <2>7. HandoffIsDue'
    BY <1>2, <1>3, <2>1, <2>2, <2>4, <2>6 DEF Safe, HandoffIsDue
  <2>. QED BY <2>3, <2>5, <2>7 DEF Safe
<1>. QED BY <1>4, <1>5

\* Everything else neither hands off nor touches what was handed off.
LEMMA SafeElsewhere ==
  ASSUME TypeInv, Safe,
         \/ CommitRefused \/ KafkaSendRaises \/ KafkaFlush \/ KafkaFlushRaises
         \/ Save \/ Recorded \/ Review \/ GateDone \/ Crash \/ Restart
  PROVE  Safe'
<1>. USE DEF handlerVars, historyVars, storeVars, handoffVars
<1>1. \A t \in Trace \ Evaluated : ledger[t] = <<>> /\ gates[t] = "none"
  BY DEF Safe, CommitLosesNothing
<1>2. CASE \/ CommitRefused \/ KafkaSendRaises \/ KafkaFlush \/ KafkaFlushRaises
           \/ Save \/ Recorded \/ GateDone \/ Restart
  <2>1. UNCHANGED <<evals, ledger, gates, bus, buffer, topic>>
    BY <1>2 DEF CommitRefused, KafkaSendRaises, KafkaFlush, KafkaFlushRaises,
                Save, Recorded, GateDone, Restart
  <2>2. pc' \in {"idle", "save", "record"}
    BY <1>2 DEF CommitRefused, KafkaSendRaises, KafkaFlush, KafkaFlushRaises,
                Save, Recorded, GateDone, Restart, GoTo, Raise, Answer, BackToLoop
  <2>3. HandedOff' = HandedOff
    BY <2>1 DEF HandedOff
  <2>. QED BY <1>1, <2>1, <2>2, <2>3, SafeQuiet
<1>3. CASE Review
  <2>1. PICK t \in Trace, g \in {"approved", "rejected"}, e \in Kind : ResolveGate(t, g, e)
    BY <1>3, Domains DEF Review, Approve, Reject
  <2>2. /\ UNCHANGED <<evals, ledger, bus, buffer, topic>>
        /\ gates[t] = "pending" /\ gates' = [gates EXCEPT ![t] = g]
        /\ pc' \in {"idle", "gate"}
    BY <2>1 DEF ResolveGate, IsPending
  <2>3. t \notin Trace \ Evaluated
    BY <1>1, <2>2
  <2>4. \A u \in Trace \ Evaluated : gates'[u] = "none"
    BY <1>1, <2>2, <2>3 DEF TypeInv, TypeOK
  <2>5. HandedOff' = HandedOff
    BY <2>2 DEF HandedOff
  <2>. QED BY <1>1, <2>2, <2>4, <2>5, SafeQuiet
<1>4. CASE Crash
  <2>1. /\ evals' = evals /\ topic' = topic /\ pc' = "down"
        /\ bus' \in {bus, <<>>} /\ buffer' = <<>>
    BY <1>4 DEF Crash
  <2>2. HandedOff' \subseteq HandedOff
    BY <2>1, RangeEmpty DEF HandedOff
  <2>3. LedgerDurable => ledger' = ledger
    BY <1>4 DEF Crash, SurvivingLedger
  <2>4. \A t \in Trace \ Evaluated : ledger'[t] = <<>> /\ gates'[t] = "none"
    BY <1>1, <1>4 DEF Crash, SurvivingLedger
  <2>. QED BY <2>1, <2>2, <2>3, <2>4, SafeQuiet
<1>. QED BY <1>2, <1>3, <1>4

\* The broker moves records of the buffer to the topic or loses them.
LEMMA SafeBroker ==
  ASSUME TypeInv, Safe, BrokerAck \/ BrokerDrop
  PROVE  Safe'
<1>. USE DEF handlerVars, historyVars, storeVars, handoffVars
<1>1. /\ UNCHANGED <<pc, cur, todo, seen, evals, ledger, gates, bus>>
      /\ buffer # <<>> /\ buffer' = Tail(buffer)
      /\ topic' = Append(topic, Head(buffer)) \/ topic' = topic
  BY DEF BrokerAck, BrokerDrop
<1>2. HandedOff' \subseteq HandedOff
  <2>1. buffer \in Seq(Trace) /\ topic \in Seq(Trace)
    BY DEF TypeInv, TypeOK
  <2>2. Head(buffer) \in Trace /\ Range(buffer) = {Head(buffer)} \cup Range(Tail(buffer))
    BY <1>1, <2>1, RangeTail
  <2>3. Range(Append(topic, Head(buffer))) = Range(topic) \cup {Head(buffer)}
    BY <2>1, <2>2, RangeAppend
  <2>. QED BY <1>1, <2>2, <2>3 DEF HandedOff
<1>3. /\ Evaluated' = Evaluated /\ DecisionOf(cur)' = DecisionOf(cur)
      /\ \A t : DecisionOf(t)' = DecisionOf(t)
      /\ Committed(cur)' = Committed(cur)
      /\ \A t : Committed(t)' = Committed(t)
  BY <1>1 DEF Evaluated, DecisionOf, Committed
<1>4. CommitLosesNothing'
  BY <1>1, <1>3 DEF Safe, CommitLosesNothing
<1>5. HandoffIsDue'
  BY <1>1, <1>2, <1>3 DEF Safe, HandoffIsDue
<1>6. CommitBeforeExecute'
  BY <1>2, <1>3 DEF Safe, CommitBeforeExecute
<1>. QED BY <1>4, <1>5, <1>6 DEF Safe

\* Every step keeps the strengthened commit gate.
LEMMA SafeStep == TypeInv /\ Safe /\ [Next]_vars => Safe'
<1>. SUFFICES ASSUME TypeInv, Safe, [Next]_vars PROVE Safe'
  OBVIOUS
<1>1. CASE Request
  BY <1>1, SafeEvaluate, KeyAssumption DEF Request
<1>2. CASE HandlerStep
  BY <1>2, SafeLedger, SafeHandoff, SafeElsewhere DEF HandlerStep
<1>3. CASE HandlerFault
  BY <1>3, SafeLedger, SafeHandoff, SafeElsewhere DEF HandlerFault
<1>4. CASE Review \/ Crash \/ Restart
  BY <1>4, SafeElsewhere
<1>5. CASE BrokerAck \/ BrokerDrop
  BY <1>5, SafeBroker
<1>6. CASE UNCHANGED vars
  BY <1>6 DEF vars, handlerVars, historyVars, storeVars, handoffVars, faultVars,
              Safe, CommitLosesNothing, HandoffIsDue, CommitBeforeExecute,
              HandedOff, Evaluated, Committed, DecisionOf
<1>. QED BY <1>1, <1>2, <1>3, <1>4, <1>5, <1>6 DEF Next

\* The strengthening is an invariant.
THEOREM Inductive == Spec => []IInv
<1>1. Init => TypeInv /\ Safe
  BY TypeInit, SafeInit
<1>2. TypeInv /\ Safe /\ [Next]_vars => (TypeInv /\ Safe)'
  BY TypeStep, SafeStep
<1>3. TypeInv /\ Safe => IInv
  BY DEF TypeInv, Safe, IInv
<1>. QED BY <1>1, <1>2, <1>3, PTL DEF Spec

\* The engine's contract: execution is requested for confirmed decisions only,
\* and in strict mode with a durable ledger only for decisions whose every
\* event the ledger holds, at every point the pipeline can stop at.
THEOREM CommitGateHolds == Spec => []CommitBeforeExecute
<1>1. IInv => CommitBeforeExecute
  BY DEF IInv
<1>. QED BY <1>1, Inductive, PTL

-----------------------------------------------------------------------------
(* Strict mode implements the abstract commit gate.                        *)

AcceptedTraces == {t \in Evaluated : Committed(t)}

\* A new evaluation is not accepted: its ledger is empty, its events are not.
LEMMA EvaluateAcceptsNothing ==
  ASSUME TypeInv, Safe,
         NEW k \in Key \cup {NoKey}, NEW d \in Decision, Evaluate(k, d)
  PROVE  UNCHANGED <<AcceptedTraces, bus>>
<1>0. PICK n, row : n = Len(evals) + 1 /\ row = [key |-> k, decision |-> d, life |-> crashes]
  OBVIOUS
<1>1. /\ n \in Trace /\ evals' = Append(evals, row)
      /\ UNCHANGED <<ledger, bus>>
  BY <1>0 DEF Evaluate, handoffVars
<1>2. evals \in Seq(Evaluation) /\ row \in Evaluation
  BY <1>0 DEF TypeInv, TypeOK, Evaluation
<1>3. /\ Len(evals') = n /\ Len(evals) \in Nat
      /\ \A t \in 1..Len(evals) : evals'[t] = evals[t]
      /\ evals'[n] = row
  BY <1>0, <1>1, <1>2
<1>4. Evaluated' = Evaluated \cup {n} /\ n \notin Evaluated
  BY <1>0, <1>3 DEF Evaluated
<1>5. ~Committed(n)'
  <2>1. ledger'[n] = <<>>
    BY <1>1, <1>4 DEF Safe, CommitLosesNothing
  <2>2. DecisionOf(n)' = d
    BY <1>0, <1>3 DEF DecisionOf
  <2>. QED BY <2>1, <2>2, RangeEmpty, BuildEventsType DEF Committed
<1>6. \A t \in Evaluated : Committed(t)' = Committed(t)
  BY <1>1, <1>3 DEF Evaluated, Committed, DecisionOf
<1>. QED BY <1>1, <1>4, <1>5, <1>6 DEF AcceptedTraces

\* Every step of the pipeline is a step of the gate or invisible to it.
LEMMA GateStep ==
  ASSUME TypeInv, Safe, Next,
         LedgerMode = "strict", LedgerDurable, BusDurable
  PROVE  \/ \E t \in Trace : Gate!Accept(t) \/ Gate!Request(t)
         \/ UNCHANGED <<AcceptedTraces, bus>>
<1>. USE DEF handlerVars, historyVars, storeVars, handoffVars
<1>1. CASE Request
  BY <1>1, EvaluateAcceptsNothing, KeyAssumption DEF Request
<1>2. CASE AppendEvent \/ AppendInvalid \/ AppendRaises
  <2>1. UNCHANGED <<evals, bus>>
    BY <1>2 DEF AppendEvent, AppendInvalid, AppendRaises
  <2>2. /\ \A t \in Evaluated : t # cur => Committed(t)' = Committed(t)
        /\ \A t \in Evaluated : Committed(t) => Committed(t)'
        /\ Evaluated' = Evaluated /\ cur \in Trace
    BY <1>2, <2>1, LedgerGrows, EvaluatedStable, EvaluatedIsTrace
       DEF Committed, DecisionOf
  <2>3. CASE AcceptedTraces' = AcceptedTraces
    BY <2>1, <2>3
  <2>4. CASE AcceptedTraces' # AcceptedTraces
    <3>1. cur \notin AcceptedTraces /\ AcceptedTraces' = AcceptedTraces \cup {cur}
      BY <2>2, <2>4 DEF AcceptedTraces
    <3>. QED BY <2>1, <2>2, <3>1 DEF Gate!Accept, AcceptedTraces
  <2>. QED BY <2>3, <2>4
<1>3. CASE BusPublish \/ BusPublishRaises
  <2>1. /\ UNCHANGED <<evals, ledger>> /\ pc = "publish"
        /\ bus' = bus \/ bus' = Append(bus, cur)
    BY <1>3 DEF BusPublish, BusPublishRaises
  <2>2. AcceptedTraces' = AcceptedTraces
    BY <2>1 DEF AcceptedTraces, Evaluated, Committed, DecisionOf
  <2>3. cur \in AcceptedTraces /\ cur \in Trace
    BY <2>1, Domains
       DEF Safe, HandoffIsDue, AcceptedTraces, TypeInv, TypeOK, HandlerOwnsTrace, Evaluated
  <2>4. \A u \in Gate!Range(bus) : u < cur
    BY <2>1 DEF Safe, HandoffIsDue, Range, Gate!Range
  <2>. QED BY <2>1, <2>2, <2>3, <2>4 DEF Gate!Request, AcceptedTraces
<1>4. CASE ~(\/ Request \/ AppendEvent \/ AppendInvalid \/ AppendRaises
             \/ BusPublish \/ BusPublishRaises)
  <2>1. UNCHANGED <<evals, ledger, bus>>
    BY <1>4 DEF Next, HandlerStep, HandlerFault, Review, Approve, Reject, ResolveGate,
                CommitAccepted, CommitRefused, KafkaSend, KafkaSendRaises, KafkaFlush,
                KafkaFlushRaises, Save, Recorded, GateDone, BrokerAck, BrokerDrop,
                Crash, SurvivingLedger, Restart
  <2>. QED BY <2>1 DEF AcceptedTraces, Evaluated, Committed, DecisionOf
<1>. QED BY <1>1, <1>2, <1>3, <1>4

\* "In strict mode the Ledger is the official commit gate": the pipeline, with
\* all its failures, crashes and restarts, implements CommitGate.
THEOREM StrictImplementsGate ==
  ASSUME LedgerMode = "strict", LedgerDurable, BusDurable
  PROVE  Spec => ImplementsCommitGate
<1>1. Init => Gate!Init
  BY DEF Init, Gate!Init, Evaluated
<1>2. TypeInv /\ Safe /\ [Next]_vars => [Gate!Next]_<<AcceptedTraces, bus>>
  <2>. SUFFICES ASSUME TypeInv, Safe, [Next]_vars
                PROVE  [Gate!Next]_<<AcceptedTraces, bus>>
    OBVIOUS
  <2>1. CASE Next
    BY <2>1, GateStep DEF Gate!Next
  <2>2. CASE UNCHANGED vars
    BY <2>2 DEF vars, historyVars, handoffVars, AcceptedTraces, Evaluated, Committed,
                DecisionOf
  <2>. QED BY <2>1, <2>2
<1>3. IInv => TypeInv /\ Safe
  BY DEF IInv, TypeInv, Safe
<1>. QED BY <1>1, <1>2, <1>3, Inductive, PTL
         DEF Spec, ImplementsCommitGate, Gate!Spec, AcceptedTraces

-----------------------------------------------------------------------------
(* Repeated keys, and how requests end. *)

LifeOf(t) == evals[t].life

Running(t) == pc \in Evaluating /\ cur = t

\* The newest evaluation is the one that runs, if any, and it runs in this
\* life of the process.
RequestsEnd ==
  /\ \A t \in Trace : fate[t] = "running" <=> Running(t)
  /\ \A t \in Evaluated : LifeOf(t) <= crashes
  /\ pc \in Evaluating => LifeOf(cur) = crashes

\* The key of a running evaluation is not cached yet; the key of one that ended
\* in this life without an exception is.  So no second one gets past the cache.
KeysAreKept ==
  /\ pc \in Evaluating /\ KeyOf(cur) # NoKey => idem[KeyOf(cur)] = None
  /\ \A t \in Evaluated :
       /\ KeyOf(t) # NoKey /\ LifeOf(t) = crashes
       /\ fate[t] # "raised" /\ ~Running(t)
       => idem[KeyOf(t)] # None
  /\ \A t, u \in Evaluated :
       t < u /\ KeyOf(t) = KeyOf(u) /\ KeyOf(t) # NoKey =>
         fate[t] = "raised" \/ LifeOf(t) < LifeOf(u)

Kept == RequestsEnd /\ KeysAreKept

\* The history of evaluations is typed entry by entry.
LEMMA EvaluatedType ==
  ASSUME TypeInv
  PROVE  /\ Evaluated \subseteq Trace /\ Evaluated \subseteq Nat /\ crashes \in Nat
         /\ \A t \in Evaluated : KeyOf(t) \in Key \cup {NoKey} /\ LifeOf(t) \in Nat
<1>1. evals \in Seq(Evaluation) /\ crashes \in Nat
  BY DEF TypeInv, TypeOK
<1>2. ASSUME NEW t \in Evaluated
      PROVE  KeyOf(t) \in Key \cup {NoKey} /\ LifeOf(t) \in Nat
  <2>1. t \in 1..Len(evals)
    BY DEF Evaluated
  <2>2. evals[t] \in Evaluation
    BY <1>1, <2>1
  <2>. QED BY <2>2 DEF Evaluation, KeyOf, LifeOf
<1>3. Evaluated \subseteq Trace /\ Evaluated \subseteq Nat
  BY <1>1, EvaluatedIsTrace DEF Evaluated
<1>. QED BY <1>1, <1>2, <1>3

\* What a new evaluation adds to the history.
LEMMA Opened ==
  ASSUME TypeInv, NEW k \in Key \cup {NoKey}, NEW d \in Decision, Evaluate(k, d)
  PROVE  LET n == Len(evals) + 1 IN
         /\ n \in Trace /\ n \in Nat /\ n \notin Evaluated /\ cur' = n
         /\ Evaluated' = Evaluated \cup {n}
         /\ \A t \in Evaluated : t < n /\ t \in Trace /\ evals'[t] = evals[t]
         /\ evals'[n] = [key |-> k, decision |-> d, life |-> crashes]
         /\ pc = "idle" /\ pc' \in {"commit", "publish", "save"}
         /\ fate'[n] = "running"
         /\ \A t \in Trace : t # n => fate'[t] = fate[t]
<1>. DEFINE n == Len(evals) + 1
            row == [key |-> k, decision |-> d, life |-> crashes]
<1>1. /\ evals \in Seq(Evaluation) /\ row \in Evaluation
      /\ evals' = Append(evals, row)
  BY DEF TypeInv, TypeOK, Evaluation, Evaluate
<1>2. /\ Len(evals') = n /\ Len(evals) \in Nat /\ evals'[n] = row
      /\ \A t \in 1..Len(evals) : evals'[t] = evals[t]
  BY <1>1
<1>3. n \in Trace /\ cur' = n /\ pc = "idle" /\ pc' \in {"commit", "publish", "save"}
  BY Domains DEF Evaluate
<1>4. fate'[n] = "running" /\ \A t \in Trace : t # n => fate'[t] = fate[t]
  BY <1>3 DEF Evaluate, TypeInv, TypeOK
<1>. QED BY <1>2, <1>3, <1>4, EvaluatedIsTrace DEF Evaluated

\* Nothing has been asked at first.
LEMMA KeptInit == Init => Kept
BY Domains DEF Init, Kept, RequestsEnd, KeysAreKept, Running, Evaluated

\* A step that starts and ends no request.
LEMMA KeptQuiet ==
  ASSUME Kept, UNCHANGED <<evals, fate, idem, crashes>>,
         \/ pc \notin Evaluating /\ pc' \notin Evaluating
         \/ pc \in Evaluating /\ pc' \in Evaluating /\ cur' = cur
  PROVE  Kept'
BY DEF Kept, RequestsEnd, KeysAreKept, Running, Evaluated, KeyOf, LifeOf

\* A cache miss is what makes a new evaluation of a key possible.
LEMMA KeptEvaluate ==
  ASSUME TypeInv, Kept,
         NEW k \in Key \cup {NoKey}, NEW d \in Decision, Evaluate(k, d)
  PROVE  Kept'
<1>. DEFINE n == Len(evals) + 1
<1>1. /\ n \in Trace /\ n \in Nat /\ n \notin Evaluated /\ cur' = n
      /\ Evaluated' = Evaluated \cup {n}
      /\ \A t \in Evaluated : t < n /\ t \in Trace /\ evals'[t] = evals[t]
      /\ evals'[n] = [key |-> k, decision |-> d, life |-> crashes]
      /\ pc = "idle" /\ pc' \in {"commit", "publish", "save"}
      /\ fate'[n] = "running"
      /\ \A t \in Trace : t # n => fate'[t] = fate[t]
  BY Opened
<1>2. UNCHANGED <<idem, crashes>> /\ crashes \in Nat /\ (k # NoKey => idem[k] = None)
  BY DEF Evaluate, CacheMiss, faultVars, TypeInv, TypeOK
<1>3. /\ \A t \in Evaluated : evals'[t].key = KeyOf(t) /\ evals'[t].life = LifeOf(t)
      /\ evals'[n].key = k /\ evals'[n].life = crashes
  BY <1>1 DEF KeyOf, LifeOf
<1>4. pc \notin Evaluating /\ pc' \in Evaluating
  BY <1>1, Domains
<1>5. RequestsEnd'
  <2>1. \A t \in Trace : fate'[t] = "running" <=> t = n
    BY <1>1, <1>4 DEF Kept, RequestsEnd, Running
  <2>2. \A t \in Evaluated' : evals'[t].life <= crashes
    BY <1>1, <1>2, <1>3 DEF Kept, RequestsEnd
  <2>. QED BY <1>1, <1>2, <1>3, <1>4, <2>1, <2>2 DEF RequestsEnd, Running, LifeOf
<1>6. \A t \in Evaluated :
        KeyOf(t) = k /\ k # NoKey => fate'[t] = "raised" \/ LifeOf(t) < crashes
  <2>. SUFFICES ASSUME NEW t \in Evaluated, KeyOf(t) = k, k # NoKey, fate'[t] # "raised"
                PROVE  LifeOf(t) < crashes
    OBVIOUS
  <2>1. fate[t] # "raised" /\ idem[KeyOf(t)] = None
    BY <1>1, <1>2
  <2>2. LifeOf(t) # crashes /\ LifeOf(t) <= crashes
    BY <1>4, <2>1 DEF Kept, RequestsEnd, KeysAreKept, Running
  <2>3. LifeOf(t) \in Nat
    BY EvaluatedType
  <2>. QED BY <1>2, <2>2, <2>3
<1>7. KeysAreKept'
  <2>1. k # NoKey => idem'[k] = None
    BY <1>2
  <2>2. ASSUME NEW t \in Evaluated', evals'[t].key # NoKey,
               evals'[t].life = crashes, fate'[t] # "raised", t # n
        PROVE  idem'[evals'[t].key] # None
    <3>1. t \in Evaluated /\ t \in Trace /\ fate'[t] = fate[t] /\ ~Running(t)
      BY <1>1, <1>4, <2>2 DEF Running
    <3>2. KeyOf(t) # NoKey /\ LifeOf(t) = crashes /\ fate[t] # "raised"
      BY <1>3, <2>2, <3>1
    <3>3. idem[KeyOf(t)] # None
      BY <3>1, <3>2 DEF Kept, KeysAreKept
    <3>. QED BY <1>2, <1>3, <3>1, <3>3
  <2>3. ASSUME NEW t \in Evaluated', NEW u \in Evaluated',
               t < u, evals'[t].key = evals'[u].key, evals'[t].key # NoKey
        PROVE  fate'[t] = "raised" \/ evals'[t].life < evals'[u].life
    <3>1. t \in Evaluated
      <4>1. Evaluated \subseteq Nat /\ (u = n \/ u \in Evaluated)
        BY <1>1, EvaluatedType
      <4>2. t # n
        <5>1. CASE u = n
          BY <1>1, <2>3, <5>1
        <5>2. CASE u \in Evaluated
          <6>1. u < n /\ u \in Nat
            BY <1>1, <4>1, <5>2
          <6>. QED BY <1>1, <2>3, <6>1
        <5>. QED BY <4>1, <5>1, <5>2
      <4>. QED BY <1>1, <4>2
    <3>2. CASE u = n
      BY <1>3, <1>6, <2>3, <3>1, <3>2
    <3>3. CASE u \in Evaluated
      <4>1. KeyOf(t) = KeyOf(u) /\ KeyOf(t) # NoKey
        BY <1>3, <2>3, <3>1, <3>3
      <4>2. fate[t] = "raised" \/ LifeOf(t) < LifeOf(u)
        BY <2>3, <3>1, <3>3, <4>1 DEF Kept, KeysAreKept
      <4>3. t \in Trace /\ t # n /\ fate'[t] = fate[t]
        BY <1>1, <3>1
      <4>. QED BY <1>3, <3>1, <3>3, <4>2, <4>3
    <3>. QED BY <1>1, <3>2, <3>3
  <2>. QED BY <1>1, <1>2, <1>3, <2>1, <2>2, <2>3 DEF KeysAreKept, KeyOf, LifeOf, Running, Evaluating
<1>. QED BY <1>5, <1>7 DEF Kept

\* A request ends: with an exception and no trace of it in the cache, or with
\* a result under its key.
LEMMA KeptEnd ==
  ASSUME TypeInv, Kept, UNCHANGED <<evals, crashes>>, pc \in Evaluating,
         \/ Raise /\ idem' = idem
         \/ \E f \in {"answered", "refused"}, r \in Result : Answer(f, r)
  PROVE  Kept'
<1>1. cur = Len(evals) /\ cur \in Trace /\ KeyOf(cur) \in Key \cup {NoKey}
  BY CurrentTrace DEF TypeInv, HandlerOwnsTrace
<1>2. /\ pc' = "idle" /\ pc' \notin Evaluating
      /\ fate'[cur] # "running" /\ \A t \in Trace : t # cur => fate'[t] = fate[t]
  BY <1>1, Domains DEF Raise, Answer, BackToLoop, TypeInv, TypeOK
<1>3. /\ Evaluated' = Evaluated /\ Evaluated \subseteq Trace
      /\ \A t : KeyOf(t)' = KeyOf(t) /\ LifeOf(t)' = LifeOf(t)
  BY EvaluatedIsTrace DEF Evaluated, KeyOf, LifeOf
<1>4. /\ \A k \in Key : idem[k] # None => idem'[k] # None
      /\ fate'[cur] # "raised" /\ KeyOf(cur) # NoKey => idem'[KeyOf(cur)] # None
  <2>1. CASE Raise /\ idem' = idem
    BY <1>1, <2>1 DEF Raise, TypeInv, TypeOK
  <2>2. ASSUME NEW f \in {"answered", "refused"}, NEW r \in Result, Answer(f, r)
        PROVE  /\ \A k \in Key : idem[k] # None => idem'[k] # None
               /\ KeyOf(cur) # NoKey => idem'[KeyOf(cur)] # None
    <3>1. r # None
      BY NoneAssumption
    <3>2. idem' = IF KeyOf(cur) = NoKey THEN idem ELSE [idem EXCEPT ![KeyOf(cur)] = r]
      BY <2>2 DEF Answer, Cache
    <3>. QED BY <1>1, <3>1, <3>2 DEF TypeInv, TypeOK
  <2>. QED BY <2>1, <2>2
<1>5. RequestsEnd'
  BY <1>1, <1>2, <1>3 DEF Kept, RequestsEnd, Running
<1>6. ASSUME NEW t \in Evaluated,
             KeyOf(t) # NoKey, LifeOf(t) = crashes, fate'[t] # "raised"
      PROVE  idem'[KeyOf(t)] # None
  <2>1. KeyOf(t) \in Key
    BY <1>6, EvaluatedType
  <2>2. CASE t = cur
    BY <1>4, <1>6, <2>2
  <2>3. CASE t # cur
    <3>1. fate[t] # "raised" /\ ~Running(t)
      BY <1>2, <1>3, <1>6, <2>3 DEF Running
    <3>. QED BY <1>4, <1>6, <2>1, <3>1 DEF Kept, KeysAreKept
  <2>. QED BY <2>2, <2>3
<1>7. ASSUME NEW t \in Evaluated, NEW u \in Evaluated,
             t < u, KeyOf(t) = KeyOf(u), KeyOf(t) # NoKey
      PROVE  fate'[t] = "raised" \/ LifeOf(t) < LifeOf(u)
  <2>1. t # cur
    BY <1>1, <1>7, EvaluatedIsTrace DEF Evaluated
  <2>2. fate'[t] = fate[t]
    BY <1>2, <1>3, <2>1
  <2>. QED BY <1>7, <2>2 DEF Kept, KeysAreKept
<1>8. KeysAreKept'
  BY <1>2, <1>3, <1>6, <1>7 DEF KeysAreKept
<1>. QED BY <1>5, <1>8 DEF Kept

\* A crash empties the cache and starts a new life.
LEMMA KeptCrash ==
  ASSUME TypeInv, Kept, Crash
  PROVE  Kept'
<1>1. /\ evals' = evals /\ crashes' = crashes + 1 /\ crashes \in Nat
      /\ pc' = "down" /\ pc' \notin Evaluating
  BY Domains DEF Crash, TypeInv, TypeOK
<1>2. /\ Evaluated' = Evaluated /\ Evaluated \subseteq Trace
      /\ \A t : KeyOf(t)' = KeyOf(t) /\ LifeOf(t)' = LifeOf(t)
      /\ \A t \in Evaluated : LifeOf(t) \in Nat /\ LifeOf(t) < crashes'
  BY <1>1, EvaluatedType DEF Evaluated, KeyOf, LifeOf, Kept, RequestsEnd
<1>3. /\ \A t \in Trace : fate'[t] # "running"
      /\ \A t \in Trace : ~Running(t) => fate'[t] = fate[t]
  <2>1. CASE pc \in Evaluating
    <3>1. cur \in Trace /\ fate' = [fate EXCEPT ![cur] = "crashed"]
      BY <2>1, CurrentTrace DEF Crash
    <3>. QED BY <2>1, <3>1 DEF TypeInv, TypeOK, Kept, RequestsEnd, Running
  <2>2. CASE pc \notin Evaluating
    BY <2>2 DEF Crash, Kept, RequestsEnd, Running
  <2>. QED BY <2>1, <2>2
<1>4. RequestsEnd'
  BY <1>1, <1>2, <1>3 DEF RequestsEnd, Running
<1>5. ASSUME NEW t \in Evaluated, NEW u \in Evaluated,
             t < u, KeyOf(t) = KeyOf(u), KeyOf(t) # NoKey
      PROVE  fate'[t] = "raised" \/ LifeOf(t) < LifeOf(u)
  <2>1. ~Running(t)
    BY <1>5, EvaluatedIsTrace DEF Evaluated, Running, TypeInv, HandlerOwnsTrace
  <2>. QED BY <1>2, <1>3, <1>5, <2>1 DEF Kept, KeysAreKept
<1>6. KeysAreKept'
  BY <1>1, <1>2, <1>5 DEF KeysAreKept
<1>. QED BY <1>4, <1>6 DEF Kept

\* The results a handler can be refused with are results.
LEMMA RefusalIsResult ==
  ASSUME TypeInv, CommitRefused
  PROVE  \E r \in Result : Answer("refused", r)
<1>1. cur \in Trace
  BY CurrentTrace, Domains DEF CommitRefused
<1>2. ErrorResult \in Result
  BY <1>1, Domains DEF ErrorResult, Result
<1>3. PriorResult # None => PriorResult \in Result
  <2>1. idem \in [Key -> Result \cup {None}] /\ KeyOf(cur) \in Key \cup {NoKey}
    BY CurrentTrace, Domains DEF CommitRefused, TypeInv, TypeOK
  <2>2. traces[cur] # None => traces[cur].status \in Status
    BY <1>1 DEF TypeInv, TypeOK, StoredTrace
  <2>. QED BY <1>1, <2>1, <2>2 DEF PriorResult, Result
<1>. QED BY <1>2, <1>3 DEF CommitRefused

\* The result of the decision the handler works on is a result.
LEMMA DecidedIsResult ==
  ASSUME TypeInv, pc \in Evaluating
  PROVE  [trace |-> cur, status |-> StatusOf(DecisionOf(cur))] \in Result
BY CurrentTrace, Domains DEF Result

\* Every step keeps the cache and the history of requests in agreement.
LEMMA KeptStep == TypeInv /\ Kept /\ [Next]_vars => Kept'
<1>. SUFFICES ASSUME TypeInv, Kept, [Next]_vars PROVE Kept'
  OBVIOUS
<1>. USE DEF handlerVars, historyVars, storeVars, handoffVars, faultVars
<1>1. CASE Request
  BY <1>1, KeptEvaluate, KeyAssumption DEF Request
<1>2. CASE Crash
  BY <1>2, KeptCrash
<1>3. CASE Review \/ GateDone \/ Restart
  <2>1. UNCHANGED <<evals, fate, idem, crashes>>
    BY <1>3 DEF Review, Approve, Reject, ResolveGate, GateDone, Restart
  <2>2. pc \notin Evaluating /\ pc' \notin Evaluating
    BY <1>3, Domains DEF Review, Approve, Reject, ResolveGate, GateDone, BackToLoop,
                         Restart, GoTo
  <2>. QED BY <2>1, <2>2, KeptQuiet
<1>4. CASE CommitAccepted \/ BusPublish \/ KafkaSend \/ KafkaFlush
  <2>1. UNCHANGED <<evals, fate, idem, crashes>> /\ cur' = cur /\ pc \in Evaluating
    BY <1>4, Domains DEF CommitAccepted, BusPublish, KafkaSend, KafkaFlush, GoTo
  <2>2. pc' \in Evaluating
    BY <1>4, <2>1, CurrentTrace, Domains
       DEF CommitAccepted, BusPublish, KafkaSend, KafkaFlush, GoTo
  <2>. QED BY <2>1, <2>2, KeptQuiet
<1>5. CASE AppendEvent \/ AppendInvalid \/ BrokerAck \/ BrokerDrop \/ UNCHANGED vars
  <2>1. UNCHANGED <<pc, cur, evals, fate, idem, crashes>>
    BY <1>5 DEF AppendEvent, AppendInvalid, BrokerAck, BrokerDrop, Fail, vars
  <2>. QED BY <2>1, KeptQuiet
<1>6. CASE CommitRefused
  <2>1. UNCHANGED <<evals, crashes>> /\ pc \in Evaluating
    BY <1>6, Domains DEF CommitRefused
  <2>. QED BY <1>6, <2>1, RefusalIsResult, KeptEnd
<1>7. CASE BusPublishRaises \/ KafkaSendRaises \/ KafkaFlushRaises
  <2>1. UNCHANGED <<evals, crashes>> /\ pc \in Evaluating /\ Raise /\ idem' = idem
    BY <1>7, Domains DEF BusPublishRaises, KafkaSendRaises, KafkaFlushRaises, Fail
  <2>. QED BY <2>1, KeptEnd
<1>8. CASE Recorded
  <2>1. UNCHANGED <<evals, crashes>> /\ pc \in Evaluating
    BY <1>8, Domains DEF Recorded
  <2>. QED BY <1>8, <2>1, DecidedIsResult, KeptEnd DEF Recorded
<1>9. CASE Save
  <2>1. UNCHANGED <<evals, crashes>> /\ pc \in Evaluating
    BY <1>9, Domains DEF Save
  <2>2. CASE LedgerMode = "parallel"
    <3>1. UNCHANGED <<fate, idem, cur>> /\ pc' \in Evaluating
      BY <1>9, <2>2, Domains DEF Save
    <3>. QED BY <2>1, <3>1, KeptQuiet
  <2>3. CASE LedgerMode # "parallel"
    BY <1>9, <2>1, <2>3, DecidedIsResult, KeptEnd DEF Save
  <2>. QED BY <2>2, <2>3
<1>10. CASE AppendRaises
  <2>1. UNCHANGED <<evals, crashes>>
    BY <1>10 DEF AppendRaises, Fail
  <2>2. CASE CommitRaises
    BY <2>1, <2>2, Domains, KeptEnd DEF CommitRaises
  <2>3. CASE RecordRaises
    <3>1. pc \in Evaluating
      BY <2>3, Domains DEF RecordRaises
    <3>. QED BY <2>1, <2>3, <3>1, DecidedIsResult, KeptEnd DEF RecordRaises
  <2>4. CASE GateRaises
    BY <2>1, <2>4, Domains, KeptQuiet DEF GateRaises, BackToLoop
  <2>. QED BY <1>10, <2>2, <2>3, <2>4 DEF AppendRaises
<1>. QED BY <1>1, <1>2, <1>3, <1>4, <1>5, <1>6, <1>7, <1>8, <1>9, <1>10
         DEF Next, HandlerStep, HandlerFault

\* The strengthening holds in every behaviour.
LEMMA KeptAlways == Spec => [](TypeInv /\ Safe /\ Kept)
<1>1. Init => TypeInv /\ Safe /\ Kept
  BY TypeInit, SafeInit, KeptInit
<1>2. TypeInv /\ Safe /\ Kept /\ [Next]_vars => (TypeInv /\ Safe /\ Kept)'
  BY TypeStep, SafeStep, KeptStep
<1>. QED BY <1>1, <1>2, PTL DEF Spec

\* Execution is requested twice under one key only after the first request
\* raised or the process restarted (evaluate, the idempotency check).
THEOREM KeyExecutesOnce == Spec => []RepeatOnlyAfterLoss
<1>1. Safe /\ Kept => RepeatOnlyAfterLoss
  BY DEF Safe, HandoffIsDue, Kept, KeysAreKept, RepeatOnlyAfterLoss, LifeOf
<1>. QED BY <1>1, KeptAlways, PTL

\* A cached result stays as it is until the process dies, so every repeat of a
\* request gets the same reply (IdempotencyStore.set, its callers).
THEOREM RepliesAreStable == Spec => CacheIsWriteOnce
<1>1. TypeInv /\ Kept /\ [Next]_vars =>
        [\A k \in Key : idem[k] # None /\ pc' # "down" => idem'[k] = idem[k]]_vars
  <2>. SUFFICES ASSUME TypeInv, Kept, Next, NEW k \in Key, idem[k] # None, pc' # "down"
                PROVE  idem'[k] = idem[k]
    OBVIOUS
  <2>. USE DEF handlerVars, historyVars, storeVars, handoffVars, faultVars
  <2>1. ASSUME NEW f, NEW r, pc \in Evaluating, Answer(f, r)
        PROVE  idem'[k] = idem[k]
    <3>1. KeyOf(cur) # NoKey => KeyOf(cur) # k /\ KeyOf(cur) \in Key
      BY <2>1, CurrentTrace DEF Kept, KeysAreKept
    <3>. QED BY <2>1, <3>1 DEF Answer, Cache, TypeInv, TypeOK
  <2>2. CASE CommitRefused \/ Save \/ Recorded
    BY <2>1, <2>2, Domains DEF CommitRefused, Save, Recorded
  <2>3. CASE AppendRaises
    BY <2>1, <2>3, Domains DEF AppendRaises, CommitRaises, RecordRaises, GateRaises
  <2>4. CASE ~(CommitRefused \/ Save \/ Recorded \/ AppendRaises)
    <3>1. idem' = idem
      BY <2>4 DEF Next, HandlerStep, HandlerFault, Request, Evaluate, Review, Approve,
           Reject, ResolveGate, CommitAccepted, BusPublish, BusPublishRaises, KafkaSend,
           KafkaSendRaises, KafkaFlush, KafkaFlushRaises, GateDone, AppendEvent,
           AppendInvalid, BrokerAck, BrokerDrop, Crash, Restart
    <3>. QED BY <3>1
  <2>. QED BY <2>2, <2>3, <2>4
<1>. QED BY <1>1, KeptAlways, PTL DEF Spec, CacheIsWriteOnce

-----------------------------------------------------------------------------

(* Cached results, stored traces and gates. *)

Confirmed(t) == StatusOf(DecisionOf(t)) = "confirmed"

\* A cached result belongs to a request of this life that ended with it.
Entries ==
  \A k \in Key : idem[k] # None =>
    LET t == idem[k].trace IN
    /\ t \in Evaluated /\ KeyOf(t) = k /\ LifeOf(t) = crashes
    /\ \/ fate[t] = "refused" /\ idem[k].status = "error"
       \/ /\ fate[t] = "answered" /\ traces[t] # None
          /\ idem[k].status = StatusOf(DecisionOf(t))

\* A stored trace belongs to a request of this life that got as far as its end.
Stored ==
  \A t \in Trace : traces[t] # None =>
    /\ t \in Evaluated /\ LifeOf(t) = crashes
    /\ fate[t] = "answered" \/ (pc = "record" /\ cur = t)
    /\ traces[t].status = StatusOf(DecisionOf(t))
    /\ traces[t].gate = "pending" <=> StatusOf(DecisionOf(t)) = "pending_human"
    /\ Confirmed(t) => t \in Range(bus)
    /\ LedgerMode = "strict" => Committed(t)

\* The gates are those of the escalated decisions of this life.
GatesLive ==
  \A t \in Evaluated :
    gates[t] # "none" <=>
      LifeOf(t) = crashes /\ StatusOf(DecisionOf(t)) = "pending_human"

\* How far the running request has got, and how far a refused one got.
Progress ==
  /\ \A t \in Trace : fate[t] = "refused" => t \notin HandedOff
  /\ pc = "commit" => cur \notin HandedOff
  /\ pc \in Evaluating => (traces[cur] # None <=> pc = "record")
  /\ pc \in {"send", "flush"} => cur \in Range(bus)
  /\ pc = "save" => /\ Confirmed(cur) => cur \in Range(bus)
                    /\ LedgerMode = "strict" => Committed(cur)

Settled == Entries /\ Stored /\ GatesLive /\ Progress

\* No request has ended at first.
LEMMA SettledInit == Init => Settled
<1>. SUFFICES ASSUME Init PROVE Settled
  OBVIOUS
<1>1. HandedOff = {}
  BY RangeEmpty DEF Init, HandedOff
<1>2. pc = "idle" /\ pc \notin Evaluating /\ Evaluated = {}
  BY Domains DEF Init, Evaluated
<1>. QED BY <1>1, <1>2 DEF Init, Settled, Entries, Stored, GatesLive, Progress

\* What is known of a running request.
LEMMA RunningRequest ==
  ASSUME TypeInv, Kept, pc \in Evaluating
  PROVE  /\ cur \in Evaluated /\ cur \in Trace /\ fate[cur] = "running"
         /\ LifeOf(cur) = crashes /\ DecisionOf(cur) \in Decision
         /\ KeyOf(cur) \in Key \cup {NoKey}
         /\ KeyOf(cur) # NoKey => idem[KeyOf(cur)] = None
<1>1. cur = Len(evals) /\ Len(evals) \in Nat /\ cur \in Trace /\ cur \in Nat
  BY CurrentTrace, EvaluatedIsTrace DEF TypeInv, HandlerOwnsTrace
<1>2. cur \in Evaluated
  BY <1>1, Domains DEF Evaluated
<1>. QED BY <1>1, <1>2, CurrentTrace DEF Kept, RequestsEnd, KeysAreKept, Running

\* A step that starts and ends no request, opens no gate and shrinks neither
\* the ledger nor the bus: only how far the running request got is at stake.
LEMMA SettledFrame ==
  ASSUME TypeInv, Settled, UNCHANGED <<evals, fate, idem, traces, crashes>>,
         \A t \in Trace : gates'[t] = "none" <=> gates[t] = "none",
         \A t \in Trace : Range(ledger[t]) \subseteq Range(ledger'[t]),
         Range(bus) \subseteq Range(bus'),
         pc = "record" => pc' = "record" /\ cur' = cur,
         Progress'
  PROVE  Settled'
<1>1. /\ Evaluated' = Evaluated /\ Evaluated \subseteq Trace
      /\ \A t : LifeOf(t)' = LifeOf(t) /\ KeyOf(t)' = KeyOf(t)
      /\ \A t : DecisionOf(t)' = DecisionOf(t) /\ Confirmed(t)' = Confirmed(t)
      /\ \A t \in Trace : Committed(t) => Committed(t)'
  BY EvaluatedType DEF Evaluated, LifeOf, KeyOf, DecisionOf, Confirmed, Committed
<1>2. Entries'
  BY DEF Settled, Entries, Evaluated, LifeOf, KeyOf, DecisionOf
<1>3. Stored'
  BY <1>1 DEF Settled, Stored
<1>4. GatesLive'
  BY <1>1 DEF Settled, GatesLive
<1>. QED BY <1>2, <1>3, <1>4 DEF Settled

\* A new evaluation: nothing is stored, cached or handed off for it yet.
LEMMA SettledEvaluate ==
  ASSUME TypeInv, Safe, Kept, Settled,
         NEW k \in Key \cup {NoKey}, NEW d \in Decision, Evaluate(k, d)
  PROVE  Settled'
<1>. DEFINE n == Len(evals) + 1
<1>1. /\ n \in Trace /\ n \in Nat /\ n \notin Evaluated /\ cur' = n
      /\ Evaluated' = Evaluated \cup {n}
      /\ \A t \in Evaluated : t < n /\ t \in Trace /\ evals'[t] = evals[t]
      /\ evals'[n] = [key |-> k, decision |-> d, life |-> crashes]
      /\ pc = "idle" /\ pc' \in {"commit", "publish", "save"}
      /\ fate'[n] = "running"
      /\ \A t \in Trace : t # n => fate'[t] = fate[t]
  BY Opened
<1>2. UNCHANGED <<idem, traces, ledger, bus, buffer, topic, crashes>>
  BY DEF Evaluate, handoffVars, faultVars
<1>3. ASSUME NEW t \in Evaluated
      PROVE  /\ KeyOf(t)' = KeyOf(t) /\ LifeOf(t)' = LifeOf(t)
             /\ DecisionOf(t)' = DecisionOf(t) /\ Confirmed(t)' = Confirmed(t)
             /\ Committed(t)' = Committed(t)
  BY <1>1, <1>2 DEF KeyOf, LifeOf, DecisionOf, Confirmed, Committed
<1>4. HandedOff' = HandedOff /\ n \notin HandedOff /\ traces[n] = None
  BY <1>1, <1>2 DEF HandedOff, Safe, HandoffIsDue, Settled, Stored
<1>5. /\ \A t \in Evaluated : gates'[t] = gates[t]
      /\ gates'[n] # "none" <=> StatusOf(d) = "pending_human"
  BY <1>1 DEF Evaluate, OpenGate, TypeInv, TypeOK, Safe, CommitLosesNothing
<1>6. Entries'
  <2>. SUFFICES ASSUME NEW j \in Key, idem[j] # None
                PROVE  /\ idem[j].trace \in Evaluated'
                       /\ evals'[idem[j].trace].key = j
                       /\ evals'[idem[j].trace].life = crashes
                       /\ \/ /\ fate'[idem[j].trace] = "refused"
                             /\ idem[j].status = "error"
                          \/ /\ fate'[idem[j].trace] = "answered"
                             /\ traces[idem[j].trace] # None
                             /\ idem[j].status = StatusOf(evals'[idem[j].trace].decision)
    BY <1>2 DEF Entries, KeyOf, LifeOf, DecisionOf
  <2>1. PICK t \in Evaluated : t = idem[j].trace
    BY DEF Settled, Entries
  <2>2. t # n /\ t \in Trace /\ evals'[t] = evals[t] /\ fate'[t] = fate[t]
    BY <1>1, <2>1
  <2>. QED BY <1>1, <2>1, <2>2 DEF Settled, Entries, KeyOf, LifeOf, DecisionOf
<1>7. Stored'
  <2>. SUFFICES ASSUME NEW t \in Trace, traces[t] # None
                PROVE  /\ t \in Evaluated' /\ LifeOf(t)' = crashes
                       /\ fate'[t] = "answered"
                       /\ traces[t].status = StatusOf(DecisionOf(t)')
                       /\ traces[t].gate = "pending" <=>
                            StatusOf(DecisionOf(t)') = "pending_human"
                       /\ Confirmed(t)' => t \in Range(bus)
                       /\ LedgerMode = "strict" => Committed(t)'
    BY <1>2 DEF Stored, LifeOf, DecisionOf, Confirmed, Committed
  <2>1. t \in Evaluated /\ t # n /\ fate'[t] = fate[t]
    BY <1>1 DEF Settled, Stored
  <2>. QED BY <1>1, <1>3, <2>1 DEF Settled, Stored
<1>8. GatesLive'
  <2>1. ASSUME NEW t \in Evaluated
        PROVE  gates'[t] # "none" <=>
                 LifeOf(t)' = crashes /\ StatusOf(DecisionOf(t)') = "pending_human"
    BY <1>3, <1>5 DEF Settled, GatesLive
  <2>. QED BY <1>1, <1>2, <1>3, <1>5, <2>1 DEF GatesLive, LifeOf, DecisionOf
<1>9. Progress'
  <2>1. pc' = "save" => LedgerMode # "strict" /\ StatusOf(d) # "confirmed"
    BY Domains DEF Evaluate, Dispatch
  <2>2. \A t \in Trace : fate'[t] = "refused" => t \notin HandedOff
    BY <1>1 DEF Settled, Progress
  <2>. QED BY <1>1, <1>2, <1>3, <1>4, <2>1, <2>2 DEF Progress, Confirmed, DecisionOf
<1>. QED BY <1>6, <1>7, <1>8, <1>9 DEF Settled

\* The running request takes a step, short of its end.
LEMMA SettledMove ==
  ASSUME TypeInv, Safe, Kept, Settled,
         CommitAccepted \/ BusPublish \/ KafkaSend \/ KafkaFlush
  PROVE  Settled'
<1>. USE DEF handlerVars, historyVars, storeVars, handoffVars, faultVars
<1>1. /\ UNCHANGED <<evals, fate, idem, traces, crashes, gates, ledger, topic>>
      /\ cur' = cur /\ pc \in {"commit", "publish", "send", "flush"} /\ pc \in Evaluating
  BY Domains DEF CommitAccepted, BusPublish, KafkaSend, KafkaFlush, GoTo
<1>2. cur \in Trace /\ fate[cur] = "running" /\ traces[cur] = None
  BY <1>1, RunningRequest DEF Settled, Progress
<1>3. bus \in Seq(Trace) /\ buffer \in Seq(Trace)
  BY DEF TypeInv, TypeOK
<1>4. /\ Range(Append(bus, cur)) = Range(bus) \cup {cur}
      /\ Range(Append(buffer, cur)) = Range(buffer) \cup {cur}
  BY <1>2, <1>3, RangeAppend
<1>5. /\ Range(bus) \subseteq Range(bus') /\ HandedOff' \subseteq HandedOff \cup {cur}
      /\ pc = "publish" => cur \in Range(bus')
  BY <1>1, <1>4 DEF CommitAccepted, BusPublish, KafkaSend, KafkaFlush, HandedOff
<1>6. DecisionOf(cur)' = DecisionOf(cur) /\ Committed(cur)' = Committed(cur)
  BY <1>1 DEF DecisionOf, Committed
<1>7. /\ pc' \in {"publish", "send", "flush", "save"}
      /\ pc' \in {"send", "flush"} => pc \in {"publish", "send"}
      /\ pc' = "save" /\ pc = "commit" => ~Confirmed(cur)
  <2>1. CASE CommitAccepted
    <3>1. pc = "commit" /\ pc' = Dispatch(DecisionOf(cur))
      BY <2>1 DEF CommitAccepted, GoTo
    <3>. QED BY <3>1 DEF Dispatch, Confirmed
  <2>2. CASE BusPublish \/ KafkaSend \/ KafkaFlush
    BY <2>2 DEF BusPublish, KafkaSend, KafkaFlush, GoTo
  <2>. QED BY <2>1, <2>2
<1>8. pc = "commit" /\ LedgerMode = "strict" => Committed(cur)
  <2>1. pc = "commit" => todo = <<>> /\ "invalid" \notin seen
    BY DEF CommitAccepted, BusPublish, KafkaSend, KafkaFlush, CommitStatus
  <2>. QED BY <2>1, RangeEmpty DEF Safe, CommitLosesNothing, Committed
<1>9. Progress'
  <2>1. \A t \in Trace : fate'[t] = "refused" => t \notin HandedOff'
    BY <1>1, <1>2, <1>5 DEF Settled, Progress
  <2>2. pc' \in {"send", "flush"} => cur \in Range(bus')
    BY <1>1, <1>5, <1>7 DEF Settled, Progress
  <2>3. pc' = "save" => /\ Confirmed(cur) => cur \in Range(bus')
                        /\ LedgerMode = "strict" => Committed(cur)
    BY <1>1, <1>5, <1>7, <1>8 DEF Settled, Progress, Safe, HandoffIsDue
  <2>. QED BY <1>1, <1>2, <1>6, <1>7, <2>1, <2>2, <2>3 DEF Progress, Confirmed
<1>10. \A t \in Trace : gates'[t] = "none" <=> gates[t] = "none"
  BY <1>1
<1>. QED BY <1>1, <1>5, <1>9, <1>10, SettledFrame

\* A step outside the pipeline, or one of the ledger client that does not end
\* the handler.
LEMMA SettledBeside ==
  ASSUME TypeInv, Safe, Kept, Settled,
         UNCHANGED <<evals, fate, idem, traces, crashes, bus>>,
         \A t \in Trace : gates'[t] = "none" <=> gates[t] = "none",
         \A t \in Trace : Range(ledger[t]) \subseteq Range(ledger'[t]),
         HandedOff' \subseteq HandedOff,
         \/ UNCHANGED <<pc, cur>>
         \/ pc \notin Evaluating /\ pc' \notin Evaluating
  PROVE  Settled'
<1>1. pc = "record" => pc' = "record" /\ cur' = cur
  BY Domains
<1>2. Progress'
  <2>1. \A t \in Trace : fate'[t] = "refused" => t \notin HandedOff'
    BY DEF Settled, Progress
  <2>2. CASE pc' \notin Evaluating
    BY <2>1, <2>2, Domains DEF Progress
  <2>3. CASE UNCHANGED <<pc, cur>> /\ pc \in Evaluating
    <3>1. cur \in Trace /\ (Committed(cur) => Committed(cur)')
      BY <2>3, CurrentTrace DEF Committed, DecisionOf
    <3>2. Confirmed(cur)' = Confirmed(cur)
      BY <2>3 DEF Confirmed, DecisionOf
    <3>. QED BY <2>1, <2>3, <3>1, <3>2 DEF Settled, Progress
  <2>. QED BY <2>2, <2>3
<1>. QED BY <1>1, <1>2, SettledFrame

\* A strict commit is never answered with a prior result: the key was not
\* cached when the request came in and the trace is a fresh one.
LEMMA NoPriorResult ==
  ASSUME TypeInv, Kept, Settled, CommitRefused
  PROVE  Answer("refused", ErrorResult)
<1>1. pc = "commit" /\ pc \in Evaluating
  BY Domains DEF CommitRefused
<1>2. traces[cur] = None /\ (KeyOf(cur) # NoKey => idem[KeyOf(cur)] = None)
  BY <1>1, RunningRequest DEF Settled, Progress
<1>3. PriorResult = None
  BY <1>2 DEF PriorResult
<1>. QED BY <1>3 DEF CommitRefused

\* The running request ends without a trace: with an exception, or with an
\* ERROR result before anything was handed off.
LEMMA SettledFailed ==
  ASSUME TypeInv, Safe, Kept, Settled,
         UNCHANGED <<evals, gates, traces, crashes>>,
         pc \in Evaluating, pc # "record",
         \A t \in Trace : Range(ledger[t]) \subseteq Range(ledger'[t]),
         Range(bus) \subseteq Range(bus'), HandedOff' \subseteq HandedOff \cup {cur},
         \/ Raise /\ idem' = idem
         \/ Answer("refused", ErrorResult) /\ HandedOff' = HandedOff /\ pc = "commit"
  PROVE  Settled'
<1>1. /\ cur \in Evaluated /\ cur \in Trace /\ fate[cur] = "running"
      /\ LifeOf(cur) = crashes /\ KeyOf(cur) \in Key \cup {NoKey}
      /\ traces[cur] = None
  BY RunningRequest DEF Settled, Progress
<1>2. /\ pc' = "idle" /\ pc' \notin Evaluating
      /\ \A t \in Trace : t # cur => fate'[t] = fate[t]
      /\ fate'[cur] \in {"raised", "refused"}
      /\ fate'[cur] = "refused" => HandedOff' = HandedOff /\ pc = "commit"
  BY <1>1, Domains DEF Raise, Answer, BackToLoop, TypeInv, TypeOK
<1>3. /\ Evaluated' = Evaluated /\ Evaluated \subseteq Trace
      /\ \A t : LifeOf(t)' = LifeOf(t) /\ KeyOf(t)' = KeyOf(t)
      /\ \A t : DecisionOf(t)' = DecisionOf(t) /\ Confirmed(t)' = Confirmed(t)
      /\ \A t \in Trace : Committed(t) => Committed(t)'
  BY EvaluatedType DEF Evaluated, LifeOf, KeyOf, DecisionOf, Confirmed, Committed
<1>4. \A k \in Key :
        \/ idem'[k] = idem[k]
        \/ /\ k = KeyOf(cur) /\ idem'[k].trace = cur /\ idem'[k].status = "error"
           /\ fate'[cur] = "refused"
  <2>1. CASE idem' = idem
    BY <2>1
  <2>2. CASE Answer("refused", ErrorResult)
    BY <1>1, <2>2 DEF Answer, Cache, ErrorResult, TypeInv, TypeOK
  <2>. QED BY <2>1, <2>2
<1>5. Entries'
  <2>. SUFFICES ASSUME NEW k \in Key, idem'[k] # None
                PROVE  /\ idem'[k].trace \in Evaluated
                       /\ evals[idem'[k].trace].key = k
                       /\ evals[idem'[k].trace].life = crashes
                       /\ \/ /\ fate'[idem'[k].trace] = "refused"
                             /\ idem'[k].status = "error"
                          \/ /\ fate'[idem'[k].trace] = "answered"
                             /\ traces[idem'[k].trace] # None
                             /\ idem'[k].status = StatusOf(evals[idem'[k].trace].decision)
    BY <1>3 DEF Entries, KeyOf, LifeOf, DecisionOf
  <2>1. CASE idem'[k] = idem[k]
    <3>1. PICK t \in Evaluated : t = idem[k].trace
      BY <2>1 DEF Settled, Entries
    <3>2. t # cur
      BY <1>1, <2>1, <3>1 DEF Settled, Entries
    <3>3. fate'[t] = fate[t]
      BY <1>2, <1>3, <3>2
    <3>. QED BY <2>1, <3>1, <3>3 DEF Settled, Entries, KeyOf, LifeOf, DecisionOf
  <2>2. CASE idem'[k] # idem[k]
    BY <1>1, <1>4, <2>2 DEF KeyOf, LifeOf
  <2>. QED BY <2>1, <2>2
<1>6. Stored'
  <2>. SUFFICES ASSUME NEW t \in Trace, traces[t] # None
                PROVE  /\ t \in Evaluated /\ LifeOf(t) = crashes
                       /\ fate'[t] = "answered"
                       /\ traces[t].status = StatusOf(DecisionOf(t))
                       /\ traces[t].gate = "pending" <=>
                            StatusOf(DecisionOf(t)) = "pending_human"
                       /\ Confirmed(t) => t \in Range(bus')
                       /\ LedgerMode = "strict" => Committed(t)'
    BY <1>3 DEF Stored
  <2>1. t # cur
    BY <1>1
  <2>. QED BY <1>2, <1>3, <2>1 DEF Settled, Stored
<1>7. GatesLive'
  BY <1>3 DEF Settled, GatesLive
<1>8. Progress'
  <2>1. ASSUME NEW t \in Trace, fate'[t] = "refused"
        PROVE  t \notin HandedOff'
    BY <1>2, <2>1 DEF Settled, Progress
  <2>. QED BY <1>2, <2>1, Domains DEF Progress
<1>. QED BY <1>5, <1>6, <1>7, <1>8 DEF Settled

\* The running request ends with the result of its decision, its trace stored.
LEMMA SettledAnswered ==
  ASSUME TypeInv, Safe, Kept, Settled,
         UNCHANGED <<evals, gates, crashes, bus, buffer, topic>>,
         \A t \in Trace : Range(ledger[t]) \subseteq Range(ledger'[t]),
         \/ pc = "record" /\ traces' = traces
         \/ /\ pc = "save"
            /\ traces' = [traces EXCEPT ![cur] =
                 [status |-> StatusOf(DecisionOf(cur)),
                  gate |-> IF StatusOf(DecisionOf(cur)) = "pending_human"
                           THEN "pending" ELSE "none"]],
         Answer("answered", [trace |-> cur, status |-> StatusOf(DecisionOf(cur))])
  PROVE  Settled'
<1>1. /\ cur \in Evaluated /\ cur \in Trace /\ fate[cur] = "running"
      /\ LifeOf(cur) = crashes /\ KeyOf(cur) \in Key \cup {NoKey}
      /\ pc \in Evaluating
  BY RunningRequest, Domains
<1>2. /\ pc' = "idle" /\ pc' \notin Evaluating /\ HandedOff' = HandedOff
      /\ \A t \in Trace : t # cur => fate'[t] = fate[t] /\ traces'[t] = traces[t]
      /\ fate'[cur] = "answered"
  BY <1>1, Domains DEF Answer, BackToLoop, HandedOff, TypeInv, TypeOK
<1>3. /\ Evaluated' = Evaluated /\ Evaluated \subseteq Trace
      /\ \A t : LifeOf(t)' = LifeOf(t) /\ KeyOf(t)' = KeyOf(t)
      /\ \A t : DecisionOf(t)' = DecisionOf(t) /\ Confirmed(t)' = Confirmed(t)
      /\ \A t \in Trace : Committed(t) => Committed(t)'
  BY EvaluatedType DEF Evaluated, LifeOf, KeyOf, DecisionOf, Confirmed, Committed
<1>4. /\ traces'[cur] # None
      /\ traces'[cur].status = StatusOf(DecisionOf(cur))
      /\ traces'[cur].gate = "pending" <=> StatusOf(DecisionOf(cur)) = "pending_human"
      /\ Confirmed(cur) => cur \in Range(bus)
      /\ LedgerMode = "strict" => Committed(cur)
  <2>1. CASE pc = "record" /\ traces' = traces
    BY <1>1, <2>1 DEF Settled, Progress, Stored
  <2>2. CASE pc = "save"
    <3>1. traces'[cur] = [status |-> StatusOf(DecisionOf(cur)),
                          gate |-> IF StatusOf(DecisionOf(cur)) = "pending_human"
                                   THEN "pending" ELSE "none"]
      BY <1>1, <2>2 DEF TypeInv, TypeOK
    <3>2. traces'[cur] \in StoredTrace
      BY <1>1, <3>1, CurrentTrace, Domains DEF StoredTrace
    <3>3. traces'[cur] # None
      BY <3>2, NoneAssumption
    <3>. QED BY <2>2, <3>1, <3>3 DEF Settled, Progress
  <2>. QED BY <2>1, <2>2
<1>5. \A k \in Key :
        \/ idem'[k] = idem[k]
        \/ /\ k = KeyOf(cur) /\ idem'[k].trace = cur
           /\ idem'[k].status = StatusOf(DecisionOf(cur))
  BY <1>1 DEF Answer, Cache, TypeInv, TypeOK
<1>6. Entries'
  <2>. SUFFICES ASSUME NEW k \in Key, idem'[k] # None
                PROVE  /\ idem'[k].trace \in Evaluated
                       /\ evals[idem'[k].trace].key = k
                       /\ evals[idem'[k].trace].life = crashes
                       /\ \/ /\ fate'[idem'[k].trace] = "refused"
                             /\ idem'[k].status = "error"
                          \/ /\ fate'[idem'[k].trace] = "answered"
                             /\ traces'[idem'[k].trace] # None
                             /\ idem'[k].status = StatusOf(evals[idem'[k].trace].decision)
    BY <1>3 DEF Entries, KeyOf, LifeOf, DecisionOf
  <2>1. CASE idem'[k] = idem[k]
    <3>1. PICK t \in Evaluated : t = idem[k].trace
      BY <2>1 DEF Settled, Entries
    <3>2. t # cur
      BY <1>1, <2>1, <3>1 DEF Settled, Entries
    <3>3. fate'[t] = fate[t] /\ traces'[t] = traces[t]
      BY <1>2, <1>3, <3>2
    <3>. QED BY <2>1, <3>1, <3>3 DEF Settled, Entries, KeyOf, LifeOf, DecisionOf
  <2>2. CASE idem'[k] # idem[k]
    BY <1>1, <1>2, <1>4, <1>5, <2>2 DEF KeyOf, LifeOf, DecisionOf
  <2>. QED BY <2>1, <2>2
<1>7. Stored'
  <2>. SUFFICES ASSUME NEW t \in Trace, traces'[t] # None
                PROVE  /\ t \in Evaluated /\ LifeOf(t) = crashes
                       /\ fate'[t] = "answered"
                       /\ traces'[t].status = StatusOf(DecisionOf(t))
                       /\ traces'[t].gate = "pending" <=>
                            StatusOf(DecisionOf(t)) = "pending_human"
                       /\ Confirmed(t) => t \in Range(bus)
                       /\ LedgerMode = "strict" => Committed(t)'
    BY <1>3 DEF Stored
  <2>1. CASE t = cur
    BY <1>1, <1>2, <1>3, <1>4, <2>1
  <2>2. CASE t # cur
    BY <1>2, <1>3, <2>2 DEF Settled, Stored
  <2>. QED BY <2>1, <2>2
<1>8. GatesLive'
  BY <1>3 DEF Settled, GatesLive
<1>9. Progress'
  <2>1. ASSUME NEW t \in Trace, fate'[t] = "refused"
        PROVE  t \notin HandedOff'
    BY <1>2, <2>1 DEF Settled, Progress
  <2>. QED BY <1>2, <2>1, Domains DEF Progress
<1>. QED BY <1>6, <1>7, <1>8, <1>9 DEF Settled

\* A crash forgets results, traces and gates together.
LEMMA SettledCrash ==
  ASSUME TypeInv, Safe, Kept, Settled, Crash
  PROVE  Settled'
<1>1. /\ evals' = evals /\ crashes' = crashes + 1 /\ crashes \in Nat
      /\ pc' = "down" /\ pc' \notin Evaluating /\ Evaluated' = Evaluated
      /\ \A k \in Key : idem'[k] = None
      /\ \A t \in Trace : traces'[t] = None /\ gates'[t] = "none"
  BY Domains DEF Crash, TypeInv, TypeOK, Evaluated
<1>2. ASSUME NEW t \in Evaluated
      PROVE  t \in Trace /\ LifeOf(t)' # crashes'
  <2>1. LifeOf(t) \in Nat /\ LifeOf(t) <= crashes /\ t \in Trace
    BY EvaluatedType DEF Kept, RequestsEnd
  <2>. QED BY <1>1, <2>1 DEF LifeOf
<1>3. HandedOff' \subseteq HandedOff
  BY RangeEmpty DEF Crash, HandedOff
<1>4. \A t \in Trace : fate'[t] = "refused" => fate[t] = "refused"
  <2>1. CASE pc \in Evaluating
    BY <2>1, CurrentTrace DEF Crash, TypeInv, TypeOK
  <2>2. CASE pc \notin Evaluating
    BY <2>2 DEF Crash
  <2>. QED BY <2>1, <2>2
<1>5. Entries' /\ Stored'
  BY <1>1 DEF Entries, Stored
<1>6. GatesLive'
  BY <1>1, <1>2 DEF GatesLive
<1>7. Progress'
  BY <1>1, <1>3, <1>4, Domains DEF Settled, Progress
<1>. QED BY <1>5, <1>6, <1>7 DEF Settled

\* Parallel mode stores the trace before it goes on to the ledger.
LEMMA SettledSaveParallel ==
  ASSUME TypeInv, Safe, Kept, Settled, Save, LedgerMode = "parallel"
  PROVE  Settled'
<1>. USE DEF handoffVars, faultVars
<1>1. /\ cur \in Evaluated /\ cur \in Trace /\ fate[cur] = "running"
      /\ LifeOf(cur) = crashes
      /\ UNCHANGED <<cur, evals, fate, idem, gates, ledger, bus, buffer, topic, crashes>>
      /\ pc = "save" /\ pc' = "record"
  BY RunningRequest, Domains DEF Save
<1>2. /\ Evaluated' = Evaluated /\ HandedOff' = HandedOff
      /\ \A t : /\ LifeOf(t)' = LifeOf(t) /\ DecisionOf(t)' = DecisionOf(t)
                /\ Confirmed(t)' = Confirmed(t) /\ Committed(t)' = Committed(t)
  BY <1>1 DEF Evaluated, HandedOff, LifeOf, DecisionOf, Confirmed, Committed
<1>3. /\ traces'[cur] = [status |-> StatusOf(DecisionOf(cur)),
                         gate |-> IF StatusOf(DecisionOf(cur)) = "pending_human"
                                  THEN "pending" ELSE "none"]
      /\ \A t \in Trace : t # cur => traces'[t] = traces[t]
  BY <1>1 DEF Save, TypeInv, TypeOK
<1>4. traces'[cur] # None
  <2>1. traces'[cur] \in StoredTrace
    BY <1>1, <1>3, CurrentTrace, Domains DEF StoredTrace
  <2>. QED BY <2>1, NoneAssumption
<1>5. Entries'
  <2>1. \A t \in Evaluated : traces[t] # None => traces'[t] # None
    BY <1>3, <1>4, EvaluatedType
  <2>. QED BY <1>1, <2>1 DEF Settled, Entries, Evaluated, LifeOf, KeyOf, DecisionOf
<1>6. Stored'
  <2>. SUFFICES ASSUME NEW t \in Trace, traces'[t] # None
                PROVE  /\ t \in Evaluated /\ LifeOf(t) = crashes
                       /\ fate[t] = "answered" \/ t = cur
                       /\ traces'[t].status = StatusOf(DecisionOf(t))
                       /\ traces'[t].gate = "pending" <=>
                            StatusOf(DecisionOf(t)) = "pending_human"
                       /\ Confirmed(t) => t \in Range(bus)
                       /\ LedgerMode = "strict" => Committed(t)
    BY <1>1, <1>2 DEF Stored
  <2>1. CASE t = cur
    BY <1>1, <1>3, <2>1 DEF Settled, Progress
  <2>2. CASE t # cur
    BY <1>1, <1>3, <2>2 DEF Settled, Stored
  <2>. QED BY <2>1, <2>2
<1>7. GatesLive'
  BY <1>1, <1>2 DEF Settled, GatesLive
<1>8. Progress'
  BY <1>1, <1>2, <1>4 DEF Settled, Progress
<1>. QED BY <1>5, <1>6, <1>7, <1>8 DEF Settled

\* The steps that end a request.
LEMMA SettledEnd ==
  ASSUME TypeInv, Safe, Kept, Settled,
         \/ CommitRefused \/ BusPublishRaises \/ KafkaSendRaises \/ KafkaFlushRaises
         \/ Save \/ Recorded \/ (AppendRaises /\ pc \in Evaluating)
  PROVE  Settled'
<1>. USE DEF historyVars, storeVars, handoffVars, faultVars
<1>1. CASE CommitRefused
  <2>1. Answer("refused", ErrorResult)
    BY <1>1, NoPriorResult
  <2>2. /\ UNCHANGED <<evals, gates, traces, crashes, ledger, bus, buffer, topic>>
        /\ pc = "commit" /\ pc \in Evaluating
    BY <1>1, Domains DEF CommitRefused
  <2>3. HandedOff' = HandedOff
    BY <2>2 DEF HandedOff
  <2>. QED BY <2>1, <2>2, <2>3, SettledFailed
<1>2. CASE BusPublishRaises \/ KafkaSendRaises \/ KafkaFlushRaises
  <2>1. /\ UNCHANGED <<evals, gates, traces, crashes, ledger, buffer, topic, idem>>
        /\ pc \in Evaluating /\ pc # "record" /\ Raise
        /\ bus' \in {bus, Append(bus, cur)}
    BY <1>2, Domains DEF BusPublishRaises, KafkaSendRaises, KafkaFlushRaises, Fail
  <2>2. Range(Append(bus, cur)) = Range(bus) \cup {cur}
    BY <2>1, CurrentTrace, RangeAppend DEF TypeInv, TypeOK
  <2>3. Range(bus) \subseteq Range(bus') /\ HandedOff' \subseteq HandedOff \cup {cur}
    BY <2>1, <2>2 DEF HandedOff
  <2>. QED BY <2>1, <2>3, SettledFailed
<1>3. CASE Save
  <2>1. CASE LedgerMode = "parallel"
    BY <1>3, <2>1, SettledSaveParallel
  <2>2. CASE LedgerMode # "parallel"
    BY <1>3, <2>2, SettledAnswered DEF Save
  <2>. QED BY <2>1, <2>2
<1>4. CASE Recorded
  BY <1>4, SettledAnswered DEF Recorded
<1>5. CASE AppendRaises /\ pc \in Evaluating
  <2>1. /\ UNCHANGED <<evals, gates, traces, crashes, bus, buffer, topic>>
        /\ CommitRaises \/ RecordRaises
        /\ \A t \in Trace : Range(ledger[t]) \subseteq Range(ledger'[t])
    BY <1>5, LedgerGrows, Domains DEF AppendRaises, GateRaises, Fail
  <2>2. CASE CommitRaises
    <3>1. pc = "commit" /\ Raise /\ idem' = idem
      BY <2>2 DEF CommitRaises
    <3>2. HandedOff' = HandedOff
      BY <2>1 DEF HandedOff
    <3>. QED BY <1>5, <2>1, <3>1, <3>2, SettledFailed
  <2>3. CASE RecordRaises
    BY <2>1, <2>3, SettledAnswered DEF RecordRaises
  <2>. QED BY <2>1, <2>2, <2>3
<1>. QED BY <1>1, <1>2, <1>3, <1>4, <1>5

\* Every step keeps the stores in agreement with the history of requests.
LEMMA SettledStep == TypeInv /\ Safe /\ Kept /\ Settled /\ [Next]_vars => Settled'
<1>. SUFFICES ASSUME TypeInv, Safe, Kept, Settled, [Next]_vars PROVE Settled'
  OBVIOUS
<1>. USE DEF handlerVars, historyVars, storeVars, handoffVars, faultVars
<1>1. CASE Request
  BY <1>1, SettledEvaluate, KeyAssumption DEF Request
<1>2. CASE Review
  <2>1. PICK t \in Trace, g \in {"approved", "rejected"}, e \in Kind : ResolveGate(t, g, e)
    BY <1>2, Domains DEF Review, Approve, Reject
  <2>2. /\ UNCHANGED <<evals, fate, idem, traces, crashes, ledger, bus, buffer, topic>>
        /\ gates[t] = "pending" /\ gates' = [gates EXCEPT ![t] = g]
        /\ pc = "idle" /\ pc' \in {"idle", "gate"}
    BY <2>1 DEF ResolveGate, IsPending
  <2>3. \A u \in Trace : gates'[u] = "none" <=> gates[u] = "none"
    BY <2>2 DEF TypeInv, TypeOK
  <2>4. HandedOff' = HandedOff /\ pc \notin Evaluating /\ pc' \notin Evaluating
    BY <2>2, Domains DEF HandedOff
  <2>. QED BY <2>2, <2>3, <2>4, SettledBeside
<1>3. CASE GateDone \/ Restart
  <2>1. /\ UNCHANGED <<evals, fate, idem, traces, gates, crashes, ledger, bus, buffer, topic>>
        /\ pc \notin Evaluating /\ pc' \notin Evaluating
    BY <1>3, Domains DEF GateDone, BackToLoop, Restart, GoTo
  <2>2. HandedOff' = HandedOff
    BY <2>1 DEF HandedOff
  <2>. QED BY <2>1, <2>2, SettledBeside
<1>4. CASE AppendEvent \/ AppendInvalid
  <2>1. /\ UNCHANGED <<pc, cur, evals, fate, idem, traces, gates, crashes, bus, buffer, topic>>
        /\ \A t \in Trace : Range(ledger[t]) \subseteq Range(ledger'[t])
    BY <1>4, LedgerGrows DEF AppendEvent, AppendInvalid, Fail
  <2>2. HandedOff' = HandedOff
    BY <2>1 DEF HandedOff
  <2>. QED BY <2>1, <2>2, SettledBeside
<1>5. CASE AppendRaises
  <2>1. CASE pc \in Evaluating
    BY <1>5, <2>1, SettledEnd
  <2>2. CASE pc \notin Evaluating
    <3>1. /\ UNCHANGED <<evals, fate, idem, traces, gates, crashes, bus, buffer, topic>>
          /\ pc' \notin Evaluating
          /\ \A t \in Trace : Range(ledger[t]) \subseteq Range(ledger'[t])
      BY <1>5, <2>2, LedgerGrows, Domains
         DEF AppendRaises, CommitRaises, RecordRaises, GateRaises, BackToLoop, Fail
    <3>2. HandedOff' = HandedOff
      BY <3>1 DEF HandedOff
    <3>. QED BY <2>2, <3>1, <3>2, SettledBeside
  <2>. QED BY <2>1, <2>2
<1>6. CASE BrokerAck \/ BrokerDrop
  <2>1. /\ UNCHANGED <<pc, cur, evals, fate, idem, traces, gates, crashes, ledger, bus>>
        /\ buffer # <<>> /\ buffer' = Tail(buffer)
        /\ topic' = Append(topic, Head(buffer)) \/ topic' = topic
    BY <1>6 DEF BrokerAck, BrokerDrop, Fail
  <2>2. HandedOff' \subseteq HandedOff
    <3>1. buffer \in Seq(Trace) /\ topic \in Seq(Trace)
      BY DEF TypeInv, TypeOK
    <3>2. Head(buffer) \in Trace /\ Range(buffer) = {Head(buffer)} \cup Range(Tail(buffer))
      BY <2>1, <3>1, RangeTail
    <3>3. Range(Append(topic, Head(buffer))) = Range(topic) \cup {Head(buffer)}
      BY <3>1, <3>2, RangeAppend
    <3>. QED BY <2>1, <3>2, <3>3 DEF HandedOff
  <2>. QED BY <2>1, <2>2, SettledBeside
<1>7. CASE UNCHANGED vars
  <2>1. UNCHANGED <<pc, cur, evals, fate, idem, traces, gates, crashes, ledger,
                    bus, buffer, topic>>
    BY <1>7 DEF vars
  <2>2. HandedOff' = HandedOff
    BY <2>1 DEF HandedOff
  <2>. QED BY <2>1, <2>2, SettledBeside
<1>8. CASE Crash
  BY <1>8, SettledCrash
<1>9. CASE CommitAccepted \/ BusPublish \/ KafkaSend \/ KafkaFlush
  BY <1>9, SettledMove
<1>10. CASE \/ CommitRefused \/ BusPublishRaises \/ KafkaSendRaises \/ KafkaFlushRaises
            \/ Save \/ Recorded
  BY <1>10, SettledEnd
<1>. QED BY <1>1, <1>2, <1>3, <1>4, <1>5, <1>6, <1>7, <1>8, <1>9, <1>10
         DEF Next, HandlerStep, HandlerFault

\* The strengthening holds in every behaviour.
LEMMA SettledAlways == Spec => [](TypeInv /\ Safe /\ Kept /\ Settled)
<1>1. Init => TypeInv /\ Safe /\ Kept /\ Settled
  BY TypeInit, SafeInit, KeptInit, SettledInit
<1>2. TypeInv /\ Safe /\ Kept /\ Settled /\ [Next]_vars =>
        (TypeInv /\ Safe /\ Kept /\ Settled)'
  BY TypeStep, SafeStep, KeptStep, SettledStep
<1>. QED BY <1>1, <1>2, PTL DEF Spec

\* A cached result is the end of a finished pipeline, and a cached ERROR that
\* of one that handed nothing off (evaluate, engine.evaluate).
THEOREM CachedIsFinished == Spec => []CachedMeansFinished
<1>1. TypeInv /\ Kept /\ Settled => CachedMeansFinished
  <2>. SUFFICES ASSUME TypeInv, Kept, Settled, NEW k \in Key, idem[k] # None
                PROVE  LET t == idem[k].trace
                           s == idem[k].status
                       IN  /\ KeyOf(t) = k
                           /\ evals[t].life = crashes
                           /\ IF s = "error"
                              THEN t \notin HandedOff /\ traces[t] = None
                              ELSE /\ traces[t] # None /\ traces[t].status = s
                                   /\ s = "confirmed" => t \in Range(bus)
                                   /\ s = "pending_human" => gates[t] # "none"
                                   /\ LedgerMode = "strict" => Committed(t)
    BY DEF CachedMeansFinished
  <2>1. PICK t \in Evaluated :
          /\ t = idem[k].trace /\ KeyOf(t) = k /\ LifeOf(t) = crashes
          /\ \/ fate[t] = "refused" /\ idem[k].status = "error"
             \/ /\ fate[t] = "answered" /\ traces[t] # None
                /\ idem[k].status = StatusOf(DecisionOf(t))
    BY DEF Settled, Entries
  <2>2. t \in Trace /\ StatusOf(DecisionOf(t)) # "error"
    BY <2>1, EvaluatedType DEF StatusOf
  <2>3. CASE fate[t] = "refused" /\ idem[k].status = "error"
    <3>1. t \notin HandedOff
      BY <2>2, <2>3 DEF Settled, Progress
    <3>2. traces[t] = None
      BY <2>2, <2>3, Domains DEF Settled, Stored, Kept, RequestsEnd, Running
    <3>. QED BY <2>1, <2>3, <3>1, <3>2 DEF LifeOf
  <2>4. CASE fate[t] = "answered" /\ idem[k].status = StatusOf(DecisionOf(t))
                                  /\ traces[t] # None
    <3>1. /\ traces[t].status = StatusOf(DecisionOf(t))
          /\ Confirmed(t) => t \in Range(bus)
          /\ LedgerMode = "strict" => Committed(t)
      BY <2>2, <2>4 DEF Settled, Stored
    <3>2. StatusOf(DecisionOf(t)) = "pending_human" => gates[t] # "none"
      BY <2>1 DEF Settled, GatesLive
    <3>. QED BY <2>1, <2>2, <2>4, <3>1, <3>2 DEF LifeOf, Confirmed
  <2>. QED BY <2>1, <2>3, <2>4
<1>. QED BY <1>1, SettledAlways, PTL

\* A failed request leaves its gate behind and nothing else (engine.evaluate).
THEOREM FailureLeavesGateOnly == Spec => []FailedRequestLeavesGateOnly
<1>1. TypeInv /\ Safe /\ Kept /\ Settled => FailedRequestLeavesGateOnly
  <2>. SUFFICES ASSUME TypeInv, Safe, Kept, Settled,
                       NEW t \in Evaluated, fate[t] \in {"refused", "raised"}
                PROVE  /\ traces[t] = None
                       /\ \A k \in Key : idem[k] # None /\ idem[k].trace = t =>
                            idem[k].status = "error"
                       /\ gates[t] # "none" => t \notin HandedOff /\ evals[t].life = crashes
    BY DEF FailedRequestLeavesGateOnly
  <2>1. t \in Trace
    BY EvaluatedType
  <2>2. traces[t] = None
    BY <2>1, Domains DEF Settled, Stored, Kept, RequestsEnd, Running
  <2>3. ASSUME NEW k \in Key, idem[k] # None, idem[k].trace = t
        PROVE  idem[k].status = "error"
    BY <2>3 DEF Settled, Entries
  <2>4. gates[t] # "none" => t \notin HandedOff /\ evals[t].life = crashes
    BY DEF Settled, GatesLive, Safe, CommitBeforeExecute, LifeOf
  <2>. QED BY <2>2, <2>3, <2>4
<1>. QED BY <1>1, SettledAlways, PTL

\* A stored trace shows a pending gate exactly for a decision that has one,
\* whatever its reviewer has answered since (TraceBuilder, HumanGateManager).
THEOREM TraceKeepsItsGate == Spec => []GateAndTraceAgree
<1>1. TypeInv /\ Settled => GateAndTraceAgree
  BY DEF Settled, Stored, GatesLive, GateAndTraceAgree, LifeOf
<1>. QED BY <1>1, SettledAlways, PTL

-----------------------------------------------------------------------------

(* Handed-off executions and their order. *)

Sent == Range(topic) \cup Range(buffer)

\* What was sent is older than what will be sent next, and the records that
\* wait in the buffer are younger than those on the topic.
SentInOrder ==
  /\ Increasing(topic) /\ Increasing(buffer) /\ Increasing(bus)
  /\ \A x \in Range(topic), y \in Range(buffer) : x < y
  /\ pc \in {"commit", "publish", "send"} => \A x \in Sent : x < cur
  /\ BusDurable => Sent \subseteq Range(bus)

\* A younger element at the end keeps a sequence increasing.
LEMMA IncreasingAppend ==
  ASSUME NEW s \in Seq(Nat), NEW e \in Nat, Increasing(s), \A x \in Range(s) : x < e
  PROVE  Increasing(Append(s, e))
<1>1. \A i \in 1..Len(s) : s[i] < e
  BY RangeType
<1>. QED BY <1>1 DEF Increasing

\* What is left of an increasing sequence is increasing, and younger than the
\* element that left it.
LEMMA IncreasingTail ==
  ASSUME NEW s \in Seq(Nat), s # <<>>, Increasing(s)
  PROVE  /\ Increasing(Tail(s))
         /\ \A x \in Range(Tail(s)) : Head(s) < x
<1>1. /\ Len(s) \in Nat /\ Len(s) > 0 /\ Head(s) = s[1]
      /\ Tail(s) \in Seq(Nat) /\ Len(Tail(s)) = Len(s) - 1
      /\ \A i \in 1..Len(s) - 1 : Tail(s)[i] = s[i + 1]
  OBVIOUS
<1>2. DOMAIN s = 1..Len(s) /\ DOMAIN Tail(s) = 1..Len(s) - 1
  BY <1>1
<1>3. Increasing(Tail(s))
  BY <1>1, <1>2 DEF Increasing
<1>4. \A i \in 1..Len(s) - 1 : s[1] < s[i + 1]
  BY <1>1, <1>2 DEF Increasing
<1>5. \A x \in Range(Tail(s)) : Head(s) < x
  BY <1>1, <1>2, <1>4 DEF Range
<1>. QED BY <1>3, <1>5

\* An increasing sequence followed by a younger one is increasing.
LEMMA IncreasingConcat ==
  ASSUME NEW s \in Seq(Nat), NEW u \in Seq(Nat), Increasing(s), Increasing(u),
         \A x \in Range(s), y \in Range(u) : x < y
  PROVE  Increasing(s \o u) /\ Range(s \o u) = Range(s) \cup Range(u)
<1>1. /\ s \o u \in Seq(Nat) /\ Len(s \o u) = Len(s) + Len(u)
      /\ Len(s) \in Nat /\ Len(u) \in Nat
      /\ \A i \in 1..Len(s) : (s \o u)[i] = s[i] /\ s[i] \in Range(s)
      /\ \A i \in 1..Len(u) : (s \o u)[Len(s) + i] = u[i] /\ u[i] \in Range(u)
  BY RangeType
<1>2. /\ DOMAIN s = 1..Len(s) /\ DOMAIN u = 1..Len(u)
      /\ DOMAIN (s \o u) = 1..Len(s) + Len(u)
  BY <1>1
<1>. DEFINE w == s \o u
<1>3. \A i \in DOMAIN w : \/ i \in 1..Len(s) /\ w[i] = s[i]
                          \/ /\ i - Len(s) \in 1..Len(u)
                             /\ w[i] = u[i - Len(s)]
  <2>. SUFFICES ASSUME NEW i \in DOMAIN w, i \notin 1..Len(s)
                PROVE  i - Len(s) \in 1..Len(u) /\ w[i] = u[i - Len(s)]
    BY <1>1, <1>2
  <2>1. i - Len(s) \in 1..Len(u) /\ Len(s) + (i - Len(s)) = i
    BY <1>1, <1>2
  <2>. QED BY <1>1, <2>1
<1>. HIDE DEF w
<1>4. ASSUME NEW i \in DOMAIN w, NEW j \in DOMAIN w, i < j
      PROVE  w[i] < w[j]
  <2>0. i \in Nat /\ i >= 1 /\ j \in Nat
    BY <1>1, <1>2 DEF w
  <2>1. CASE j \in 1..Len(s)
    <3>1. i \in 1..Len(s)
      BY <1>1, <1>4, <2>0, <2>1
    <3>. QED BY <1>1, <1>2, <1>4, <2>1, <3>1 DEF Increasing, w
  <2>2. CASE i \in 1..Len(s) /\ j \notin 1..Len(s)
    <3>1. w[i] = s[i] /\ s[i] \in Range(s)
      BY <1>1, <2>2 DEF w
    <3>2. j - Len(s) \in 1..Len(u) /\ w[j] = u[j - Len(s)]
      BY <1>3, <2>2
    <3>. QED BY <1>1, <3>1, <3>2
  <2>3. CASE i \notin 1..Len(s) /\ j \notin 1..Len(s)
    <3>1. /\ i - Len(s) \in 1..Len(u) /\ w[i] = u[i - Len(s)]
          /\ j - Len(s) \in 1..Len(u) /\ w[j] = u[j - Len(s)]
      BY <1>3, <2>3
    <3>2. i - Len(s) < j - Len(s)
      BY <1>1, <1>4, <2>0
    <3>. QED BY <1>2, <3>1, <3>2 DEF Increasing
  <2>. QED BY <2>1, <2>2, <2>3
<1>5. Range(w) \subseteq Range(s) \cup Range(u)
  <2>. SUFFICES ASSUME NEW i \in DOMAIN w PROVE w[i] \in Range(s) \cup Range(u)
    BY DEF Range
  <2>. QED BY <1>1, <1>3
<1>6. Range(s) \cup Range(u) \subseteq Range(w)
  <2>1. ASSUME NEW i \in 1..Len(s) PROVE s[i] \in Range(w)
    <3>1. i \in DOMAIN w /\ w[i] = s[i]
      BY <1>1, <1>2 DEF w
    <3>. QED BY <3>1 DEF Range
  <2>2. ASSUME NEW i \in 1..Len(u) PROVE u[i] \in Range(w)
    <3>1. Len(s) + i \in DOMAIN w /\ w[Len(s) + i] = u[i]
      BY <1>1, <1>2 DEF w
    <3>. QED BY <3>1 DEF Range
  <2>. QED BY <1>2, <2>1, <2>2 DEF Range
<1>. QED BY <1>4, <1>5, <1>6 DEF Increasing, w

\* The channels hold naturals.
LEMMA ChannelsType ==
  ASSUME TypeInv
  PROVE  /\ bus \in Seq(Trace) /\ buffer \in Seq(Trace) /\ topic \in Seq(Trace)
         /\ bus \in Seq(Nat) /\ buffer \in Seq(Nat) /\ topic \in Seq(Nat)
         /\ Trace \subseteq Nat
<1>1. Trace \subseteq Nat
  BY Domains
<1>2. bus \in Seq(Trace) /\ buffer \in Seq(Trace) /\ topic \in Seq(Trace)
  BY DEF TypeInv, TypeOK
<1>. QED BY <1>1, <1>2, SeqMonotonic

\* Nothing was sent at first.
LEMMA SentInit == Init => SentInOrder
BY RangeEmpty DEF Init, SentInOrder, Sent, Increasing

\* A step that sends nothing, and whose process is not about to send unless it
\* was before.
LEMMA SentQuiet ==
  ASSUME SentInOrder, UNCHANGED <<bus, buffer, topic>>,
         \/ UNCHANGED <<pc, cur>>
         \/ pc' \notin {"commit", "publish", "send"}
         \/ pc \in {"commit", "publish", "send"} /\ cur' = cur
  PROVE  SentInOrder'
BY DEF SentInOrder, Sent

\* A new evaluation is younger than everything that was sent.
LEMMA SentEvaluate ==
  ASSUME TypeInv, Safe, SentInOrder,
         NEW k \in Key \cup {NoKey}, NEW d \in Decision, Evaluate(k, d)
  PROVE  SentInOrder'
<1>1. cur' = Len(evals) + 1 /\ UNCHANGED <<bus, buffer, topic>>
  BY DEF Evaluate, handoffVars
<1>2. Sent \subseteq 1..Len(evals) /\ Len(evals) \in Nat
  BY EvaluatedIsTrace DEF Safe, HandoffIsDue, HandedOff, Sent, Evaluated
<1>3. \A x \in Sent : x < cur'
  BY <1>1, <1>2
<1>. QED BY <1>1, <1>3 DEF SentInOrder, Sent

\* The event bus gets the newest evaluation.
LEMMA SentPublish ==
  ASSUME TypeInv, Safe, SentInOrder, BusPublish \/ BusPublishRaises
  PROVE  SentInOrder'
<1>1. /\ UNCHANGED <<buffer, topic>> /\ pc = "publish" /\ pc \in Evaluating
      /\ bus' \in {bus, Append(bus, cur)}
      /\ pc' \in {"send", "save", "idle"} /\ (pc' = "send" => cur' = cur)
  BY Domains DEF BusPublish, BusPublishRaises, GoTo, Raise, BackToLoop
<1>2. cur \in Trace /\ cur \in Nat /\ \A t \in Range(bus) : t < cur
  BY <1>1, CurrentTrace DEF Safe, HandoffIsDue
<1>3. /\ Range(Append(bus, cur)) = Range(bus) \cup {cur}
      /\ Increasing(Append(bus, cur))
  BY <1>2, ChannelsType, RangeAppend, IncreasingAppend DEF SentInOrder
<1>4. Increasing(bus') /\ Range(bus) \subseteq Range(bus')
  BY <1>1, <1>3 DEF SentInOrder
<1>. QED BY <1>1, <1>4 DEF SentInOrder, Sent

\* The buffer gets the newest evaluation, which the bus already has.
LEMMA SentSend ==
  ASSUME TypeInv, Settled, SentInOrder, KafkaSend
  PROVE  SentInOrder'
<1>1. /\ UNCHANGED <<bus, topic>> /\ pc = "send" /\ pc \in Evaluating
      /\ buffer' = Append(buffer, cur) /\ pc' = "flush"
  BY Domains DEF KafkaSend, GoTo
<1>2. cur \in Trace /\ cur \in Nat /\ cur \in Range(bus) /\ \A x \in Sent : x < cur
  BY <1>1, CurrentTrace DEF Settled, Progress, SentInOrder
<1>3. /\ Range(buffer') = Range(buffer) \cup {cur}
      /\ Increasing(buffer')
  BY <1>1, <1>2, ChannelsType, RangeAppend, IncreasingAppend DEF SentInOrder, Sent
<1>. QED BY <1>1, <1>2, <1>3 DEF SentInOrder, Sent

\* The broker takes, or loses, the oldest record of the buffer.
LEMMA SentBroker ==
  ASSUME TypeInv, SentInOrder, BrokerAck \/ BrokerDrop
  PROVE  SentInOrder'
<1>1. /\ UNCHANGED <<pc, cur, bus>> /\ buffer # <<>> /\ buffer' = Tail(buffer)
      /\ topic' = Append(topic, Head(buffer)) \/ topic' = topic
  BY DEF BrokerAck, BrokerDrop, handlerVars
<1>2. /\ Head(buffer) \in Trace /\ Head(buffer) \in Nat
      /\ Range(buffer) = {Head(buffer)} \cup Range(Tail(buffer))
      /\ Increasing(Tail(buffer)) /\ \A x \in Range(Tail(buffer)) : Head(buffer) < x
  BY <1>1, ChannelsType, RangeTail, IncreasingTail DEF SentInOrder
<1>3. /\ Range(Append(topic, Head(buffer))) = Range(topic) \cup {Head(buffer)}
      /\ Increasing(Append(topic, Head(buffer)))
  BY <1>2, ChannelsType, RangeAppend, IncreasingAppend DEF SentInOrder
<1>4. Sent' \subseteq Sent
  BY <1>1, <1>2, <1>3 DEF Sent
<1>5. \A x \in Range(topic'), y \in Range(buffer') : x < y
  BY <1>1, <1>2, <1>3 DEF SentInOrder
<1>. QED BY <1>1, <1>2, <1>3, <1>4, <1>5 DEF SentInOrder

\* A crash loses the buffer, and a bus that is not durable.
LEMMA SentCrash ==
  ASSUME SentInOrder, Crash
  PROVE  SentInOrder'
<1>1. /\ topic' = topic /\ buffer' = <<>> /\ bus' \in {bus, <<>>} /\ pc' = "down"
      /\ BusDurable => bus' = bus
  BY DEF Crash
<1>. QED BY <1>1, RangeEmpty DEF SentInOrder, Sent, Increasing

\* Every step keeps the channels in order.
LEMMA SentStep == TypeInv /\ Safe /\ Settled /\ SentInOrder /\ [Next]_vars => SentInOrder'
<1>. SUFFICES ASSUME TypeInv, Safe, Settled, SentInOrder, [Next]_vars PROVE SentInOrder'
  OBVIOUS
<1>. USE DEF handlerVars, handoffVars
<1>1. CASE Request
  BY <1>1, SentEvaluate, KeyAssumption DEF Request
<1>2. CASE BusPublish \/ BusPublishRaises \/ KafkaSend \/ BrokerAck \/ BrokerDrop \/ Crash
  BY <1>2, SentPublish, SentSend, SentBroker, SentCrash
<1>3. CASE UNCHANGED vars
  BY <1>3, SentQuiet DEF vars
<1>4. CASE CommitAccepted
  BY <1>4, SentQuiet DEF CommitAccepted, GoTo
<1>5. CASE AppendEvent \/ AppendInvalid
  BY <1>5, SentQuiet DEF AppendEvent, AppendInvalid
<1>6. CASE Review
  <2>1. UNCHANGED <<bus, buffer, topic>> /\ pc' \in {"idle", "gate"}
    BY <1>6 DEF Review, Approve, Reject, ResolveGate
  <2>. QED BY <2>1, SentQuiet
<1>7. CASE \/ CommitRefused \/ KafkaSendRaises \/ KafkaFlush \/ KafkaFlushRaises
           \/ Save \/ Recorded \/ AppendRaises \/ GateDone \/ Restart
  <2>1. UNCHANGED <<bus, buffer, topic>>
    BY <1>7 DEF CommitRefused, KafkaSendRaises, KafkaFlush, KafkaFlushRaises, Save,
                Recorded, AppendRaises, GateDone, Restart
  <2>2. pc' \in {"idle", "save", "record"}
    BY <1>7 DEF CommitRefused, KafkaSendRaises, KafkaFlush, KafkaFlushRaises, Save,
                Recorded, AppendRaises, CommitRaises, RecordRaises, GateRaises,
                GateDone, Restart, GoTo, Raise, Answer, BackToLoop
  <2>. QED BY <2>1, <2>2, SentQuiet
<1>. QED BY <1>1, <1>2, <1>3, <1>4, <1>5, <1>6, <1>7 DEF Next, HandlerStep, HandlerFault

\* Each channel carries an evaluation at most once and in evaluation order,
\* across failed flushes and restarts, and a durable bus has everything the
\* orchestrator is asked for (ExecutionPublisher, KafkaExecutionPublisher).
THEOREM HandoffInOrder == Spec => []SingleOrderedHandoff
<1>1. Init => TypeInv /\ Safe /\ Kept /\ Settled /\ SentInOrder
  BY TypeInit, SafeInit, KeptInit, SettledInit, SentInit
<1>2. TypeInv /\ Safe /\ Kept /\ Settled /\ SentInOrder /\ [Next]_vars =>
        (TypeInv /\ Safe /\ Kept /\ Settled /\ SentInOrder)'
  BY TypeStep, SafeStep, KeptStep, SettledStep, SentStep
<1>3. TypeInv /\ SentInOrder => SingleOrderedHandoff
  BY ChannelsType, IncreasingConcat DEF SentInOrder, Sent, SingleOrderedHandoff
<1>. QED BY <1>1, <1>2, <1>3, PTL DEF Spec
=============================================================================
