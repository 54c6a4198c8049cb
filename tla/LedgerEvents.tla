---------------------------- MODULE LedgerEvents ----------------------------
(***************************************************************************)
(* The pure part of the ledger integration: which events one evaluation    *)
(* writes and in what order (RuntimeLedgerAdapter._build_events), how an   *)
(* event is classified and identified, and what LedgerProjector.project    *)
(* makes of the events it reads back.                                      *)
(*                                                                         *)
(* A decision is abstracted to the two facts the rest of the pipeline      *)
(* branches on: did a decision node match, and which boundary effect was   *)
(* dominant.  A flow has one decision node, one fallback node and at most  *)
(* one boundary node; "allow" also stands for override and redirect, which *)
(* change the action and the selected node but never the status.           *)
(***************************************************************************)
EXTENDS Integers, Sequences, Functions

Effect == {"none", "allow", "block", "escalate"}

Decision == [matched : BOOLEAN, effect : Effect]

Status == {"confirmed", "fallback", "blocked", "pending_human", "error"}

\* The status _pure_evaluate gives a decision: a match is confirmed and no
\* match is a fallback, then the dominant boundary blocks or suspends it.
StatusOf(d) ==
  IF d.effect = "block" THEN "blocked"
  ELSE IF d.effect = "escalate" THEN "pending_human"
  ELSE IF d.matched THEN "confirmed"
  ELSE "fallback"

-----------------------------------------------------------------------------
(* Events.                                                                 *)

Kind == {"signal", "decision", "fallback", "boundary", "human", "outcome",
         "approve", "reject"}

\* The step_type column of each kind of event: a fallback node and the
\* outcome share one, and so do a gate's creation and its resolution.
StepType ==
  [signal   |-> "signal",   decision |-> "decision", boundary |-> "boundary",
   human    |-> "human",    approve  |-> "human",    reject   |-> "human",
   fallback |-> "outcome",  outcome  |-> "outcome"]

\* _event_id: uuid5 of the trace and the step key, injective in both.
EventId(t, k) == <<t, k>>

\* Mutant: the outcome summarises the nodes before they are written.
BuildEventsOutcomeEarly(d) ==
  <<"signal", "outcome", "decision">>
    \o (IF d.matched THEN <<>> ELSE <<"fallback">>)
    \o (IF d.effect = "none" THEN <<>> ELSE <<"boundary">>)
    \o (IF StatusOf(d) = "pending_human" THEN <<"human">> ELSE <<>>)

\* The events of one evaluation in the order they are appended.
BuildEvents(d) ==
  <<"signal", "decision">>
    \o (IF d.matched THEN <<>> ELSE <<"fallback">>)
    \o (IF d.effect = "none" THEN <<>> ELSE <<"boundary">>)
    \o (IF StatusOf(d) = "pending_human" THEN <<"human">> ELSE <<>>)
    \o <<"outcome">>

-----------------------------------------------------------------------------
(* Projection.                                                             *)

\* What GET /traces/{id} says about a decision when it is rebuilt from the
\* ledger: the last event of step type outcome decides, and a payload with no
\* status (a fallback node's) is read as "confirmed".
Project(events, d) ==
  LET outcomes == {i \in DOMAIN events : StepType[events[i]] = "outcome"}
      last     == CHOOSE i \in outcomes : \A j \in outcomes : j <= i
  IN  IF outcomes = {} THEN [state |-> "evaluating", status |-> "none"]
      ELSE [state  |-> "completed",
            status |-> IF events[last] = "outcome" THEN StatusOf(d)
                       ELSE "confirmed"]
=============================================================================
