---------------------------- MODULE TraceQueries ----------------------------
(***************************************************************************)
(* TraceStore and the endpoints that list it: GET /traces page by page,    *)
(* with the offset a client counts up itself, and GET /stats.  Traces are  *)
(* stored in the order of the evaluations and listed by started_at, which  *)
(* is read off the wall clock: it may repeat and it may step back.         *)
(***************************************************************************)
EXTENDS Naturals, Sequences, Functions, FiniteSets

CONSTANTS
  MaxRecent,    \* 10 000: what list_recent returns at most
  Limits        \* the page sizes clients ask for, 1 to 1000

NotPaging == 0

VARIABLES
  traces,     \* the stored traces [id, at, status, ...], oldest entry first
  limit,      \* page size of the client that is paging
  given,      \* ids it was given, in order (history); their number is the
              \* offset it asks for next
  ended,      \* its last page was shorter than its limit
  known,      \* ids stored when it started (history)
  arrived     \* traces saved since it started (history)

pagerVars == <<limit, given, ended, known, arrived>>
traceVars == <<traces, pagerVars>>

Init ==
  /\ traces = <<>> /\ limit = NotPaging /\ given = <<>> /\ ended = FALSE
  /\ known = {} /\ arrived = 0

Ids == {traces[i].id : i \in DOMAIN traces}

\* save: a new trace id is a new entry at the end of the dictionary.
Save(t) ==
  /\ traces' = Append(traces, t)
  /\ arrived' = IF limit = NotPaging THEN 0 ELSE arrived + 1
  /\ UNCHANGED <<limit, given, ended, known>>

\* The store is memory: the process takes it along.
Lose == traces' = <<>> /\ UNCHANGED pagerVars

-----------------------------------------------------------------------------
(* Listing.                                                                *)

\* sorted(..., reverse=True) is stable: entries of one time keep their order.
ComesBefore(i, j) ==
  \/ traces[i].at > traces[j].at
  \/ traces[i].at = traces[j].at /\ i < j

Newest ==
  [k \in DOMAIN traces |->
     traces[CHOOSE i \in DOMAIN traces :
              Cardinality({j \in DOMAIN traces : ComesBefore(j, i)}) = k - 1]]

Cut(s, n) == SubSeq(s, 1, IF n < Len(s) THEN n ELSE Len(s))

\* list_recent
ListRecent(n) == Cut(Newest, IF n < MaxRecent THEN n ELSE MaxRecent)

\* Mutant: as many traces are fetched as the page holds.
PageUncovered(n, offset) ==
  LET all == ListRecent(n) IN Cut(SubSeq(all, offset + 1, Len(all)), n)

\* list_traces: enough traces to cover the offset, then the slice.
Page(n, offset) ==
  LET all == ListRecent(n + offset) IN Cut(SubSeq(all, offset + 1, Len(all)), n)

Receive(n, offset) ==
  LET page == Page(n, offset) IN
  /\ given' = given \o [i \in DOMAIN page |-> page[i].id]
  /\ ended' = (Len(page) < n)

FirstPage(n) ==
  /\ limit = NotPaging
  /\ limit' = n /\ known' = Ids /\ arrived' = 0
  /\ Receive(n, 0)
  /\ UNCHANGED traces

NextPage ==
  /\ limit # NotPaging /\ ~ended
  /\ Receive(limit, Len(given))
  /\ UNCHANGED <<traces, limit, known, arrived>>

\* get_stats: how many of the n newest traces have the status.
Count(n, status) ==
  LET recent == ListRecent(n) IN
  Cardinality({i \in DOMAIN recent : recent[i].status = status})

-----------------------------------------------------------------------------
(* Properties.                                                             *)

\* A client that pages to the end has been given every trace that was there
\* when it began and that list_recent can reach, whatever arrives meanwhile and
\* wherever its started_at puts it, and is given a trace again no more often
\* than traces arrived: arrivals only move a trace back.
PagingIsExact ==
  /\ ended => \A k \in DOMAIN Newest :
                k <= MaxRecent /\ Newest[k].id \in known
                  => Newest[k].id \in Range(given)
  /\ Len(given) - Cardinality(Range(given)) <= arrived

=============================================================================
