--------------------------- MODULE ObserverHealth ---------------------------
(***************************************************************************)
(* How the observer reads its own figures (clif/observe/health.py,         *)
(* mincond.py, budget.py, verify.py): the per-epoch tally of the ledger,   *)
(* the miss budget, and the severity of a status.  Operators only; the     *)
(* engine (Observer) and the readers of its status file use them.          *)
(*                                                                         *)
(* Percentages are kept in tenths of a percent, the precision the code     *)
(* rounds to before it compares.                                           *)
(***************************************************************************)
EXTENDS Integers, FiniteSets, Sequences

Tenths(part, whole) == (2000 * part + whole) \div (2 * whole)

(* mincond.epoch_tally over the recorded rounds of one epoch.              *)
EpochTally(recs, rids) ==
  LET lo == CHOOSE r \in rids : \A q \in rids : r <= q
      hi == CHOOSE r \in rids : \A q \in rids : q <= r
  IN [n        |-> Cardinality(rids),
      fexp     |-> Cardinality({r \in rids : recs[r].fexp}),
      fok      |-> Cardinality({r \in rids : recs[r].fok}),
      offences |-> Cardinality({r \in rids : recs[r].s1 /\ ~recs[r].s2}),
      missing  |-> IF rids = {} THEN 0 ELSE hi - lo + 1 - Cardinality(rids)]

(* budget_status(submitted / elapsed, elapsed, total, floor%): breached or *)
(* projected to breach is CRIT, less than 40% of the budget left is WARN.  *)
BudgetSeverity(submitted, elapsed, total, floor) ==
  LET budget == (2 * (100 - floor) * total + 100) \div 200
      missed == IF submitted > elapsed THEN 0 ELSE elapsed - submitted
      left   == budget - missed
  IN CASE elapsed <= 0 -> "unknown"
       [] elapsed > 0 /\ (left <= 0 \/ 100 * (elapsed - missed) < floor * elapsed) -> "CRIT"
       [] elapsed > 0 /\ left > 0 /\ 100 * (elapsed - missed) >= floor * elapsed ->
            IF 10 * left < 4 * budget THEN "WARN" ELSE "OK"

(* ObserverState.aggregates over the window of finalized rounds.           *)
Count(win, P(_)) == Cardinality({i \in DOMAIN win : P(win[i])})
TrailingClean(win) ==
  Cardinality({i \in DOMAIN win : \A j \in DOMAIN win : j >= i => win[j].cl})
Aggregates(win) ==
  [n        |-> Len(win),
   complete |-> Count(win, LAMBDA x : x.cl),
   trailing |-> TrailingClean(win),
   missing1 |-> Count(win, LAMBDA x : ~x.s1),
   missing2 |-> Count(win, LAMBDA x : x.s1 /\ ~x.s2),
   offences |-> Count(win, LAMBDA x : x.ro),
   off      |-> Count(win, LAMBDA x : x.late),
   fexp     |-> Count(win, LAMBDA x : x.fexp),
   fok      |-> Count(win, LAMBDA x : x.fok)]

(* stream_state: is the report live or replayed?                           *)
StreamState(head, last, liveLag) ==
  IF head = 0 THEN "unknown" ELSE IF head - last <= liveLag THEN "live" ELSE "catching_up"

IsolatedMiss(a) == a.missing1 + a.missing2 + a.off + (a.fexp - a.fok) > 0

(* ObserveHealth.severity.  h carries the readings that are not counts:    *)
(* error, enabled, disputed, quorumCrit, stale, unregistered, budget,      *)
(* uptimeLow and the stream state; a the window's aggregates; t the tally. *)
CritBeforeWindow(h) ==
  \/ h.disputed /\ h.quorumCrit
  \/ h.stale
  \/ h.unregistered
  \/ h.budget = "CRIT"

CritOfWindow(h, a, t, minFdc) ==
  \/ a.offences > 0
  \/ Tenths(a.complete, a.n) < 900
  \/ a.fexp >= minFdc /\ Tenths(a.fok, a.fexp) < 800
  \/ t.fexp >= minFdc /\ Tenths(t.fok, t.fexp) < 600
  \/ h.uptimeLow

WarnOfWindow(h, a, t) ==
  \/ h.stream = "live" /\ t.missing > 0
  \/ IsolatedMiss(a)
  \/ h.disputed

Severity(h, a, t, minFdc) ==
  IF h.error THEN "CRIT"
  ELSE IF ~h.enabled THEN "OK"
  ELSE IF CritBeforeWindow(h) THEN "CRIT"
  ELSE IF a.n = 0 THEN "WARN"
  ELSE IF CritOfWindow(h, a, t, minFdc) THEN "CRIT"
  ELSE IF WarnOfWindow(h, a, t) THEN "WARN" ELSE "OK"
=============================================================================
