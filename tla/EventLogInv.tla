---------------------------- MODULE EventLogInv ----------------------------
(***************************************************************************)
(* The inductive invariants of the event log: the log itself, the time a   *)
(* row may go unread, and what is handed out.  EventLog_proofs shows that  *)
(* they are kept.                                                          *)
(***************************************************************************)
EXTENDS EventLog

Positions == Nat \X Nat

TypeOK ==
  /\ clock \in Nat /\ dbNow \in Nat /\ cycled \in Nat /\ logFaults \in Nat
  /\ settled \in Nat /\ cursor \in Positions
  /\ tpc \in {"boot", "wait", "drain", "sweep"}
  /\ row \in [Events -> {"none", "open", "committed", "aborted"}]
  /\ at \in [Events -> Nat] /\ id \in [Events -> Nat] /\ handed \in [Events -> Nat]
  /\ seen \subseteq Events /\ skipped \subseteq Events

\* Ids count the rows up, and times follow the ids.
OrderInv ==
  /\ \A e \in Inserted : at[e] <= clock /\ at[e] > Overlap /\ id[e] \in 1..Cardinality(Inserted)
  /\ \A e, f \in Inserted : (id[e] < id[f] => at[e] <= at[f]) /\ (id[e] = id[f] => e = f)

\* No transaction and no cycle is over its time, and the watermark is the
\* overlap behind the clock.
ClockInv ==
  /\ clock > Overlap /\ dbNow <= clock /\ (tpc \in {"drain", "sweep"} => dbNow > Overlap)
  /\ cycled <= clock /\ clock <= cycled + Poll
  /\ logFaults <= MaxFaults
  /\ settled + Overlap <= clock
  /\ \A e \in Events : row[e] = "open" => clock <= at[e] + MaxTx

\* The cursor is at a row that was read, nothing past it was delivered, and what
\* the dedupe set names was.
ReadInv ==
  /\ cursor = Zero \/ \E v \in Visible : cursor = Pos(v)
  /\ settled <= cursor[1]
  /\ \A e \in Events : Delivered(e) => e \in Visible /\ ~Before(cursor, Pos(e))
  /\ \A e \in seen : Delivered(e)
  /\ tpc = "boot" => cursor = Zero /\ \A e \in Events : handed[e] = 0

LogInv == TypeOK /\ OrderInv /\ ClockInv /\ ReadInv

\* The read of the window never runs into its limit.
WindowFits == Cardinality(Trailing) <= 4 * BatchLimit

\* n poll intervals.
Late(n) == n * Poll

\* Cycles a row may still go unread: none beyond the faults once the cursor has
\* passed it, one more while it is ahead of a cycle that has not begun.
Cycles(e) == logFaults + IF tpc = "sweep" \/ ~Before(cursor, Pos(e)) THEN 0 ELSE 1

\* A visible row that was not delivered is recent.
PromptInv ==
  tpc # "boot" => \A e \in Visible : Delivered(e) \/ cycled <= at[e] + MaxTx + Late(Cycles(e))

\* A row the tailer may still hand to the hub.  The first sweep after a start
\* hands out the rows of the window that the start counted as delivered, except
\* the head.
Awaited(x) ==
  /\ x \in Visible /\ handed[x] = 0
  /\ x \in skipped => x \notin seen /\ at[x] >= cursor[1] - Overlap

\* A row is handed out once, and is forgotten only when it is out of the window;
\* those the start counted as delivered are handed out by one sweep.
OnceInv ==
  /\ \A e \in Events : handed[e] <= 1
  /\ \A e \in Events : handed[e] = 1 /\ e \notin seen => at[e] < cursor[1] - Retain
  /\ (\E e \in skipped : handed[e] = 1) => \A x \in skipped : ~Awaited(x)

BusInv == LogInv /\ PromptInv /\ OnceInv

\* What a read of the log hands to the hub: rows that were awaited, at most an
\* overlap older than what was handed out before, each of them for good.
HandsOut ==
  /\ \A e \in Fresh : e \in Events /\ Awaited(e) /\ handed'[e] = 1
  /\ \A e \in Events : e \notin Fresh => handed'[e] = handed[e]
  /\ \A e \in Events : Delivered(e)' <=> Delivered(e) \/ e \in Fresh
  /\ \A e \in Events, x \in Fresh : Delivered(e) => at[e] <= at[x] + Overlap
  /\ \A x \in Events : Awaited(x)' => Awaited(x) /\ x \notin Fresh

\* A fault that is not of the log's own cycle.
OtherFault ==
  /\ UNCHANGED <<clock, row, at, id, tpc, dbNow, cursor, seen, settled, cycled, handed, skipped>>
  /\ logFaults < MaxFaults /\ logFaults' = logFaults + 1
=============================================================================
