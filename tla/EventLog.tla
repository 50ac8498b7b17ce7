------------------------------ MODULE EventLog ------------------------------
(***************************************************************************)
(* The events table as transport: writers, the wakeup bell and the tailer. *)
(*                                                                         *)
(* append_events (hive-store/src/events.rs) stamps a row with the clock    *)
(* and an id inside the caller's transaction, which commits later; on      *)
(* SQLite one transaction writes at a time, on Postgres several do.  The   *)
(* tailer (hive-bus/src/tailer.rs) reads forward from its cursor, sweeps   *)
(* an overlap window behind it for rows that committed late, publishes a   *)
(* watermark below which nothing can appear any more, and hands what is    *)
(* new to the hub.                                                         *)
(*                                                                         *)
(* Time is a counter.  Two facts about it are assumptions, stated in Tick: *)
(* a transaction that writes events commits or aborts within MaxTx, and    *)
(* the tailer finishes a cycle every Poll.                                 *)
(***************************************************************************)
EXTENDS Integers, FiniteSets

CONSTANTS
  Events,      \* the rows somebody may write
  OneWriter,   \* SQLite's BEGIN IMMEDIATE: one transaction writes at a time
  MaxTx,       \* the longest transaction that writes events
  Overlap,     \* Config::overlap
  Poll,        \* Config::poll_interval, and a cycle's duration
  BatchLimit,  \* Config::batch_limit
  Retain,      \* how long an id stays in the dedupe set
  MaxTime,     \* how far the clock runs
  MaxFaults    \* failed cycles and daemon restarts

ASSUME LogConstants ==
  /\ OneWriter \in BOOLEAN
  /\ {MaxTx, Overlap, Poll, Retain, MaxTime, MaxFaults} \subseteq Nat
  /\ BatchLimit \in Nat \ {0}
  /\ Retain >= 2 * Overlap
  /\ IsFiniteSet(Events)

VARIABLES
  clock,      \* the database clock
  row,        \* a row's transaction: "none", "open", "committed" or "aborted"
  at, id,     \* events.created_at and events.id
  bell,       \* EventWake holds a ring nobody took
  wake,       \* Inner::wake holds a permit
  tpc,        \* the tail loop: "boot", "wait", "drain" or "sweep"
  dbNow,      \* the clock as this cycle read it
  cursor,     \* the highest position read
  seen,       \* the ids that are not delivered again
  settled,    \* the published watermark; 0 is none
  cycled,     \* when the last cycle ended
  handed,     \* how often a row was handed to the hub since the daemon started
  skipped,    \* rows at or below the head when the daemon started
  logFaults

writerVars == <<clock, row, at, id>>
tailVars   == <<tpc, dbNow, cursor, seen, settled, cycled, handed, skipped>>
logVars    == <<writerVars, bell, wake, tailVars, logFaults>>

Start == Overlap + 1
Pos(e) == <<at[e], id[e]>>

\* Cursor::before, the order of (created_at, id).
Before(p, q) == p[1] < q[1] \/ (p[1] = q[1] /\ p[2] < q[2])

Inserted == {e \in Events : row[e] # "none"}
Zero     == <<0, 0>>   \* before every row
Visible  == {e \in Events : row[e] = "committed"}
Live     == {e \in Events : row[e] \in {"open", "committed"}}
Newest(S) == CHOOSE e \in S : \A f \in S : f = e \/ Before(Pos(f), Pos(e))
Oldest(S, n) == {e \in S : Cardinality({f \in S : Before(Pos(f), Pos(e))}) < n}

LogInit ==
  /\ clock = Start
  /\ row = [e \in Events |-> "none"]
  /\ at = [e \in Events |-> 0]
  /\ id = [e \in Events |-> 0]
  /\ bell = FALSE
  /\ wake = FALSE
  /\ tpc = "boot"
  /\ dbNow = 0
  /\ cursor = Zero
  /\ seen = {}
  /\ settled = 0
  /\ cycled = Start
  /\ handed = [e \in Events |-> 0]
  /\ skipped = {}
  /\ logFaults = 0

LogFault == logFaults < MaxFaults /\ logFaults' = logFaults + 1

-----------------------------------------------------------------------------
(* Writers.                                                                 *)

\* append_events: the row gets its time and its id, and the bell rings, all
\* before the caller's transaction commits.
AppendEvent(e) ==
  /\ row[e] = "none"
  /\ OneWriter => \A f \in Events : row[f] # "open"
  /\ row' = [row EXCEPT ![e] = "open"]
  /\ at' = [at EXCEPT ![e] = clock]
  /\ id' = [id EXCEPT ![e] = Cardinality(Inserted) + 1]
  /\ bell' = TRUE
  /\ UNCHANGED <<clock, wake, tailVars, logFaults>>

\* The caller's transaction ends.
Commit(e) ==
  /\ row[e] = "open"
  /\ row' = [row EXCEPT ![e] = "committed"]
  /\ UNCHANGED <<clock, at, id, bell, wake, tailVars, logFaults>>

Abort(e) ==
  /\ row[e] = "open"
  /\ row' = [row EXCEPT ![e] = "aborted"]
  /\ UNCHANGED <<clock, at, id, bell, wake, tailVars, logFaults>>

\* Time passes, while no transaction and no cycle is over its time.
Tick ==
  /\ clock < MaxTime
  /\ \A e \in Events : row[e] = "open" => clock < at[e] + MaxTx
  /\ clock < cycled + Poll
  /\ clock' = clock + 1
  /\ UNCHANGED <<row, at, id, bell, wake, tailVars, logFaults>>

-----------------------------------------------------------------------------
(* The tailer.                                                              *)

\* listen: each ring is forwarded to the tail loop.
Listen ==
  /\ bell
  /\ bell' = FALSE
  /\ wake' = TRUE
  /\ UNCHANGED <<writerVars, tailVars, logFaults>>

\* tail_loop: start at the head of the log, whose row counts as delivered.
Boot ==
  /\ tpc = "boot"
  /\ IF Visible = {}
     THEN UNCHANGED <<cursor, seen, skipped>>
     ELSE /\ cursor' = Pos(Newest(Visible))
          /\ seen' = {Newest(Visible)}
          /\ skipped' = Visible
  /\ tpc' = "drain"
  /\ dbNow' = clock
  /\ UNCHANGED <<writerVars, bell, wake, settled, cycled, handed, logFaults>>


\* Mutant: the watermark is not held back by the overlap.
WatermarkNow(c) == IF c[1] = 0 THEN settled ELSE dbNow

\* update_settled: the overlap behind the clock, never past what was read.
Watermark(c) ==
  IF c[1] = 0 THEN settled ELSE IF c[1] < dbNow - Overlap THEN c[1] ELSE dbNow - Overlap

\* deliver: the cursor passes everything read, the watermark follows, and what
\* was not seen before goes to the hub.
Deliver(rows) ==
  LET top == IF rows = {} THEN cursor ELSE Pos(Newest(rows))
      reached == IF Before(cursor, top) THEN top ELSE cursor
  IN /\ cursor' = reached
     /\ settled' = Watermark(reached)
     /\ handed' = [e \in Events |-> IF e \in rows \ seen THEN handed[e] + 1 ELSE handed[e]]

\* The batch a step hands to the hub.
Fresh == {e \in Events : handed'[e] > handed[e]}

\* A cycle begins when the bell was rung or the poll interval ticks; it reads
\* the clock once.
CycleStarts ==
  /\ tpc = "wait"
  /\ tpc' = "drain"
  /\ dbNow' = clock
  /\ UNCHANGED <<writerVars, bell, cursor, seen, settled, cycled, handed, skipped, logFaults>>

Woken  == wake /\ wake' = FALSE /\ CycleStarts
Polled == UNCHANGED wake /\ CycleStarts

\* cycle, step 1: the next batch after the cursor; a full one means more.
Drain ==
  /\ tpc = "drain"
  /\ LET rows == Oldest({e \in Visible : Before(cursor, Pos(e))}, BatchLimit)
     IN /\ Deliver(rows)
        /\ seen' = seen \cup rows
        /\ tpc' = IF Cardinality(rows) < BatchLimit THEN "sweep" ELSE "drain"
  /\ UNCHANGED <<writerVars, bell, wake, dbNow, cycled, skipped, logFaults>>


\* The rows of the window behind the cursor, and what one read returns of them:
\* oldest first, up to the limit.
Trailing == {e \in Visible : at[e] >= cursor[1] - Overlap /\ ~Before(cursor, Pos(e))}
Window   == IF cursor[1] = 0 THEN {} ELSE Oldest(Trailing, 4 * BatchLimit)


\* Mutant: no second read of the window.
SweepNothing ==
  /\ tpc = "sweep"
  /\ tpc' = "wait"
  /\ cycled' = clock
  /\ UNCHANGED <<writerVars, bell, wake, dbNow, cursor, seen, settled, handed, skipped, logFaults>>

\* cycle, step 2: the window behind the cursor, then the dedupe set is pruned.
Sweep ==
  /\ tpc = "sweep"
  /\ Deliver(Window)
  /\ seen' = {e \in seen \cup Window : at[e] >= cursor[1] - Retain}
  /\ tpc' = "wait"
  /\ cycled' = clock
  /\ UNCHANGED <<writerVars, bell, wake, dbNow, skipped, logFaults>>

\* A read of the cycle fails: it is logged and the loop waits for the next.
CycleFails ==
  /\ tpc \in {"drain", "sweep"}
  /\ LogFault
  /\ tpc' = "wait"
  /\ cycled' = clock
  /\ UNCHANGED <<writerVars, bell, wake, dbNow, cursor, seen, settled, handed, skipped>>

\* The daemon restarts: everything the bus held in memory is gone.
Restart ==
  /\ tpc # "boot"
  /\ LogFault
  /\ tpc' = "boot"
  /\ cursor' = Zero
  /\ seen' = {}
  /\ settled' = 0
  /\ dbNow' = 0
  /\ cycled' = clock
  /\ handed' = [e \in Events |-> 0]
  /\ skipped' = {}
  /\ bell' = FALSE
  /\ wake' = FALSE
  /\ UNCHANGED writerVars

Write == \E e \in Events : AppendEvent(e) \/ Commit(e) \/ Abort(e)
TailLoop == Boot \/ Woken \/ Polled \/ Drain \/ Sweep

LogNext == Write \/ Tick \/ Listen \/ TailLoop \/ CycleFails \/ Restart

LogSpec == LogInit /\ [][LogNext]_logVars

\* Transactions end, the listener and the tail loop are scheduled, and the
\* poll interval ticks, whether or not anything rings.
LogFairness ==
  /\ \A e \in Events : WF_logVars(Commit(e) \/ Abort(e))
  /\ WF_logVars(Boot \/ Drain \/ Sweep)
  /\ WF_logVars(Polled)

LogFairSpec == LogSpec /\ LogFairness

-----------------------------------------------------------------------------
(* Properties.                                                              *)

Delivered(e) == handed[e] > 0 \/ e \in skipped

\* Bus::settled: everything before the watermark "has been read, and no
\* transaction can still commit one behind it", in whatever order writers
\* commit and however often a cycle fails.
SettledIsFinal ==
  \A e \in Live : at[e] < settled => row[e] = "committed" /\ Delivered(e)

\* "Every consumer must stay correct if every notification is dropped": with
\* the poll alone, every committed row reaches the hub.
EveryCommitDelivered ==
  \A e \in Events : row[e] = "committed" ~> Delivered(e)
=============================================================================
