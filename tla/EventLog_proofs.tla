-------------------------- MODULE EventLog_proofs --------------------------
(***************************************************************************)
(* Theorems about the event log, for any number of rows, any batch limit,  *)
(* overlap, failed cycles and restarts.                                    *)
(*                                                                         *)
(* With one transaction writing at a time, rows become visible in the      *)
(* order of their positions, so whatever the cursor has passed was there   *)
(* to be read, and the watermark is final whatever the overlap.  With      *)
(* several, a row may commit behind the cursor; the watermark is final if  *)
(* the overlap is longer than such a row can go unread.                    *)
(***************************************************************************)
EXTENDS EventLogInv, FiniteSetTheorems, WellFoundedInduction, TLAPS

-----------------------------------------------------------------------------
(* Positions                                                                *)

LEMMA BeforeTransitive ==
  \A p, q, r \in Positions : Before(p, q) /\ Before(q, r) => Before(p, r)
BY DEF Before, Positions

Less == {p \in Nat \X Nat : p[1] < p[2]}

LEMMA LessIsWellFounded == IsWellFoundedOn(Less, Nat)
BY NatLessThanWellFounded, Zenon DEF OpToRel, Less

\* A set of naturals has a least element.
LEMMA LeastExists ==
  ASSUME NEW T, T \subseteq Nat, T # {}
  PROVE  \E x \in T : \A y \in T : x <= y
<1>1. PICK x \in T : \A y \in T : ~(<<y, x>> \in Less)
  BY LessIsWellFounded, WFMin, Zenon
<1>2. \A a, b \in Nat : a < b => <<a, b>> \in Less
  BY Zenon DEF Less
<1>3. \A y \in T : ~(y < x)
  BY <1>1, <1>2, ZenonT(30)
<1> QED BY <1>3

\* A bounded one has a greatest.
LEMMA GreatestExists ==
  ASSUME NEW T, T \subseteq Nat, T # {}, NEW n \in Nat, \A y \in T : y <= n
  PROVE  \E x \in T : \A y \in T : y <= x
<1> DEFINE U == {n - y : y \in T}
<1>1. U \subseteq Nat /\ U # {}
  <2>1. \A y \in T : n - y \in Nat
    OBVIOUS
  <2> QED BY <2>1, ZenonT(30)
<1>2. \A y \in T : n - y \in U
  BY Zenon
<1>3. PICK u \in U : \A v \in U : u <= v
  <2> HIDE DEF U
  <2> QED BY <1>1, LeastExists, ZenonT(30)
<1>4. PICK x \in T : u = n - x
  BY Zenon
<1>5. \A y \in T : y <= x
  <2> HIDE DEF U
  <2> QED BY <1>2, <1>3, <1>4
<1> QED BY <1>5, Zenon

LEMMA InsertedIsFinite ==
  IsFiniteSet(Inserted) /\ Cardinality(Inserted) \in Nat
BY LogConstants, FS_Subset, FS_CardinalityType, Zenon DEF Inserted

\* A set of inserted rows has a newest one and an oldest one.
LEMMA NewestExists ==
  ASSUME TypeOK, OrderInv, NEW S, S \subseteq Inserted, S # {}
  PROVE  /\ Newest(S) \in S
         /\ \A f \in S : f = Newest(S) \/ Before(Pos(f), Pos(Newest(S)))
<1> DEFINE n == Cardinality(Inserted)
           T == {id[e] : e \in S}
<1>1. n \in Nat
  BY InsertedIsFinite, Zenon
<1>2. \A e \in S : e \in Events /\ id[e] \in 1..n /\ at[e] \in Nat
  BY Zenon DEF OrderInv, Inserted, TypeOK
<1>3. \A e, f \in S : (id[e] < id[f] => at[e] <= at[f]) /\ (id[e] = id[f] => e = f)
  BY Zenon DEF OrderInv
<1> HIDE DEF n
<1>4. T \subseteq Nat /\ T # {} /\ \A y \in T : y <= n
  BY <1>1, <1>2
<1>5. PICK x \in T : \A y \in T : y <= x
  <2> HIDE DEF T
  <2> QED BY <1>1, <1>4, GreatestExists, ZenonT(30)
<1>6. PICK e \in S : x = id[e]
  BY Zenon
<1>7. ASSUME NEW f \in S PROVE f = e \/ Before(Pos(f), Pos(e))
  <2>1. id[f] <= id[e]
    BY <1>5, <1>6, Zenon
  <2> QED BY <1>1, <2>1, <1>2, <1>3 DEF Before, Pos
<1> QED BY <1>7, Zenon DEF Newest

First(S) == CHOOSE x \in S : \A y \in S : y = x \/ Before(Pos(x), Pos(y))

LEMMA OldestExists ==
  ASSUME TypeOK, OrderInv, NEW S, S \subseteq Inserted, S # {}
  PROVE  First(S) \in S /\ \A f \in S : f = First(S) \/ Before(Pos(First(S)), Pos(f))
<1> DEFINE n == Cardinality(Inserted)
           T == {id[e] : e \in S}
<1>1. n \in Nat
  BY InsertedIsFinite, Zenon
<1>2. \A e \in S : e \in Events /\ id[e] \in 1..n /\ at[e] \in Nat
  BY Zenon DEF OrderInv, Inserted, TypeOK
<1>3. \A e, f \in S : (id[e] < id[f] => at[e] <= at[f]) /\ (id[e] = id[f] => e = f)
  BY Zenon DEF OrderInv
<1> HIDE DEF n
<1>4. T \subseteq Nat /\ T # {}
  BY <1>1, <1>2
<1>5. PICK x \in T : \A y \in T : x <= y
  <2> HIDE DEF T
  <2> QED BY <1>4, LeastExists, ZenonT(30)
<1>6. PICK e \in S : x = id[e]
  BY Zenon
<1>7. ASSUME NEW f \in S PROVE f = e \/ Before(Pos(e), Pos(f))
  <2>1. id[e] <= id[f]
    BY <1>5, <1>6, Zenon
  <2> QED BY <1>1, <2>1, <1>2, <1>3 DEF Before, Pos
<1> QED BY <1>7, Zenon DEF First

\* The oldest rows of a set are closed downwards.
LEMMA OldestClosed ==
  ASSUME TypeOK, NEW S, S \subseteq Events, NEW n \in Nat,
         NEW e \in Oldest(S, n), NEW f \in S, Before(Pos(f), Pos(e))
  PROVE  f \in Oldest(S, n)
<1> DEFINE Below(g) == {h \in S : Before(Pos(h), Pos(g))}
<1>1. \A g \in S : Pos(g) \in Positions
  BY Zenon DEF TypeOK, Pos, Positions
<1>2. e \in S /\ Cardinality(Below(e)) < n
  BY Zenon DEF Oldest
<1>3. Below(f) \in SUBSET Below(e)
  BY <1>1, <1>2, BeforeTransitive, Zenon
<1>4. IsFiniteSet(Below(e))
  BY LogConstants, FS_Subset, Zenon
<1>5. IsFiniteSet(Below(f)) /\ Cardinality(Below(f)) <= Cardinality(Below(e))
  BY <1>3, <1>4, FS_Subset, Zenon
<1>6. Cardinality(Below(f)) \in Nat /\ Cardinality(Below(e)) \in Nat
  BY <1>4, <1>5, FS_CardinalityType, Zenon
<1>7. Cardinality(Below(f)) < n
  BY <1>2, <1>5, <1>6
<1> QED BY <1>7, Zenon DEF Oldest

\* They are all of it when it is no larger than the limit.
LEMMA OldestOfFew ==
  ASSUME TypeOK, NEW S, S \subseteq Events, NEW n \in Nat, Cardinality(S) <= n
  PROVE  Oldest(S, n) = S
<1> SUFFICES ASSUME NEW e \in S PROVE Cardinality({f \in S : Before(Pos(f), Pos(e))}) < n
  BY Zenon DEF Oldest
<1> DEFINE B == {f \in S : Before(Pos(f), Pos(e))}
<1>1. Pos(e) \in Positions
  BY Zenon DEF TypeOK, Pos, Positions
<1>2. e \notin B
  BY <1>1 DEF Before, Positions
<1>3. B \in SUBSET S /\ B # S
  BY <1>2, Zenon
<1>4. IsFiniteSet(S)
  BY LogConstants, FS_Subset, Zenon
<1>5. IsFiniteSet(B) /\ Cardinality(B) <= Cardinality(S) /\ Cardinality(B) # Cardinality(S)
  <2> HIDE DEF B
  <2> QED BY <1>3, <1>4, FS_Subset, Zenon
<1>6. Cardinality(B) \in Nat /\ Cardinality(S) \in Nat
  BY <1>4, <1>5, FS_CardinalityType, Zenon
<1> QED BY <1>5, <1>6

\* A read that is not full returned everything.
LEMMA OldestIsAll ==
  ASSUME TypeOK, OrderInv, NEW S, S \subseteq Inserted, NEW n \in Nat, Cardinality(Oldest(S, n)) < n
  PROVE  Oldest(S, n) = S
<1> DEFINE R == S \ Oldest(S, n)
<1>1. SUFFICES ASSUME R # {} PROVE FALSE
  BY Zenon DEF Oldest
<1>2. PICK e \in R : \A f \in R : f = e \/ Before(Pos(e), Pos(f))
  <2>1. R \subseteq Inserted
    BY Zenon
  <2> HIDE DEF R
  <2> QED BY <1>1, <2>1, OldestExists, Zenon
<1> DEFINE B == {f \in S : Before(Pos(f), Pos(e))}
<1>3. \A f \in S : Pos(f) \in Positions
  BY Zenon DEF TypeOK, Inserted, Pos, Positions
<1>4. B \in SUBSET Oldest(S, n)
  BY <1>2, <1>3 DEF Before, Positions
<1>5. IsFiniteSet(Oldest(S, n))
  BY InsertedIsFinite, FS_Subset, ZenonT(30) DEF Oldest
<1>6. IsFiniteSet(B) /\ Cardinality(B) <= Cardinality(Oldest(S, n))
  <2> HIDE DEF B
  <2> QED BY <1>4, <1>5, FS_Subset, Zenon
<1>7. Cardinality(B) \in Nat /\ Cardinality(Oldest(S, n)) \in Nat
  BY <1>5, <1>6, FS_CardinalityType, Zenon
<1>8. Cardinality(B) < n
  BY <1>6, <1>7
<1> QED BY <1>2, <1>8, Zenon DEF Oldest

-----------------------------------------------------------------------------
(* The steps of the log                                                     *)

LEMMA VisibleIsInserted ==
  Visible \subseteq Inserted /\ Inserted \subseteq Events
BY Zenon DEF Visible, Inserted

\* A row that was inserted is past no position <<0, 0>>.
LEMMA PosTypes ==
  ASSUME TypeOK
  PROVE  \A e \in Events : at[e] \in Nat /\ id[e] \in Nat /\ Pos(e) \in Positions
                           /\ Pos(e)[1] = at[e] /\ Pos(e)[2] = id[e]
BY Zenon DEF TypeOK, Pos, Positions

LEMMA InsertedIsPastZero ==
  ASSUME TypeOK, OrderInv, NEW e \in Inserted
  PROVE  id[e] >= 1 /\ at[e] > Overlap /\ Before(Zero, Pos(e))
<1>1. id[e] \in Nat /\ at[e] \in Nat /\ id[e] \in 1..Cardinality(Inserted) /\ at[e] > Overlap
  BY VisibleIsInserted, Zenon DEF TypeOK, OrderInv
<1>2. id[e] >= 1
  BY <1>1, InsertedIsFinite
<1> QED BY <1>1, <1>2, LogConstants DEF Before, Pos, Zero

LEMMA LogInvInit == LogInit => LogInv
<1> SUFFICES ASSUME LogInit PROVE LogInv
  BY Zenon
<1>1. TypeOK
  BY LogConstants DEF LogInit, TypeOK, Start, Positions, Zero
<1>2. Inserted = {} /\ Visible = {}
  BY Zenon DEF LogInit, Inserted, Visible
<1>3. OrderInv
  BY <1>2, Zenon DEF OrderInv
<1>4. ClockInv
  BY LogConstants DEF ClockInv, LogInit, Start
<1>5. ReadInv
  BY <1>2 DEF ReadInv, LogInit, Zero, Delivered
<1> QED BY <1>1, <1>3, <1>4, <1>5, Zenon DEF LogInv

\* append_events: the new row has the highest id and the latest time.
LEMMA AppendKeeps ==
  ASSUME LogInv, NEW e \in Events, AppendEvent(e)
  PROVE  LogInv'
<1> DEFINE n == Cardinality(Inserted)
<1>1. /\ row[e] = "none"
      /\ row' = [row EXCEPT ![e] = "open"] /\ at' = [at EXCEPT ![e] = clock]
      /\ id' = [id EXCEPT ![e] = n + 1]
      /\ UNCHANGED <<clock, tpc, dbNow, cursor, seen, settled, cycled, handed, skipped, logFaults>>
  BY Zenon DEF AppendEvent, tailVars
<1>2. /\ clock \in Nat /\ row \in [Events -> {"none", "open", "committed", "aborted"}]
      /\ at \in [Events -> Nat] /\ id \in [Events -> Nat]
  BY Zenon DEF LogInv, TypeOK
<1>3. IsFiniteSet(Inserted) /\ n \in Nat
  BY InsertedIsFinite, Zenon
<1>4. Inserted' = Inserted \cup {e} /\ e \notin Inserted /\ Visible' = Visible
  BY <1>1, <1>2, Zenon DEF Inserted, Visible
<1>5. Cardinality(Inserted') = n + 1
  BY <1>3, <1>4, FS_AddElement, ZenonT(30)
<1>6. TypeOK'
  BY <1>1, <1>3 DEF LogInv, TypeOK
<1>7. \A f \in Inserted : f # e /\ f \in Events /\ id'[f] = id[f] /\ at'[f] = at[f]
  BY <1>1, <1>2, <1>4, Zenon DEF Inserted
<1>8. id'[e] = n + 1 /\ at'[e] = clock /\ clock' = clock
  BY <1>1, <1>2, Zenon
<1>9. OrderInv'
  <2>1. \A f \in Inserted : at[f] <= clock /\ at[f] > Overlap /\ id[f] \in 1..n
    BY Zenon DEF LogInv, OrderInv
  <2>2. \A f, g \in Inserted : (id[f] < id[g] => at[f] <= at[g]) /\ (id[f] = id[g] => f = g)
    BY Zenon DEF LogInv, OrderInv
  <2>3. clock > Overlap
    BY Zenon DEF LogInv, ClockInv
  <2> HIDE DEF n
  <2>4. \A f \in Inserted' : at'[f] <= clock' /\ at'[f] > Overlap /\ id'[f] \in 1..(n + 1)
    BY <1>2, <1>3, <1>4, <1>7, <1>8, <2>1, <2>3
  <2>5. \A f, g \in Inserted' : (id'[f] < id'[g] => at'[f] <= at'[g]) /\ (id'[f] = id'[g] => f = g)
    BY <1>2, <1>3, <1>4, <1>7, <1>8, <2>1, <2>2
  <2> QED BY <1>5, <2>4, <2>5, Zenon DEF OrderInv
<1>10. ClockInv'
  BY <1>1, <1>2, LogConstants DEF LogInv, ClockInv
<1>11. \A f \in Visible : Pos(f)' = Pos(f)
  BY <1>1, <1>2, Zenon DEF Visible, Pos
<1>12. \A f : Delivered(f)' = Delivered(f)
  BY <1>1, Zenon DEF Delivered
<1>13. ReadInv'
  BY <1>1, <1>4, <1>11, <1>12, Zenon DEF LogInv, ReadInv
<1> QED BY <1>6, <1>9, <1>10, <1>13, Zenon DEF LogInv

\* A transaction ends.
LEMMA EndKeeps ==
  ASSUME LogInv, NEW e \in Events, Commit(e) \/ Abort(e)
  PROVE  LogInv'
<1>1. /\ row[e] = "open" /\ (row' = [row EXCEPT ![e] = "committed"] \/ row' = [row EXCEPT ![e] = "aborted"])
      /\ UNCHANGED <<clock, at, id, tpc, dbNow, cursor, seen, settled, cycled, handed, skipped, logFaults>>
  BY Zenon DEF Commit, Abort, tailVars
<1>2. row \in [Events -> {"none", "open", "committed", "aborted"}]
  BY Zenon DEF LogInv, TypeOK
<1>3. Inserted' = Inserted /\ Visible \subseteq Visible'
  BY <1>1, <1>2, Zenon DEF Inserted, Visible
<1>4. TypeOK'
  BY <1>1, Zenon DEF LogInv, TypeOK
<1>5. OrderInv'
  BY <1>1, <1>3, Zenon DEF LogInv, OrderInv
<1>6. ClockInv'
  BY <1>1, <1>2, Zenon DEF LogInv, ClockInv
<1>7. \A f : Pos(f)' = Pos(f) /\ Delivered(f)' = Delivered(f)
  BY <1>1, Zenon DEF Pos, Delivered
<1>8. ReadInv'
  BY <1>1, <1>3, <1>7, Zenon DEF LogInv, ReadInv
<1> QED BY <1>4, <1>5, <1>6, <1>8, Zenon DEF LogInv

\* deliver: the cursor moves to the newest row read, if at all, and what counts
\* as delivered grows by the rows.
LEMMA DeliverEffect ==
  ASSUME LogInv, NEW rows, rows \subseteq Visible, Deliver(rows), dbNow > Overlap,
         UNCHANGED skipped
  PROVE  /\ cursor' \in Positions /\ settled' \in Nat /\ handed' \in [Events -> Nat]
         /\ cursor' = cursor \/ \E v \in rows : cursor' = Pos(v)
         /\ ~Before(cursor', cursor) /\ \A r \in rows : ~Before(cursor', Pos(r))
         /\ settled' <= cursor'[1] /\ settled' + Overlap <= clock
         /\ \A e \in Events : handed'[e] = IF e \in rows \ seen THEN handed[e] + 1 ELSE handed[e]
         /\ \A e \in Events : Delivered(e)' <=> Delivered(e) \/ e \in rows
<1> DEFINE top == IF rows = {} THEN cursor ELSE Pos(Newest(rows))
           reached == IF Before(cursor, top) THEN top ELSE cursor
<1>1. /\ cursor' = reached /\ settled' = Watermark(reached)
      /\ handed' = [e \in Events |-> IF e \in rows \ seen THEN handed[e] + 1 ELSE handed[e]]
  BY Zenon DEF Deliver
<1>2. /\ clock \in Nat /\ dbNow \in Nat /\ settled \in Nat /\ cursor \in Positions
      /\ handed \in [Events -> Nat] /\ Overlap \in Nat
  BY LogConstants, Zenon DEF LogInv, TypeOK
<1>3. rows \subseteq Events /\ \A f \in rows : Pos(f) \in Positions
  BY VisibleIsInserted, PosTypes, Zenon DEF LogInv
<1>4. rows # {} => /\ Newest(rows) \in rows
                   /\ \A f \in rows : f = Newest(rows) \/ Before(Pos(f), Pos(Newest(rows)))
  BY VisibleIsInserted, NewestExists, Zenon DEF LogInv
<1>5. top \in Positions /\ (top = cursor \/ \E v \in rows : top = Pos(v))
  BY <1>2, <1>3, <1>4, Zenon
<1>6. \A f \in rows : ~Before(top, Pos(f))
  BY <1>3, <1>4 DEF Before, Positions
<1> HIDE DEF top
<1>7. /\ reached \in Positions /\ ~Before(reached, top) /\ ~Before(reached, cursor)
      /\ reached = cursor \/ \E v \in rows : reached = Pos(v)
  BY <1>2, <1>5 DEF Before, Positions
<1>8. \A f \in rows : ~Before(reached, Pos(f))
  BY <1>2, <1>3, <1>5, <1>6 DEF Before, Positions
<1> HIDE DEF reached
<1>9. /\ settled' \in Nat /\ settled' <= cursor'[1] /\ settled' + Overlap <= clock
  <2>1. settled <= cursor[1] /\ settled + Overlap <= clock /\ dbNow <= clock
    BY Zenon DEF LogInv, ReadInv, ClockInv
  <2>2. cursor[1] <= reached[1] /\ cursor[1] \in Nat /\ reached[1] \in Nat
    BY <1>2, <1>7 DEF Before, Positions
  <2> QED BY <1>1, <1>2, <2>1, <2>2 DEF Watermark
<1>10. handed' \in [Events -> Nat]
       /\ \A e \in Events : handed'[e] = IF e \in rows \ seen THEN handed[e] + 1 ELSE handed[e]
  BY <1>1, <1>2
<1>11. ASSUME NEW e \in Events PROVE Delivered(e)' <=> Delivered(e) \/ e \in rows
  <2>1. e \in seen => Delivered(e)
    BY Zenon DEF LogInv, ReadInv
  <2>2. handed[e] \in Nat
    BY <1>2, Zenon
  <2> QED BY <1>10, <2>1, <2>2 DEF Delivered
<1> QED BY <1>1, <1>7, <1>8, <1>9, <1>10, <1>11, Zenon

\* A read of the tailer: Drain or Sweep.
LEMMA ReadKeeps ==
  ASSUME LogInv, NEW rows, rows \subseteq Visible, Deliver(rows), tpc \in {"drain", "sweep"},
         tpc' \in {"drain", "sweep", "wait"}, UNCHANGED <<writerVars, dbNow, skipped, logFaults>>,
         cycled' = cycled \/ cycled' = clock, seen' \subseteq seen \cup rows
  PROVE  LogInv'
<1>1. UNCHANGED <<clock, row, at, id, dbNow, skipped, logFaults>>
  BY Zenon DEF writerVars
<1>2. dbNow > Overlap
  BY Zenon DEF LogInv, ClockInv
<1>3. /\ cursor' \in Positions /\ settled' \in Nat /\ handed' \in [Events -> Nat]
      /\ cursor' = cursor \/ \E v \in rows : cursor' = Pos(v)
      /\ ~Before(cursor', cursor) /\ \A r \in rows : ~Before(cursor', Pos(r))
      /\ settled' <= cursor'[1] /\ settled' + Overlap <= clock
      /\ \A e \in Events : Delivered(e)' <=> Delivered(e) \/ e \in rows
  BY <1>2, DeliverEffect, Zenon
<1>4. Visible' = Visible /\ Inserted' = Inserted /\ rows \subseteq Events
  BY <1>1, Zenon DEF Visible, Inserted
<1>5. \A f : Pos(f)' = Pos(f)
  BY <1>1, Zenon DEF Pos
<1>6. TypeOK'
  BY <1>1, <1>3, <1>4, Zenon DEF LogInv, TypeOK
<1>7. OrderInv'
  BY <1>1, <1>4, Zenon DEF LogInv, OrderInv
<1>8. ClockInv'
  BY <1>1, <1>2, <1>3, LogConstants DEF LogInv, ClockInv, TypeOK
<1>9. ReadInv'
  <2>1. cursor' = Zero \/ \E v \in Visible' : cursor' = Pos(v)'
    BY <1>3, <1>4, <1>5, Zenon DEF LogInv, ReadInv
  <2>2. ASSUME NEW e \in Events, Delivered(e)' PROVE e \in Visible' /\ ~Before(cursor', Pos(e)')
    <3>1. CASE e \in rows
      BY <1>3, <1>4, <1>5, <3>1, Zenon
    <3>2. CASE Delivered(e)
      <4>1. e \in Visible /\ ~Before(cursor, Pos(e))
        BY <3>2, Zenon DEF LogInv, ReadInv
      <4>2. Pos(e) \in Positions /\ cursor \in Positions
        BY PosTypes, Zenon DEF LogInv, TypeOK
      <4> QED BY <1>3, <1>4, <1>5, <4>1, <4>2 DEF Before, Positions
    <3> QED BY <1>3, <2>2, <3>1, <3>2, Zenon
  <2>3. ASSUME NEW e \in seen' PROVE Delivered(e)'
    <3>1. e \in Events /\ (Delivered(e) \/ e \in rows)
      BY <1>4, Zenon DEF LogInv, ReadInv, TypeOK
    <3> QED BY <1>3, <3>1, Zenon
  <2> QED BY <1>3, <2>1, <2>2, <2>3, Zenon DEF ReadInv
<1> QED BY <1>6, <1>7, <1>8, <1>9, Zenon DEF LogInv

LEMMA DrainKeeps == LogInv /\ Drain => LogInv'
<1> SUFFICES ASSUME LogInv, Drain PROVE LogInv'
  BY Zenon
<1> DEFINE rows == Oldest({e \in Visible : Before(cursor, Pos(e))}, BatchLimit)
<1>1. /\ Deliver(rows) /\ tpc = "drain" /\ tpc' \in {"drain", "sweep"} /\ seen' = seen \cup rows
      /\ UNCHANGED <<writerVars, dbNow, cycled, skipped, logFaults>>
  BY Zenon DEF Drain
<1>2. rows \subseteq Visible
  BY Zenon DEF Oldest
<1> HIDE DEF rows
<1> QED BY <1>1, <1>2, ReadKeeps, Zenon

LEMMA SweepKeeps == LogInv /\ Sweep => LogInv'
<1> SUFFICES ASSUME LogInv, Sweep PROVE LogInv'
  BY Zenon
<1>1. /\ Deliver(Window) /\ tpc = "sweep" /\ tpc' = "wait" /\ seen' \subseteq seen \cup Window
      /\ cycled' = clock /\ UNCHANGED <<writerVars, dbNow, skipped, logFaults>>
  BY Zenon DEF Sweep
<1>2. Window \subseteq Visible
  BY Zenon DEF Window, Trailing, Oldest
<1> QED BY <1>1, <1>2, ReadKeeps, Zenon

\* tail_loop: the head is the newest visible row, and what is visible counts as
\* delivered.
LEMMA BootKeeps == LogInv /\ Boot => LogInv'
<1> SUFFICES ASSUME LogInv, Boot PROVE LogInv'
  BY Zenon
<1>1. UNCHANGED <<clock, row, at, id, settled, cycled, handed, logFaults>> /\ dbNow' = clock /\ tpc' = "drain"
  BY Zenon DEF Boot, writerVars
<1>2. /\ clock \in Nat /\ at \in [Events -> Nat] /\ id \in [Events -> Nat] /\ settled \in Nat
      /\ cursor \in Positions /\ skipped \subseteq Events
  BY Zenon DEF LogInv, TypeOK
<1>3. Visible' = Visible /\ Inserted' = Inserted
  BY <1>1, Zenon DEF Visible, Inserted
<1>4. OrderInv' /\ ClockInv'
  BY <1>1, <1>2, <1>3 DEF LogInv, OrderInv, ClockInv
<1>5. \A f : Pos(f)' = Pos(f)
  BY <1>1, Zenon DEF Pos
<1>6. CASE Visible = {}
  <2>1. UNCHANGED <<cursor, seen, skipped>>
    BY <1>6, Zenon DEF Boot
  <2>2. TypeOK'
    BY <1>1, <1>2, <2>1, Zenon DEF LogInv, TypeOK
  <2>3. ReadInv'
    BY <1>1, <1>3, <1>5, <2>1, Zenon DEF LogInv, ReadInv, Delivered
  <2> QED BY <1>4, <2>2, <2>3, Zenon DEF LogInv
<1>7. CASE Visible # {}
  <2> DEFINE head == Newest(Visible)
  <2>1. cursor' = Pos(head) /\ seen' = {head} /\ skipped' = Visible
    BY <1>7, Zenon DEF Boot
  <2>2. head \in Visible /\ \A f \in Visible : f = head \/ Before(Pos(f), Pos(head))
    BY VisibleIsInserted, <1>7, NewestExists, Zenon DEF LogInv
  <2> HIDE DEF head
  <2>3. head \in Events /\ \A f \in Visible : f \in Events /\ Pos(f) \in Positions
    BY <2>2, VisibleIsInserted, PosTypes, Zenon DEF LogInv
  <2>4. TypeOK'
    BY <1>1, <1>2, <2>1, <2>2, <2>3, Zenon DEF LogInv, TypeOK
  <2>5. settled <= Pos(head)[1]
    <3>1. settled <= cursor[1] /\ (cursor = Zero \/ \E v \in Visible : cursor = Pos(v))
      BY Zenon DEF LogInv, ReadInv
    <3>2. Pos(head) \in Positions
      BY <2>2, <2>3, Zenon
    <3>3. CASE cursor = Zero
      BY <1>2, <3>1, <3>2, <3>3 DEF Zero, Positions
    <3>4. ASSUME NEW v \in Visible, cursor = Pos(v) PROVE settled <= Pos(head)[1]
      BY <1>2, <2>2, <2>3, <3>1, <3>2, <3>4 DEF Before, Positions
    <3> QED BY <3>1, <3>3, <3>4, Zenon
  <2>6. \A e \in Visible : Delivered(e)' /\ ~Before(Pos(head), Pos(e))
    <3>1. \A e \in Visible : Delivered(e)'
      BY <2>1, Zenon DEF Delivered
    <3>2. \A e \in Visible : ~Before(Pos(head), Pos(e))
      BY <2>2, <2>3 DEF Before, Positions
    <3> QED BY <3>1, <3>2, Zenon
  <2>7. \A e \in Events : Delivered(e)' => e \in Visible
    BY <1>1, <2>1, Zenon DEF LogInv, ReadInv, Delivered
  <2>8. ReadInv'
    BY <1>1, <1>3, <1>5, <2>1, <2>2, <2>5, <2>6, <2>7, Zenon DEF ReadInv
  <2> QED BY <1>4, <2>4, <2>8, Zenon DEF LogInv
<1> QED BY <1>6, <1>7, Zenon

LEMMA RestartKeeps == LogInv /\ Restart => LogInv'
<1> SUFFICES ASSUME LogInv, Restart PROVE LogInv'
  BY Zenon
<1>1. /\ UNCHANGED <<clock, row, at, id>> /\ tpc' = "boot" /\ cycled' = clock
      /\ cursor' = Zero /\ seen' = {} /\ settled' = 0 /\ dbNow' = 0 /\ skipped' = {}
      /\ handed' = [e \in Events |-> 0] /\ logFaults < MaxFaults /\ logFaults' = logFaults + 1
  BY Zenon DEF Restart, writerVars, LogFault, Zero
<1>2. Visible' = Visible /\ Inserted' = Inserted
  BY <1>1, Zenon DEF Visible, Inserted
<1>3. TypeOK'
  BY <1>1 DEF LogInv, TypeOK, Positions, Zero
<1>4. OrderInv'
  BY <1>1, <1>2, Zenon DEF LogInv, OrderInv
<1>5. ClockInv'
  BY <1>1, LogConstants DEF LogInv, ClockInv, TypeOK
<1>6. ReadInv'
  BY <1>1 DEF ReadInv, Delivered, Zero
<1> QED BY <1>3, <1>4, <1>5, <1>6, Zenon DEF LogInv

\* The log's other steps: time, the bell, the start of a cycle, one that fails.
LEMMA OtherKeeps ==
  ASSUME LogInv, Tick \/ Listen \/ Woken \/ Polled \/ CycleFails \/ UNCHANGED logVars
  PROVE  LogInv'
<1>1. /\ UNCHANGED <<row, at, id, cursor, seen, settled, handed, skipped>>
      /\ \/ UNCHANGED <<clock, tpc, dbNow, cycled, logFaults>>
         \/ /\ clock' = clock + 1 /\ clock < cycled + Poll
            /\ \A e \in Events : row[e] = "open" => clock < at[e] + MaxTx
            /\ UNCHANGED <<tpc, dbNow, cycled, logFaults>>
         \/ tpc' = "drain" /\ dbNow' = clock /\ UNCHANGED <<clock, cycled, logFaults>>
         \/ /\ tpc' = "wait" /\ cycled' = clock /\ logFaults < MaxFaults /\ logFaults' = logFaults + 1
            /\ UNCHANGED <<clock, dbNow>>
  BY Zenon DEF Tick, Listen, Woken, Polled, CycleStarts, CycleFails, LogFault, logVars, writerVars, tailVars
<1>2. Visible' = Visible /\ Inserted' = Inserted
  BY <1>1, Zenon DEF Visible, Inserted
<1>3. clock \in Nat /\ dbNow \in Nat /\ cycled \in Nat /\ logFaults \in Nat /\ MaxFaults \in Nat /\ Poll \in Nat
      /\ settled \in Nat /\ MaxTx \in Nat /\ Overlap \in Nat /\ \A e \in Events : at[e] \in Nat
  BY LogConstants, Zenon DEF LogInv, TypeOK
<1>4. TypeOK'
  BY <1>1, <1>3 DEF LogInv, TypeOK
<1>5. OrderInv'
  BY <1>1, <1>2, <1>3, VisibleIsInserted DEF LogInv, OrderInv
<1>6. ClockInv'
  BY <1>1, <1>3 DEF LogInv, ClockInv
<1>7. \A f : Pos(f)' = Pos(f) /\ Delivered(f)' = Delivered(f)
  BY <1>1, Zenon DEF Pos, Delivered
<1>8. ReadInv'
  BY <1>1, <1>2, <1>7, Zenon DEF LogInv, ReadInv
<1> QED BY <1>4, <1>5, <1>6, <1>8, Zenon DEF LogInv

LEMMA LogInvNext == LogInv /\ [LogNext]_logVars => LogInv'
BY AppendKeeps, EndKeeps, DrainKeeps, SweepKeeps, BootKeeps, RestartKeeps, OtherKeeps, Zenon
   DEF LogNext, Write, TailLoop

\* What the drain leaves: nothing visible is passed over, and a batch that is not
\* full leaves nothing ahead.
LEMMA DrainEffect ==
  ASSUME LogInv, Drain
  PROVE  /\ \A e \in Visible : Before(cursor, Pos(e)) /\ ~Before(cursor', Pos(e)) => Delivered(e)'
         /\ \A e \in Visible : ~Before(cursor, Pos(e)) => ~Before(cursor', Pos(e))
         /\ \A e \in Visible : tpc' = "sweep" => ~Before(cursor', Pos(e))
         /\ \A e \in Events : Delivered(e) => Delivered(e)'
<1> DEFINE ahead == {e \in Visible : Before(cursor, Pos(e))}
           rows == Oldest(ahead, BatchLimit)
<1>1. /\ Deliver(rows) /\ tpc = "drain" /\ UNCHANGED skipped
      /\ tpc' = IF Cardinality(rows) < BatchLimit THEN "sweep" ELSE "drain"
  BY Zenon DEF Drain
<1>2. ahead \subseteq Visible /\ ahead \subseteq Inserted /\ ahead \subseteq Events /\ rows \subseteq ahead
  BY VisibleIsInserted, Zenon DEF Oldest
<1>3. BatchLimit \in Nat /\ cursor \in Positions /\ \A e \in Events : Pos(e) \in Positions
  BY LogConstants, PosTypes, Zenon DEF LogInv, TypeOK
<1>4. \A r \in rows, f \in ahead : Before(Pos(f), Pos(r)) => f \in rows
  BY <1>2, <1>3, OldestClosed, Zenon DEF LogInv
<1>5. tpc' = "sweep" => rows = ahead
  BY <1>1, <1>2, <1>3, OldestIsAll, Zenon DEF LogInv
<1> HIDE DEF rows
<1>6. /\ cursor' \in Positions
      /\ cursor' = cursor \/ \E v \in rows : cursor' = Pos(v)
      /\ ~Before(cursor', cursor) /\ \A r \in rows : ~Before(cursor', Pos(r))
      /\ \A e \in Events : Delivered(e)' <=> Delivered(e) \/ e \in rows
  <2>1. dbNow > Overlap
    BY <1>1, Zenon DEF LogInv, ClockInv
  <2> QED BY <1>1, <1>2, <2>1, DeliverEffect, Zenon
<1>7. ASSUME NEW e \in ahead, ~Before(cursor', Pos(e)) PROVE e \in rows
  <2>1. PICK v \in rows : cursor' = Pos(v)
    BY <1>6, <1>7, Zenon
  <2>2. e \in Inserted /\ v \in Inserted /\ e \in Events /\ v \in Events
    BY <1>2, Zenon
  <2>3. id[e] = id[v] => e = v
    BY <2>2, Zenon DEF LogInv, OrderInv
  <2>4. at[e] \in Nat /\ id[e] \in Nat /\ at[v] \in Nat /\ id[v] \in Nat
    BY <2>2, PosTypes, Zenon DEF LogInv
  <2>5. ~Before(Pos(v), Pos(e))
    BY <1>7, <2>1, Zenon
  <2>6. e = v \/ Before(Pos(e), Pos(v))
    BY <2>3, <2>4, <2>5 DEF Before, Pos
  <2> QED BY <1>4, <2>1, <2>6, Zenon
<1>8. \A e \in Visible : ~Before(cursor, Pos(e)) => ~Before(cursor', Pos(e))
  BY <1>3, <1>6, VisibleIsInserted DEF Before, Positions
<1> QED BY <1>2, <1>5, <1>6, <1>7, <1>8, VisibleIsInserted, Zenon

\* Then the sweep reads all of the window.
LEMMA SweepReads ==
  ASSUME LogInv, WindowFits, NEW e \in Visible, ~Before(cursor, Pos(e)), at[e] >= cursor[1] - Overlap
  PROVE  e \in Window
<1>1. e \in Trailing /\ Trailing \subseteq Events
  BY VisibleIsInserted, Zenon DEF Trailing
<1>2. cursor[1] # 0
  <2>1. at[e] > Overlap /\ at[e] \in Nat /\ Overlap \in Nat /\ cursor \in Positions
    BY InsertedIsPastZero, VisibleIsInserted, LogConstants, PosTypes, Zenon DEF LogInv, TypeOK
  <2> QED BY <2>1 DEF Before, Pos, Positions
<1>3. 4 * BatchLimit \in Nat
  BY LogConstants
<1>4. Oldest(Trailing, 4 * BatchLimit) = Trailing
  BY <1>1, <1>3, OldestOfFew, Zenon DEF WindowFits, LogInv
<1> QED BY <1>1, <1>2, <1>4, Zenon DEF Window

\* What the sweep leaves: the cursor stays, and a window that was read whole is
\* delivered.
LEMMA SweepEffect ==
  ASSUME LogInv, Sweep
  PROVE  /\ cursor' = cursor /\ cycled' = clock /\ tpc' = "wait"
         /\ \A e \in Events : Delivered(e) => Delivered(e)'
         /\ \A e \in Visible : WindowFits /\ ~Before(cursor, Pos(e)) /\ at[e] >= cursor[1] - Overlap
                                 => Delivered(e)'
<1>1. Deliver(Window) /\ tpc = "sweep" /\ tpc' = "wait" /\ cycled' = clock /\ UNCHANGED skipped
  BY Zenon DEF Sweep
<1>2. Window \subseteq Visible /\ Trailing \subseteq Visible /\ \A e \in Window : ~Before(cursor, Pos(e))
  BY Zenon DEF Window, Trailing, Oldest
<1>3. cursor \in Positions /\ \A e \in Events : Pos(e) \in Positions
  BY PosTypes, Zenon DEF LogInv, TypeOK
<1>4. /\ cursor' \in Positions
      /\ cursor' = cursor \/ \E v \in Window : cursor' = Pos(v)
      /\ ~Before(cursor', cursor)
      /\ \A e \in Events : Delivered(e)' <=> Delivered(e) \/ e \in Window
  <2>1. dbNow > Overlap
    BY <1>1, Zenon DEF LogInv, ClockInv
  <2> QED BY <1>1, <1>2, <2>1, DeliverEffect, Zenon
<1>5. cursor' = cursor
  BY <1>2, <1>3, <1>4 DEF Before, Positions
<1> QED BY <1>1, <1>4, <1>5, SweepReads, VisibleIsInserted, Zenon

\* Once the tailer is up, everything visible at its head counts as delivered.
LEMMA BootEffect ==
  ASSUME LogInv, Boot
  PROVE  Visible' = Visible /\ \A e \in Visible : Delivered(e)'
BY Zenon DEF Boot, writerVars, Visible, Delivered

-----------------------------------------------------------------------------
(* One writer at a time                                                     *)

\* The row of an open transaction is the last, so what is visible and not past
\* the cursor was there to be read.
SerialInv ==
  /\ \A e, f \in Inserted : row[e] = "open" => id[f] <= id[e]
  /\ \A e \in Visible : ~Before(cursor, Pos(e)) => Delivered(e)

LEMMA OpenIsAhead ==
  ASSUME LogInv, SerialInv, NEW e \in Events, row[e] = "open"
  PROVE  Before(cursor, Pos(e))
<1>1. e \in Inserted /\ e \notin Visible
  BY Zenon DEF Inserted, Visible
<1>2. CASE cursor = Zero
  BY <1>1, <1>2, InsertedIsPastZero, Zenon DEF LogInv
<1>3. ASSUME NEW v \in Visible, cursor = Pos(v) PROVE Before(cursor, Pos(e))
  <2>1. v \in Inserted /\ v # e /\ v \in Events
    BY <1>1, VisibleIsInserted, Zenon
  <2>2. id[v] <= id[e] /\ (id[v] < id[e] => at[v] <= at[e]) /\ id[v] # id[e]
    BY <1>1, <2>1, Zenon DEF LogInv, SerialInv, OrderInv
  <2>3. at[e] \in Nat /\ id[e] \in Nat /\ at[v] \in Nat /\ id[v] \in Nat
    BY <2>1, PosTypes, Zenon DEF LogInv
  <2> QED BY <1>3, <2>2, <2>3 DEF Before, Pos
<1> QED BY <1>2, <1>3, Zenon DEF LogInv, ReadInv

LEMMA SerialInvNext ==
  ASSUME OneWriter, LogInv, SerialInv, [LogNext]_logVars
  PROVE  SerialInv'
<1>1. ASSUME NEW e \in Events, AppendEvent(e) PROVE SerialInv'
  <2>1. /\ row[e] = "none" /\ (\A f \in Events : row[f] # "open")
        /\ row' = [row EXCEPT ![e] = "open"] /\ at' = [at EXCEPT ![e] = clock]
        /\ id' = [id EXCEPT ![e] = Cardinality(Inserted) + 1]
        /\ UNCHANGED <<cursor, handed, skipped>>
    BY <1>1, Zenon DEF AppendEvent, tailVars
  <2>2. /\ row \in [Events -> {"none", "open", "committed", "aborted"}]
        /\ at \in [Events -> Nat] /\ id \in [Events -> Nat]
    BY Zenon DEF LogInv, TypeOK
  <2>3. Inserted' = Inserted \cup {e} /\ e \notin Inserted /\ Visible' = Visible
    BY <2>1, <2>2, Zenon DEF Inserted, Visible
  <2>4. \A f \in Inserted : f \in Events /\ f # e /\ id'[f] = id[f] /\ row'[f] # "open"
                            /\ id[f] \in 1..Cardinality(Inserted)
    BY <2>1, <2>2, <2>3, Zenon DEF Inserted, LogInv, OrderInv
  <2>5. id'[e] = Cardinality(Inserted) + 1
    BY <2>1, <2>2, Zenon
  <2>6. \A f \in Visible : Pos(f)' = Pos(f) /\ (Delivered(f)' <=> Delivered(f))
    BY <2>1, <2>2, Zenon DEF Visible, Pos, Delivered
  <2>7. \A f, g \in Inserted' : row'[f] = "open" => id'[g] <= id'[f]
    BY <2>3, <2>4, <2>5, InsertedIsFinite
  <2> QED BY <2>1, <2>3, <2>6, <2>7, Zenon DEF SerialInv
<1>2. ASSUME NEW e \in Events, Commit(e) \/ Abort(e) PROVE SerialInv'
  <2>1. /\ row[e] = "open" /\ (row' = [row EXCEPT ![e] = "committed"] \/ row' = [row EXCEPT ![e] = "aborted"])
        /\ UNCHANGED <<at, id, cursor, handed, skipped>>
    BY <1>2, Zenon DEF Commit, Abort, tailVars
  <2>2. row \in [Events -> {"none", "open", "committed", "aborted"}]
    BY Zenon DEF LogInv, TypeOK
  <2>3. Inserted' = Inserted /\ Visible' \subseteq Visible \cup {e}
    BY <2>1, <2>2, Zenon DEF Inserted, Visible
  <2>4. \A f \in Inserted : row'[f] = "open" => row[f] = "open"
    BY <2>1, <2>2, VisibleIsInserted, Zenon
  <2>5. \A f : Pos(f)' = Pos(f) /\ (Delivered(f)' <=> Delivered(f))
    BY <2>1, Zenon DEF Pos, Delivered
  <2>6. Before(cursor, Pos(e))
    BY <2>1, OpenIsAhead, Zenon
  <2> QED BY <2>1, <2>3, <2>4, <2>5, <2>6, Zenon DEF SerialInv
<1>3. CASE Drain \/ Sweep \/ Boot \/ Restart \/ Tick \/ Listen \/ Woken \/ Polled \/ CycleFails \/ UNCHANGED logVars
  <2>1. UNCHANGED <<row, at, id>>
    BY <1>3, Zenon DEF Drain, Sweep, Boot, Restart, Tick, Listen, Woken, Polled, CycleStarts, CycleFails, logVars, writerVars
  <2>2. Inserted' = Inserted /\ Visible' = Visible /\ \A f : Pos(f)' = Pos(f)
    BY <2>1, Zenon DEF Inserted, Visible, Pos
  <2>3. SUFFICES \A e \in Visible : ~Before(cursor', Pos(e)) => Delivered(e)'
    BY <2>1, <2>2, Zenon DEF SerialInv
  <2>4. \A e \in Visible : ~Before(cursor, Pos(e)) => Delivered(e)
    BY Zenon DEF SerialInv
  <2>5. CASE Drain
    BY <2>4, <2>5, DrainEffect, VisibleIsInserted, Zenon
  <2>6. CASE Sweep
    BY <2>4, <2>6, SweepEffect, VisibleIsInserted, Zenon
  <2>7. CASE Boot
    BY <2>7, BootEffect, Zenon
  <2>8. CASE Restart
    <3>1. cursor' = Zero
      BY <2>8, Zenon DEF Restart, Zero
    <3> QED BY <3>1, InsertedIsPastZero, VisibleIsInserted, Zenon DEF LogInv
  <2>9. CASE Tick \/ Listen \/ Woken \/ Polled \/ CycleFails \/ UNCHANGED logVars
    <3>1. UNCHANGED <<cursor, handed, skipped>>
      BY <2>9, Zenon DEF Tick, Listen, Woken, Polled, CycleStarts, CycleFails, logVars, tailVars
    <3> QED BY <2>4, <3>1, Zenon DEF Delivered
  <2> QED BY <1>3, <2>5, <2>6, <2>7, <2>8, <2>9, Zenon
<1> QED BY <1>1, <1>2, <1>3, Zenon DEF LogNext, Write, TailLoop

\* `Bus::settled` with SQLite's single writer: everything before the watermark
\* has been read and nothing can commit behind it, whatever the overlap, the
\* batches, the failed cycles and the restarts.
THEOREM SettledFinal == ASSUME OneWriter PROVE LogSpec => []SettledIsFinal
<1> DEFINE Inv == LogInv /\ SerialInv
<1>1. LogInit => Inv
  BY LogInvInit, Zenon DEF LogInit, SerialInv, Inserted, Visible
<1>2. Inv /\ [LogNext]_logVars => Inv'
  BY LogInvNext, SerialInvNext, Zenon
<1>3. Inv => SettledIsFinal
  <2> SUFFICES ASSUME Inv, NEW e \in Live, at[e] < settled
               PROVE  row[e] = "committed" /\ Delivered(e)
    BY Zenon DEF SettledIsFinal
  <2>1. e \in Events /\ row[e] \in {"open", "committed"} /\ at[e] \in Nat
    BY PosTypes, Zenon DEF LogInv, Live
  <2>2. settled <= cursor[1] /\ settled \in Nat /\ cursor \in Positions
    BY Zenon DEF LogInv, ReadInv, TypeOK
  <2>3. ~Before(cursor, Pos(e))
    BY <2>1, <2>2 DEF Before, Pos, Positions
  <2>4. row[e] = "committed"
    BY <2>1, <2>3, OpenIsAhead, Zenon
  <2> QED BY <2>1, <2>3, <2>4, Zenon DEF SerialInv, Visible
<1> QED BY <1>1, <1>2, <1>3, PTL DEF LogSpec

-----------------------------------------------------------------------------
(* Writers side by side                                                     *)

LEMMA LateTypes ==
  \A n \in Nat : Late(n) \in Nat /\ Late(n + 1) = Late(n) + Poll
BY LogConstants DEF Late

LEMMA LateGrows ==
  \A m, n \in Nat : m <= n => Late(m) <= Late(n)
<1> SUFFICES ASSUME NEW m \in Nat, NEW n \in Nat, m <= n PROVE Late(m) <= Late(n)
  BY Zenon
<1>1. PICK k \in Nat : n = m + k
  <2>1. n - m \in Nat /\ n = m + (n - m)
    OBVIOUS
  <2> QED BY <2>1, Zenon
<1>2. n * Poll = m * Poll + k * Poll /\ k * Poll \in Nat /\ m * Poll \in Nat
  BY <1>1, LogConstants
<1> QED BY <1>2 DEF Late

LEMMA PromptInvNext ==
  ASSUME Overlap >= MaxTx + (MaxFaults + 1) * Poll, LogInv, PromptInv, WindowFits, [LogNext]_logVars
  PROVE  PromptInv'
<1>1. /\ clock \in Nat /\ cycled \in Nat /\ logFaults \in Nat /\ MaxFaults \in Nat /\ Poll \in Nat /\ MaxTx \in Nat
      /\ Overlap \in Nat /\ \A e \in Visible : e \in Events /\ at[e] \in Nat
  BY LogConstants, VisibleIsInserted, PosTypes, Zenon DEF LogInv, TypeOK
<1>2. cycled <= clock /\ clock <= cycled + Poll /\ logFaults <= MaxFaults
  BY Zenon DEF LogInv, ClockInv
<1>3. \A n \in Nat : Late(n) \in Nat /\ Late(n + 1) = Late(n) + Poll
  BY LateTypes, Zenon
<1>4. \A e : Cycles(e) \in {logFaults, logFaults + 1} /\ Cycles(e) \in Nat
  BY <1>1 DEF Cycles
<1>5. ASSUME NEW e \in Events, AppendEvent(e) PROVE PromptInv'
  <2>1. /\ row[e] = "none" /\ row' = [row EXCEPT ![e] = "open"] /\ at' = [at EXCEPT ![e] = clock]
        /\ id' = [id EXCEPT ![e] = Cardinality(Inserted) + 1]
        /\ UNCHANGED <<tpc, cycled, cursor, handed, skipped, logFaults>>
    BY <1>5, Zenon DEF AppendEvent, tailVars
  <2>2. /\ row \in [Events -> {"none", "open", "committed", "aborted"}]
        /\ at \in [Events -> Nat] /\ id \in [Events -> Nat]
    BY Zenon DEF LogInv, TypeOK
  <2>3. Visible' = Visible /\ \A f \in Visible : f # e
    BY <2>1, <2>2, Zenon DEF Visible
  <2>4. \A f \in Visible : at'[f] = at[f] /\ Pos(f)' = Pos(f)
    BY <1>1, <2>1, <2>2, <2>3, Zenon DEF Pos
  <2>5. \A f \in Visible : Cycles(f)' = Cycles(f) /\ (Delivered(f)' <=> Delivered(f))
    BY <2>1, <2>4, Zenon DEF Cycles, Delivered
  <2> QED BY <2>1, <2>3, <2>4, <2>5, Zenon DEF PromptInv
<1>6. ASSUME NEW e \in Events, Commit(e) \/ Abort(e) PROVE PromptInv'
  <2>1. /\ row[e] = "open" /\ (row' = [row EXCEPT ![e] = "committed"] \/ row' = [row EXCEPT ![e] = "aborted"])
        /\ UNCHANGED <<at, id, tpc, cycled, cursor, handed, skipped, logFaults>>
    BY <1>6, Zenon DEF Commit, Abort, tailVars
  <2>2. row \in [Events -> {"none", "open", "committed", "aborted"}] /\ at[e] \in Nat
    BY Zenon DEF LogInv, TypeOK
  <2>3. Visible' \subseteq Visible \cup {e}
    BY <2>1, <2>2, Zenon DEF Visible
  <2>4. \A f : Cycles(f)' = Cycles(f) /\ (Delivered(f)' <=> Delivered(f))
    BY <2>1, Zenon DEF Cycles, Pos, Delivered
  <2>5. cycled <= at[e] + MaxTx + Late(Cycles(e))
    <3>1. clock <= at[e] + MaxTx
      BY <2>1, Zenon DEF LogInv, ClockInv
    <3>2. Late(Cycles(e)) \in Nat
      BY <1>3, <1>4, Zenon
    <3> QED BY <1>1, <1>2, <2>2, <3>1, <3>2
  <2> QED BY <2>1, <2>3, <2>4, <2>5, Zenon DEF PromptInv
<1>7. ASSUME NEW f \in Visible, Delivered(f) => Delivered(f)', tpc # "boot", UNCHANGED at,
             \/ cycled' = cycled /\ Cycles(f)' >= Cycles(f)
             \/ cycled' = clock /\ Cycles(f)' > Cycles(f), Cycles(f)' \in Nat
      PROVE  Delivered(f)' \/ cycled' <= at'[f] + MaxTx + Late(Cycles(f)')
  <2> DEFINE n == Cycles(f)
             m == Cycles(f)'
  <2>1. n \in Nat /\ m \in Nat /\ n + 1 \in Nat /\ Late(n) \in Nat /\ Late(m) \in Nat /\ Late(n + 1) = Late(n) + Poll
    BY <1>3, <1>4, <1>7
  <2> SUFFICES ASSUME ~Delivered(f)' PROVE cycled' <= at'[f] + MaxTx + Late(m)
    BY Zenon
  <2>2. cycled <= at[f] + MaxTx + Late(n)
    BY <1>7, Zenon DEF PromptInv
  <2> HIDE DEF n, m
  <2>3. m >= n => Late(n) <= Late(m)
    BY <2>1, LateGrows, Zenon
  <2>4. m > n => Late(n + 1) <= Late(m)
    <3>1. m > n => n + 1 <= m
      BY <2>1
    <3> QED BY <2>1, <3>1, LateGrows, Zenon
  <2>5. at[f] \in Nat /\ at'[f] = at[f]
    BY <1>1, <1>7, Zenon
  <2>6. CASE cycled' = cycled /\ m >= n
    BY <1>1, <2>1, <2>2, <2>3, <2>5, <2>6
  <2>7. CASE cycled' = clock /\ m > n
    BY <1>1, <1>2, <2>1, <2>2, <2>4, <2>5, <2>7
  <2> QED BY <1>7, <2>6, <2>7, Zenon DEF n, m
<1>8. ASSUME UNCHANGED <<row, at, id>> PROVE Visible' = Visible /\ \A f : Pos(f)' = Pos(f)
  BY <1>8, Zenon DEF Visible, Pos
<1>9. CASE Drain
  <2>1. /\ UNCHANGED <<row, at, id, cycled, logFaults>> /\ tpc = "drain" /\ tpc' \in {"drain", "sweep"}
    BY <1>9, Zenon DEF Drain, writerVars
  <2>2. ASSUME NEW f \in Visible, ~Delivered(f)' PROVE Cycles(f)' = Cycles(f)
    <3>1. Before(cursor, Pos(f)) => Before(cursor', Pos(f)) /\ tpc' # "sweep"
      BY <1>9, <2>2, DrainEffect, Zenon
    <3>2. ~Before(cursor, Pos(f)) => ~Before(cursor', Pos(f))
      BY <1>9, DrainEffect, Zenon
    <3> QED BY <1>8, <2>1, <3>1, <3>2, Zenon DEF Cycles
  <2>3. \A f \in Visible : Delivered(f) => Delivered(f)'
    BY <1>1, <1>9, DrainEffect, Zenon
  <2> QED BY <1>1, <1>4, <1>7, <1>8, <2>1, <2>2, <2>3, Zenon DEF PromptInv
<1>10. CASE Sweep
  <2>1. /\ UNCHANGED <<row, at, id, logFaults>> /\ tpc = "sweep"
    BY <1>10, Zenon DEF Sweep, writerVars
  <2>2. cursor' = cursor /\ cycled' = clock /\ tpc' = "wait"
    BY <1>10, SweepEffect, Zenon
  <2>3. \A f \in Visible : Delivered(f) => Delivered(f)'
    BY <1>1, <1>10, SweepEffect, Zenon
  <2>4. ASSUME NEW f \in Visible, ~Delivered(f)' PROVE Cycles(f)' = Cycles(f) + 1
    <3>1. Cycles(f) = logFaults
      BY <1>1, <2>1 DEF Cycles
    <3>2. cycled <= at[f] + MaxTx + Late(logFaults)
      BY <2>1, <2>3, <2>4, <3>1, Zenon DEF PromptInv
    <3>3. Late(logFaults + 1) <= Late(MaxFaults + 1) /\ Late(logFaults + 1) = Late(logFaults) + Poll
          /\ Late(logFaults) \in Nat /\ Late(MaxFaults + 1) \in Nat
      <4>1. logFaults + 1 \in Nat /\ MaxFaults + 1 \in Nat /\ logFaults + 1 <= MaxFaults + 1
        BY <1>1, <1>2
      <4> QED BY <1>1, <1>3, <4>1, LateGrows, Zenon
    <3>4. Overlap >= MaxTx + Late(MaxFaults + 1)
      BY <1>1, Zenon DEF Late
    <3>5. cursor[1] <= clock /\ cursor[1] \in Nat
      <4>1. cursor \in Positions /\ (cursor = Zero \/ \E v \in Visible : cursor = Pos(v))
        BY Zenon DEF LogInv, ReadInv, TypeOK
      <4>2. \A v \in Visible : at[v] <= clock /\ Pos(v)[1] = at[v]
        BY VisibleIsInserted, PosTypes, Zenon DEF LogInv, OrderInv
      <4> QED BY <1>1, <4>1, <4>2 DEF Zero, Positions
    <3>6. at[f] >= cursor[1] - Overlap
      BY <1>1, <1>2, <3>2, <3>3, <3>4, <3>5
    <3>7. Before(cursor, Pos(f))
      BY <1>10, <2>4, <3>6, SweepEffect, Zenon
    <3> QED BY <1>1, <1>8, <2>1, <2>2, <3>1, <3>7, Zenon DEF Cycles
  <2> QED BY <1>1, <1>4, <1>7, <1>8, <2>1, <2>2, <2>3, <2>4 DEF PromptInv
<1>11. CASE Boot
  BY <1>11, BootEffect, Zenon DEF PromptInv
<1>12. CASE Restart
  BY <1>12, Zenon DEF Restart, PromptInv
<1>13. CASE CycleFails
  <2>1. /\ UNCHANGED <<row, at, id, cursor, handed, skipped>> /\ tpc \in {"drain", "sweep"} /\ tpc' = "wait"
        /\ logFaults' = logFaults + 1 /\ cycled' = clock
    BY <1>13, Zenon DEF CycleFails, LogFault, writerVars
  <2>2. \A f \in Visible : Cycles(f)' \in Nat /\ Cycles(f)' > Cycles(f) /\ (Delivered(f)' <=> Delivered(f))
    BY <1>1, <1>8, <2>1 DEF Cycles, Delivered
  <2> QED BY <1>7, <1>8, <2>1, <2>2, Zenon DEF PromptInv
<1>14. CASE Tick \/ Listen \/ Woken \/ Polled \/ UNCHANGED logVars
  <2>1. /\ UNCHANGED <<row, at, id, cursor, cycled, handed, skipped, logFaults>>
        /\ tpc' = tpc \/ (tpc = "wait" /\ tpc' = "drain")
    BY <1>14, Zenon DEF Tick, Listen, Woken, Polled, CycleStarts, logVars, writerVars, tailVars
  <2>2. \A f : Cycles(f)' = Cycles(f) /\ (Delivered(f)' <=> Delivered(f))
    BY <1>8, <2>1 DEF Cycles, Delivered
  <2> QED BY <1>8, <2>1, <2>2, Zenon DEF PromptInv
<1> QED BY <1>5, <1>6, <1>9, <1>10, <1>11, <1>12, <1>13, <1>14, Zenon DEF LogNext, Write, TailLoop

\* What nobody has read is younger than a transaction and the cycles that may
\* fail, so the watermark is behind it.
LEMMA PromptIsFinal ==
  ASSUME Overlap >= MaxTx + (MaxFaults + 1) * Poll, LogInv, PromptInv
  PROVE  SettledIsFinal
<1> SUFFICES ASSUME NEW e \in Live, at[e] < settled PROVE row[e] = "committed" /\ Delivered(e)
  BY Zenon DEF SettledIsFinal
<1>1. e \in Events /\ row[e] \in {"open", "committed"} /\ at[e] \in Nat
  BY PosTypes, Zenon DEF LogInv, Live
<1>2. /\ settled <= cursor[1] /\ settled \in Nat /\ cursor \in Positions /\ settled + Overlap <= clock
      /\ clock \in Nat /\ cycled \in Nat /\ clock <= cycled + Poll /\ logFaults <= MaxFaults /\ logFaults \in Nat
  BY Zenon DEF LogInv, ReadInv, ClockInv, TypeOK
<1>3. /\ MaxTx \in Nat /\ Overlap \in Nat /\ Poll \in Nat /\ MaxFaults \in Nat
      /\ Overlap >= MaxTx + Late(MaxFaults + 1)
  BY LogConstants, Zenon DEF Late
<1>4. /\ Late(logFaults + 1) = Late(logFaults) + Poll /\ Late(logFaults) \in Nat
      /\ Late(MaxFaults + 1) \in Nat /\ Late(logFaults + 1) <= Late(MaxFaults + 1)
  <2>1. logFaults + 1 \in Nat /\ MaxFaults + 1 \in Nat /\ logFaults + 1 <= MaxFaults + 1
    BY <1>2, <1>3
  <2> QED BY <1>2, <2>1, LateTypes, LateGrows, Zenon
<1>5. ~Before(cursor, Pos(e)) /\ tpc # "boot"
  <2>1. cursor[1] \in Nat /\ cursor[1] > at[e]
    BY <1>1, <1>2 DEF Positions
  <2>2. ~Before(cursor, Pos(e))
    BY <1>1, <2>1 DEF Before, Pos
  <2>3. cursor # Zero
    BY <1>1, <2>1 DEF Zero
  <2> QED BY <2>2, <2>3, Zenon DEF LogInv, ReadInv
<1>6. row[e] # "open"
  <2> SUFFICES ASSUME row[e] = "open" PROVE FALSE
    BY Zenon
  <2>1. clock <= at[e] + MaxTx
    BY <1>1, Zenon DEF LogInv, ClockInv
  <2> QED BY <1>1, <1>2, <1>3, <1>4, <2>1
<1>7. Delivered(e)
  <2> SUFFICES ASSUME ~Delivered(e) PROVE FALSE
    BY Zenon
  <2>1. Cycles(e) = logFaults
    BY <1>2, <1>5 DEF Cycles
  <2>2. e \in Visible
    BY <1>1, <1>6, Zenon DEF Visible
  <2>3. cycled <= at[e] + MaxTx + Late(logFaults)
    BY <1>5, <2>1, <2>2, Zenon DEF PromptInv
  <2> QED BY <1>1, <1>2, <1>3, <1>4, <2>3
<1> QED BY <1>1, <1>6, <1>7, Zenon

\* `Bus::settled` with writers side by side, as on Postgres: the watermark is
\* final if the overlap covers the longest transaction and the cycles that may
\* fail in a row plus one, and if the window's read never runs into its limit.
THEOREM SettledFinalConcurrent ==
  ASSUME Overlap >= MaxTx + (MaxFaults + 1) * Poll
  PROVE  LogSpec /\ []WindowFits => []SettledIsFinal
<1>1. LogInit => LogInv /\ PromptInv
  BY LogInvInit, Zenon DEF LogInit, PromptInv
<1>2. LogInv /\ PromptInv /\ WindowFits /\ [LogNext]_logVars => (LogInv /\ PromptInv)'
  BY LogInvNext, PromptInvNext, Zenon
<1>3. LogInv /\ PromptInv => SettledIsFinal
  BY PromptIsFinal, Zenon
<1> QED BY <1>1, <1>2, <1>3, PTL DEF LogSpec

-----------------------------------------------------------------------------
(* What the tailer hands out, and when                                      *)

\* The rows a drain or a sweep hands to the hub.
LEMMA FreshEffect ==
  ASSUME LogInv, OnceInv, Drain \/ Sweep
  PROVE  /\ \A e \in Fresh : e \in Events /\ Awaited(e) /\ handed'[e] = 1
         /\ \A e \in Events : e \notin Fresh => handed'[e] = handed[e]
         /\ \A e \in Events : Delivered(e)' <=> Delivered(e) \/ e \in Fresh
         /\ \A e \in Events, x \in Fresh : Delivered(e) => at[e] <= at[x] + Overlap
         /\ \A x \in Events : Awaited(x)' => Awaited(x) /\ x \notin Fresh
         /\ \A e \in Events : handed'[e] = 1 /\ e \notin seen' => at[e] < cursor'[1] - Retain
<1>1. PICK rows : /\ rows \subseteq Visible /\ Deliver(rows) /\ tpc \in {"drain", "sweep"}
                  /\ UNCHANGED <<row, at, id, skipped>>
                  /\ \/ rows \subseteq {e \in Visible : Before(cursor, Pos(e))} /\ seen' = seen \cup rows
                     \/ /\ rows \subseteq Trailing
                        /\ seen' = {e \in seen \cup rows : at[e] >= cursor[1] - Retain} /\ cursor' = cursor
  <2>1. CASE Drain
    <3> DEFINE rows == Oldest({e \in Visible : Before(cursor, Pos(e))}, BatchLimit)
    <3>1. Deliver(rows) /\ tpc = "drain" /\ seen' = seen \cup rows /\ UNCHANGED <<row, at, id, skipped>>
      BY <2>1, Zenon DEF Drain, writerVars
    <3>2. rows \subseteq {e \in Visible : Before(cursor, Pos(e))}
      BY Zenon DEF Oldest
    <3> HIDE DEF rows
    <3> QED BY <3>1, <3>2, Zenon
  <2>2. CASE Sweep
    <3>1. Deliver(Window) /\ tpc = "sweep" /\ UNCHANGED <<row, at, id, skipped>>
          /\ seen' = {e \in seen \cup Window : at[e] >= cursor[1] - Retain} /\ cursor' = cursor
      BY <2>2, SweepEffect, Zenon DEF Sweep, writerVars
    <3>2. Window \subseteq Trailing /\ Trailing \subseteq Visible
      BY Zenon DEF Window, Trailing, Oldest
    <3> QED BY <3>1, <3>2, Zenon
  <2> QED BY <2>1, <2>2, Zenon
<1>2. /\ cursor' \in Positions /\ ~Before(cursor', cursor) /\ handed' \in [Events -> Nat]
      /\ \A e \in Events : handed'[e] = IF e \in rows \ seen THEN handed[e] + 1 ELSE handed[e]
      /\ \A e \in Events : Delivered(e)' <=> Delivered(e) \/ e \in rows
  <2>1. dbNow > Overlap
    BY <1>1, Zenon DEF LogInv, ClockInv
  <2> QED BY <1>1, <2>1, DeliverEffect, Zenon
<1>3. /\ cursor \in Positions /\ Overlap \in Nat /\ Retain \in Nat /\ Retain >= 2 * Overlap
      /\ seen \subseteq Events /\ skipped \subseteq Events /\ rows \subseteq Events
      /\ \A e \in Events : at[e] \in Nat /\ handed[e] \in Nat /\ id[e] \in Nat
  BY <1>1, LogConstants, VisibleIsInserted, PosTypes, Zenon DEF LogInv, TypeOK
<1>4. cursor[1] \in Nat /\ cursor'[1] \in Nat /\ cursor[1] <= cursor'[1]
  BY <1>2, <1>3 DEF Before, Positions
<1>5. Fresh = rows \ seen
  BY <1>2, <1>3 DEF Fresh
<1>6. \A e \in Events : Delivered(e) => ~Before(cursor, Pos(e)) /\ e \in Visible
  BY Zenon DEF LogInv, ReadInv
<1>7. \A e \in Events : handed[e] > 0 \/ e \in skipped <=> Delivered(e)
  BY Zenon DEF Delivered
<1>8. \A x \in rows : at[x] >= cursor[1] - Overlap
  <2>1. \A x \in Events : Before(cursor, Pos(x)) => at[x] >= cursor[1]
    BY <1>3, <1>4 DEF Before, Pos
  <2> QED BY <1>1, <1>3, <1>4, <2>1 DEF Trailing
<1>9. \A e \in Events : handed[e] <= 1 /\ (handed[e] = 1 /\ e \notin seen => at[e] < cursor[1] - Retain)
  BY Zenon DEF OnceInv
<1>10. \A e \in rows \ seen : handed[e] = 0
  BY <1>3, <1>4, <1>8, <1>9
<1>11. \A e \in Fresh : e \in Events /\ Awaited(e) /\ handed'[e] = 1
  BY <1>1, <1>2, <1>3, <1>5, <1>8, <1>10 DEF Awaited
<1>12. \A e \in Events : e \notin Fresh => handed'[e] = handed[e]
  BY <1>2, <1>5, Zenon
<1>13. \A e \in seen : Delivered(e)
  BY Zenon DEF LogInv, ReadInv
<1>14. \A e \in Events : Delivered(e)' <=> Delivered(e) \/ e \in Fresh
  BY <1>2, <1>3, <1>5, <1>13, Zenon
<1>15. ASSUME NEW e \in Events, NEW x \in Fresh, Delivered(e) PROVE at[e] <= at[x] + Overlap
  <2>1. at[e] <= cursor[1]
    BY <1>3, <1>4, <1>6, <1>15 DEF Before, Pos
  <2> QED BY <1>3, <1>4, <1>5, <1>8, <2>1
<1>16. ASSUME NEW x \in Events, Awaited(x)' PROVE Awaited(x) /\ x \notin Fresh
  <2>1. x \in Visible /\ handed'[x] = 0 /\ (x \in skipped => x \notin seen' /\ at[x] >= cursor'[1] - Overlap)
    BY <1>1, <1>16, Zenon DEF Awaited, Visible
  <2>2. x \notin Fresh /\ handed[x] = 0
    BY <1>11, <1>12, <2>1
  <2>3. x \in skipped => x \notin seen /\ at[x] >= cursor[1] - Overlap
    BY <1>1, <1>3, <1>4, <2>1
  <2> QED BY <2>1, <2>2, <2>3, Zenon DEF Awaited
<1>17. ASSUME NEW e \in Events, handed'[e] = 1, e \notin seen' PROVE at[e] < cursor'[1] - Retain
  <2>1. CASE e \in seen \cup rows
    BY <1>1, <1>3, <1>4, <1>17, <2>1
  <2>2. CASE e \notin seen \cup rows
    BY <1>2, <1>3, <1>4, <1>9, <1>17, <2>2
  <2> QED BY <2>1, <2>2, Zenon
<1> QED BY <1>11, <1>12, <1>14, <1>15, <1>16, <1>17, Zenon

LEMMA OnceInvNext ==
  ASSUME LogInv, OnceInv, WindowFits, [LogNext]_logVars
  PROVE  OnceInv'
<1>1. /\ skipped \subseteq Events /\ Retain \in Nat /\ Overlap \in Nat /\ cursor[1] \in Nat /\ Retain >= 2 * Overlap
      /\ \A e \in Events : handed[e] \in Nat /\ at[e] \in Nat
  BY LogConstants, PosTypes, Zenon DEF LogInv, TypeOK, Positions
<1>2. ASSUME NEW e \in Events, AppendEvent(e) PROVE OnceInv'
  <2>1. /\ row[e] = "none" /\ row' = [row EXCEPT ![e] = "open"] /\ at' = [at EXCEPT ![e] = clock]
        /\ UNCHANGED <<cursor, seen, handed, skipped>>
    BY <1>2, Zenon DEF AppendEvent, tailVars
  <2>2. /\ row \in [Events -> {"none", "open", "committed", "aborted"}] /\ at \in [Events -> Nat]
    BY Zenon DEF LogInv, TypeOK
  <2>3. Visible' = Visible /\ e \notin Visible
    BY <2>1, <2>2, Zenon DEF Visible
  <2>4. \A f \in Events : handed[f] = 1 => f # e
    BY <2>3 DEF LogInv, ReadInv, Delivered
  <2>5. \A f \in Events : f # e => at'[f] = at[f]
    BY <2>1, <2>2, Zenon
  <2>6. \A x \in Events : Awaited(x)' => Awaited(x)
    BY <2>1, <2>3, <2>5, Zenon DEF Awaited
  <2> QED BY <1>1, <2>1, <2>4, <2>5, <2>6, Zenon DEF OnceInv
<1>3. ASSUME NEW e \in Events, Commit(e) \/ Abort(e) PROVE OnceInv'
  <2>1. /\ row[e] = "open" /\ (row' = [row EXCEPT ![e] = "committed"] \/ row' = [row EXCEPT ![e] = "aborted"])
        /\ UNCHANGED <<at, cursor, seen, handed, skipped>>
    BY <1>3, Zenon DEF Commit, Abort, tailVars
  <2>2. row \in [Events -> {"none", "open", "committed", "aborted"}]
    BY Zenon DEF LogInv, TypeOK
  <2>3. Visible' \subseteq Visible \cup {e} /\ e \notin Visible
    BY <2>1, <2>2, Zenon DEF Visible
  <2>4. \A x \in skipped : x # e
    BY <1>1, <2>3, Zenon DEF LogInv, ReadInv, Delivered
  <2>5. \A x \in skipped : Awaited(x)' => Awaited(x)
    BY <2>1, <2>3, <2>4, Zenon DEF Awaited
  <2> QED BY <2>1, <2>5, Zenon DEF OnceInv
<1>4. CASE Drain \/ Sweep
  <2>1. UNCHANGED <<row, at, id, skipped>>
    BY <1>4, ZenonT(30) DEF Drain, Sweep, writerVars
  <2>2. \A e \in Events : handed'[e] <= 1
    BY <1>4, FreshEffect DEF OnceInv
  <2>3. \A e \in Events : handed'[e] = 1 /\ e \notin seen' => at'[e] < cursor'[1] - Retain
    BY <1>4, <2>1, FreshEffect, Zenon
  <2>4. ASSUME NEW y \in skipped', handed'[y] = 1, NEW x \in skipped' PROVE ~Awaited(x)'
    <3>1. SUFFICES ASSUME Awaited(x) PROVE ~Awaited(x)'
      BY <1>1, <1>4, <2>1, FreshEffect, Zenon
    <3>2. y \in Events /\ x \in Events /\ x \in skipped /\ y \in skipped
      BY <1>1, <2>1, Zenon
    <3>3. CASE handed[y] = 1
      BY <2>1, <3>1, <3>2, <3>3, Zenon DEF OnceInv
    <3>4. CASE handed[y] # 1 /\ Drain
      <4>1. y \in Fresh
        BY <1>4, <2>4, <3>2, <3>4, FreshEffect, Zenon
      <4>2. ~Before(cursor, Pos(y))
        BY <3>2, Zenon DEF LogInv, ReadInv, Delivered
      <4>3. Before(cursor, Pos(y))
        <5> DEFINE rows == Oldest({e \in Visible : Before(cursor, Pos(e))}, BatchLimit)
        <5>1. handed' = [e \in Events |-> IF e \in rows \ seen THEN handed[e] + 1 ELSE handed[e]]
          BY <3>4, Zenon DEF Drain, Deliver
        <5>2. \A e \in rows : Before(cursor, Pos(e))
          BY Zenon DEF Oldest
        <5> HIDE DEF rows
        <5>3. y \in rows
          BY <3>2, <4>1, <5>1, <1>1 DEF Fresh
        <5> QED BY <5>2, <5>3, Zenon
      <4> QED BY <4>2, <4>3, Zenon
    <3>5. CASE Sweep
      <4>1. x \in Visible /\ handed[x] = 0 /\ x \notin seen /\ at[x] >= cursor[1] - Overlap
        BY <3>1, <3>2, Zenon DEF Awaited
      <4>2. ~Before(cursor, Pos(x))
        BY <3>2, Zenon DEF LogInv, ReadInv, Delivered
      <4>3. x \in Window
        BY <3>5, <4>1, <4>2, SweepReads, Zenon
      <4>4. handed' = [e \in Events |-> IF e \in Window \ seen THEN handed[e] + 1 ELSE handed[e]]
        BY <3>5, Zenon DEF Sweep, Deliver
      <4>5. handed'[x] = 1
        BY <3>2, <4>1, <4>3, <4>4
      <4> QED BY <4>5 DEF Awaited
    <3> QED BY <1>4, <3>3, <3>4, <3>5, Zenon
  <2> QED BY <2>2, <2>3, <2>4, Zenon DEF OnceInv
<1>5. CASE Boot \/ Restart
  <2>1. \A e \in Events : handed'[e] = 0
    BY <1>5, Zenon DEF Boot, Restart, LogInv, ReadInv
  <2>2. skipped' \subseteq Events
    BY <1>1, <1>5, VisibleIsInserted, Zenon DEF Boot, Restart
  <2> QED BY <2>1, <2>2 DEF OnceInv
<1>6. CASE Tick \/ Listen \/ Woken \/ Polled \/ CycleFails \/ UNCHANGED logVars
  <2>1. UNCHANGED <<row, at, cursor, seen, handed, skipped>>
    BY <1>6, Zenon DEF Tick, Listen, Woken, Polled, CycleStarts, CycleFails, logVars, writerVars, tailVars
  <2>2. \A x : Awaited(x)' <=> Awaited(x)
    BY <2>1, Zenon DEF Awaited, Visible
  <2> QED BY <2>1, <2>2, Zenon DEF OnceInv
<1> QED BY <1>2, <1>3, <1>4, <1>5, <1>6, Zenon DEF LogNext, Write, TailLoop

-----------------------------------------------------------------------------
(* All of it together                                                       *)

LEMMA BusInvInit == LogInit => BusInv
BY LogInvInit DEF LogInit, BusInv, PromptInv, OnceInv

LEMMA BusInvNext ==
  ASSUME Overlap >= MaxTx + (MaxFaults + 1) * Poll, BusInv, WindowFits, [LogNext]_logVars
  PROVE  BusInv'
BY LogInvNext, PromptInvNext, OnceInvNext, Zenon DEF BusInv

LEMMA HandingOut ==
  ASSUME BusInv, Drain \/ Sweep
  PROVE  HandsOut
BY FreshEffect, ZenonT(30) DEF BusInv, HandsOut

\* A connection that breaks counts as a fault and leaves the log alone.
LEMMA OtherFaultKeeps ==
  ASSUME BusInv, OtherFault
  PROVE  BusInv'
<1>0. /\ UNCHANGED <<clock, row, at, id, tpc, dbNow, cursor, seen, settled, cycled, handed, skipped>>
      /\ logFaults < MaxFaults /\ logFaults' = logFaults + 1
  BY Zenon DEF OtherFault
<1>1. Visible' = Visible /\ Inserted' = Inserted
  BY <1>0, Zenon DEF Visible, Inserted
<1>2. \A f : Pos(f)' = Pos(f) /\ (Delivered(f)' <=> Delivered(f))
  BY <1>0, Zenon DEF Pos, Delivered
<1>3. logFaults \in Nat /\ MaxFaults \in Nat
  BY LogConstants, Zenon DEF BusInv, LogInv, TypeOK
<1>4. TypeOK'
  BY <1>0, <1>3 DEF BusInv, LogInv, TypeOK
<1>5. OrderInv'
  BY <1>0, <1>1, Zenon DEF BusInv, LogInv, OrderInv
<1>6. ClockInv'
  BY <1>0, <1>3 DEF BusInv, LogInv, ClockInv
<1>7. ReadInv'
  BY <1>0, <1>1, <1>2, Zenon DEF BusInv, LogInv, ReadInv
<1>8. OnceInv'
  <2>1. \A x : Awaited(x)' <=> Awaited(x)
    BY <1>0, <1>1, Zenon DEF Awaited
  <2> QED BY <1>0, <2>1, ZenonT(30) DEF BusInv, OnceInv
<1>9. ASSUME tpc' # "boot", NEW f \in Visible, ~Delivered(f)
      PROVE  cycled <= at[f] + MaxTx + Late(Cycles(f)')
  <2>1. Cycles(f) \in Nat /\ Cycles(f)' = Cycles(f) + 1
    BY <1>0, <1>2, <1>3 DEF Cycles
  <2>2. Late(Cycles(f)) \in Nat /\ Late(Cycles(f)') = Late(Cycles(f)) + Poll
    BY <2>1, LateTypes, Zenon
  <2>3. cycled <= at[f] + MaxTx + Late(Cycles(f)) /\ cycled \in Nat /\ at[f] \in Nat /\ MaxTx \in Nat /\ Poll \in Nat
    BY <1>0, <1>9, LogConstants, PosTypes, VisibleIsInserted, ZenonT(30) DEF BusInv, LogInv, TypeOK, PromptInv
  <2> QED BY <2>2, <2>3
<1>10. PromptInv'
  BY <1>0, <1>1, <1>2, <1>9, Zenon DEF PromptInv
<1> QED BY <1>4, <1>5, <1>6, <1>7, <1>8, <1>10, Zenon DEF BusInv, LogInv
=============================================================================
