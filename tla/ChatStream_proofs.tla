-------------------------- MODULE ChatStream_proofs --------------------------
(***************************************************************************)
(* The chat stream never repeats or reorders a frame, is cut off within a  *)
(* window of a revocation, and misses only what the hub dropped.           *)
(*                                                                         *)
(* CutInv counts the time since the last confirmation.  OrderInv keeps     *)
(* what the client got sorted and behind `last`.  The third theorem rests  *)
(* on four more: WorkInv (a frame is stored before it is published, and    *)
(* only the claimed turn grows), HubInv (the queue holds later frames in   *)
(* order, and the hub drops only what did not fit), CursorInv (a replay    *)
(* reads from its cursor, page by page) and MissInv (where a frame that    *)
(* was not sent can still be: ahead of the cursor, in the page, in the     *)
(* queue, or still with the worker).                                       *)
(***************************************************************************)
EXTENDS ChatStream, FiniteSetTheorems, WellFoundedInduction, TLAPS

\* Time is counted from the last confirmation, and from a revocation only after
\* it; what is left of a page belongs to a replay.
CutInv ==
  /\ since \in Nat /\ confirmed \in Nat /\ since <= confirmed
  /\ revoked \in {"no", "grant", "token"}
  /\ revoked = "no" => since = 0
  /\ pc \notin {"replay", "fill"} => rows = {}

\* CutInv is inductive.
LEMMA CutInvStep == CutInv /\ [Next]_vars => CutInv'
<1> SUFFICES ASSUME CutInv, [Next]_vars PROVE CutInv'
  BY Zenon
<1>0. Window \in Nat
  BY ChatStreamConstants, Zenon
<1> USE DEF CutInv
<1>1. CASE Ends /\ UNCHANGED revoked
  BY <1>1 DEF Ends
<1>2. ASSUME NEW t \in Turn, NEW state, \/ Post(t) \/ Claim(t) \/ AppendEvent(t) \/ PublishEvent(t)
                                       \/ Reclaim(t) \/ Answer(t, state)
      PROVE  CutInv'
  BY <1>2, Zenon DEF Post, Claim, AppendEvent, PublishEvent, Reclaim, Answer, streamVars
<1>3. ASSUME NEW reload, Connect(reload) PROVE CutInv'
  BY <1>3, Zenon DEF Connect
<1>4. CASE OpenTurns
  BY <1>1, <1>4, Zenon DEF OpenTurns
<1>5. CASE ReadPage \/ ReadFails \/ EmitRow
  BY <1>5, Zenon DEF ReadPage, ReadFails, EmitRow, Replaying
<1>6. CASE ReplayDone
  BY <1>6 DEF ReplayDone
<1>7. CASE Receive
  BY <1>0, <1>1, <1>7 DEF Receive, Authorised, TokenResolves, Reconfirm
<1>8. CASE KeepAlive
  BY <1>0, <1>1, <1>8 DEF KeepAlive, Authorised, TokenResolves, Reconfirm
<1>9. CASE Disconnect \/ Crash
  BY <1>1, <1>9, Zenon DEF Disconnect, Crash
<1>10. CASE Tick
  BY <1>10 DEF Tick
<1>11. ASSUME NEW what \in {"grant", "token"}, Revoke(what) PROVE CutInv'
  BY <1>11 DEF Revoke
<1>12. CASE UNCHANGED vars
  BY <1>12, Zenon DEF vars
<1> HIDE DEF CutInv
<1> QED
  BY <1>2, <1>3, <1>4, <1>5, <1>6, <1>7, <1>8, <1>9, <1>10, <1>11, <1>12, Zenon DEF Next

-----------------------------------------------------------------------------

\* Where a cursor may be, and where a frame may.
Spots  == Nat \X Nat
Frames == Nat \X (Nat \ {0})

FrameTypes ==
  /\ got \in Seq(Frames) /\ kept \in 0..Len(got)
  /\ last \in Spots /\ pend \in Spots /\ rows \subseteq Frames
  /\ sub = <<None>> \/ sub \in Seq(Spots)
  /\ table \in [Turn -> Nat]
  /\ budget \in [{"frames", "connects", "crashes", "errors", "revokes"} -> Nat]
  /\ pc = "fill" => pend \in Frames

Sorted == \A i, j \in DOMAIN got : i < j => Before(got[i], got[j])

\* Everything that was sent is at or before the cursor of the stream, and what is
\* left of a page is after it.
OrderInv ==
  /\ Sorted
  /\ pc # "off" => \A i \in DOMAIN got : ~Before(last, got[i])
  /\ pc = "open" => last = Cursor(got)
  /\ \A f \in rows : Before(last, f)

\* The order of the frames is total.
LEMMA BeforeOrders ==
  /\ \A f \in Spots : f[1] \in Nat /\ f[2] \in Nat /\ f = <<f[1], f[2]>> /\ ~Before(f, f)
  /\ \A f, g, h \in Spots : ~Before(g, f) /\ Before(g, h) => Before(f, h)
  /\ Frames \subseteq Spots /\ \A f \in Frames : f[2] # 0
BY DEF Spots, Frames, Before

\* A frame after the cursor is sent, and becomes the cursor.
LEMMA EmitSorts ==
  ASSUME FrameTypes, OrderInv, pc # "off", NEW f \in Frames, Before(last, f), Emit(f)
  PROVE  /\ got' \in Seq(Frames) /\ Len(got') = Len(got) + 1 /\ last' \in Spots
         /\ Sorted' /\ \A i \in DOMAIN got' : ~Before(last', got'[i])
<1>1. got \in Seq(Frames) /\ last \in Spots /\ f \in Spots
  BY BeforeOrders, Zenon DEF FrameTypes
<1>2. got' = Append(got, f) /\ last' = f
  BY Zenon DEF Emit
<1>3. /\ got' \in Seq(Frames) /\ Len(got') = Len(got) + 1 /\ Len(got) \in Nat
      /\ DOMAIN got = 1..Len(got) /\ DOMAIN got' = 1..(Len(got) + 1)
      /\ \A i \in 1..Len(got) : got'[i] = got[i] /\ got[i] \in Spots
      /\ got'[Len(got) + 1] = f
  BY <1>1, <1>2, BeforeOrders
<1>4. \A i \in 1..Len(got) : Before(got[i], f)
  BY <1>1, <1>3, BeforeOrders, Zenon DEF OrderInv
<1>5. Sorted'
  <2> SUFFICES ASSUME NEW i \in DOMAIN got', NEW j \in DOMAIN got', i < j
               PROVE  Before(got'[i], got'[j])
    BY Zenon DEF Sorted
  <2>1. CASE j = Len(got) + 1
    BY <1>3, <1>4, <2>1
  <2>2. CASE j # Len(got) + 1
    BY <1>3, <2>2 DEF OrderInv, Sorted
  <2> QED BY <2>1, <2>2, Zenon
<1>6. \A i \in DOMAIN got' : ~Before(f, got'[i])
  <2> SUFFICES ASSUME NEW i \in DOMAIN got', Before(f, got'[i]) PROVE FALSE
    BY Zenon
  <2>1. CASE i = Len(got) + 1
    BY <1>1, <1>3, <2>1, BeforeOrders, Zenon
  <2>2. CASE i # Len(got) + 1
    <3>1. got'[i] \in Spots /\ Before(got'[i], f)
      BY <1>3, <1>4, <2>2
    <3>2. ~Before(got'[i], got'[i])
      BY <3>1, BeforeOrders, Zenon
    <3>3. ~Before(f, got'[i]) \/ Before(f, f)
      BY <3>1, <1>1 DEF Before, Spots
    <3> QED BY <1>1, <3>3, BeforeOrders, Zenon
  <2> QED BY <2>1, <2>2, Zenon
<1> QED BY <1>1, <1>2, <1>3, <1>5, <1>6, Zenon

\* A stream that ends leaves the client some of what was sent.
LEMMA EndsSorts ==
  ASSUME FrameTypes, OrderInv, Ends
  PROVE  /\ got' \in Seq(Frames) /\ Len(got') <= Len(got) /\ kept' \in 0..Len(got')
         /\ Sorted'
<1>1. PICK n \in kept..Len(got) : got' = SubSeq(got, 1, n)
  BY Zenon DEF Ends
<1>2. got \in Seq(Frames) /\ Len(got) \in Nat /\ kept \in 0..Len(got)
  BY DEF FrameTypes
<1>3. n \in 0..Len(got)
  BY <1>1, <1>2
<1>4. /\ got' \in Seq(Frames) /\ Len(got') = n /\ DOMAIN got = 1..Len(got) /\ DOMAIN got' = 1..n
      /\ \A i \in 1..n : got'[i] = got[i]
  BY <1>1, <1>2, <1>3
<1>5. Sorted'
  BY <1>3, <1>4 DEF Sorted, OrderInv
<1>6. kept' = 0
  BY Zenon DEF Ends
<1> QED BY <1>3, <1>4, <1>5, <1>6

\* The hub hands on positions.
LEMMA PublishTypes ==
  ASSUME NEW u \in Spots, Publish(u), sub = <<None>> \/ sub \in Seq(Spots)
  PROVE  sub' = <<None>> \/ sub' \in Seq(Spots)
<1>1. CASE sub \in Seq(Spots)
  <2>1. Append(sub, u) \in Seq(Spots)
    BY <1>1
  <2> QED BY <1>1, <2>1, Zenon DEF Publish
<1>2. CASE sub = <<None>>
  BY <1>2, Zenon DEF Publish
<1> QED BY <1>1, <1>2, Zenon

\* A worker changes nothing of the stream but its channel.
LEMMA WorkSorts ==
  ASSUME FrameTypes, OrderInv, NEW t \in Turn, NEW state,
         \/ Post(t) \/ Claim(t) \/ AppendEvent(t) \/ PublishEvent(t) \/ Reclaim(t) \/ Answer(t, state)
  PROVE  FrameTypes' /\ OrderInv'
<1>1. UNCHANGED streamVars /\ UNCHANGED budget
  BY Zenon DEF Post, Claim, AppendEvent, PublishEvent, Reclaim, Answer
<1>2. OrderInv'
  BY <1>1, Zenon DEF streamVars, OrderInv, Sorted, Cursor
<1>3. t \in Nat /\ table[t] \in Nat
  BY ChatStreamConstants, SMTT(20) DEF FrameTypes, Turn
<1>4. table' \in [Turn -> Nat]
  <2>1. table' = table \/ table' = [table EXCEPT ![t] = table[t] + 1]
    BY Zenon DEF Post, Claim, AppendEvent, PublishEvent, Reclaim, Answer
  <2> QED BY <1>3, <2>1 DEF FrameTypes
<1>5. <<t, 0>> \in Spots /\ <<t, table[t]>> \in Spots
  BY <1>3, Zenon DEF Spots
<1>6. sub' = <<None>> \/ sub' \in Seq(Spots)
  <2>1. sub = <<None>> \/ sub \in Seq(Spots)
    BY Zenon DEF FrameTypes
  <2>2. CASE Post(t) \/ AppendEvent(t)
    BY <2>1, <2>2, Zenon DEF Post, AppendEvent
  <2>3. CASE Publish(<<t, 0>>)
    BY <1>5, <2>1, <2>3, PublishTypes, Zenon
  <2>4. CASE Publish(<<t, table[t]>>)
    BY <1>5, <2>1, <2>4, PublishTypes, Zenon
  <2> QED BY <2>2, <2>3, <2>4, Zenon DEF Claim, PublishEvent, Reclaim, Answer, TurnUpdate
<1> QED BY <1>1, <1>2, <1>4, <1>6, Zenon DEF FrameTypes, streamVars

\* A stream that ends leaves the types and the order.
LEMMA EndsKeeps ==
  ASSUME FrameTypes, OrderInv, Ends, UNCHANGED table,
         budget' \in [{"frames", "connects", "crashes", "errors", "revokes"} -> Nat]
  PROVE  FrameTypes' /\ OrderInv'
<1>1. /\ got' \in Seq(Frames) /\ kept' \in 0..Len(got') /\ Sorted'
  BY EndsSorts, Zenon
<1>2. pc' = "off" /\ sub' = <<None>> /\ rows' = {} /\ pend' = Start /\ last' = Start
  BY Zenon DEF Ends
<1>3. Start \in Spots
  BY Zenon DEF Start, Spots
<1>4. FrameTypes'
  BY <1>1, <1>2, <1>3, Zenon DEF FrameTypes
<1> QED BY <1>1, <1>2, <1>4, Zenon DEF OrderInv

\* Spending keeps the type of the budget.
LEMMA SpendTypes ==
  ASSUME FrameTypes, NEW what \in {"connects", "crashes", "errors", "revokes"}, Spend(what)
  PROVE  budget' \in [{"frames", "connects", "crashes", "errors", "revokes"} -> Nat]
BY DEF FrameTypes, Spend

\* A client comes back with the last frame it has.
LEMMA ConnectSorts ==
  ASSUME CutInv, FrameTypes, OrderInv, NEW reload, Connect(reload)
  PROVE  FrameTypes' /\ OrderInv'
<1>1. /\ pc = "off" /\ got' \in {<<>>, got} /\ pc' = "open" /\ last' = Cursor(got')
      /\ sub' \in {<<>>, <<None>>} /\ kept' = Len(got') /\ UNCHANGED <<rows, pend, table>>
  BY Zenon DEF Connect, workVars
<1>2. rows = {}
  BY <1>1, Zenon DEF CutInv
<1>3. budget' \in [{"frames", "connects", "crashes", "errors", "revokes"} -> Nat]
  BY SpendTypes, Zenon DEF Connect
<1>4. got' \in Seq(Frames) /\ Len(got') \in Nat /\ DOMAIN got' = 1..Len(got')
  <2>1. got' \in Seq(Frames)
    <3>1. <<>> \in Seq(Frames) /\ got \in Seq(Frames)
      BY DEF FrameTypes
    <3> QED BY <1>1, <3>1, ZenonT(30)
  <2> QED BY <2>1
<1>5. Sorted'
  BY <1>1, <1>4 DEF OrderInv, Sorted
<1>6. last' \in Spots /\ \A i \in DOMAIN got' : ~Before(last', got'[i])
  <2>1. CASE got' = <<>>
    <3>1. last' = Start /\ DOMAIN got' = {}
      BY <1>1, <1>4, <2>1 DEF Cursor
    <3> QED BY <3>1, Zenon DEF Start, Spots
  <2>2. CASE got' # <<>>
    <3> DEFINE n == Len(got')
    <3>1. n \in DOMAIN got' /\ n \in Nat
      BY <1>4, <2>2
    <3>2. last' = got'[n] /\ got'[n] \in Spots
      BY <1>1, <1>4, <2>2, <3>1, BeforeOrders DEF Cursor
    <3>3. \A i \in DOMAIN got' : i = n \/ i < n
      BY <1>4
    <3> HIDE DEF n
    <3>4. \A i \in DOMAIN got' : i = n \/ Before(got'[i], got'[n])
      BY <1>5, <3>1, <3>3, Zenon DEF Sorted
    <3>5. \A i \in DOMAIN got' : got'[i] \in Spots
      BY <1>4, BeforeOrders
    <3>6. \A f, g \in Spots : Before(f, g) => ~Before(g, f)
      BY DEF Spots, Before
    <3> QED BY <3>1, <3>2, <3>4, <3>5, <3>6, BeforeOrders, Zenon
  <2> QED BY <2>1, <2>2, Zenon
<1>7. FrameTypes'
  <2>1. <<>> \in Seq(Spots) /\ kept' \in 0..Len(got')
    BY <1>1, <1>4
  <2> QED BY <1>1, <1>3, <1>4, <1>6, <2>1, ZenonT(30) DEF FrameTypes
<1> QED BY <1>1, <1>2, <1>5, <1>6, <1>7, Zenon DEF OrderInv

\* A set of naturals has a least element.
Less == {p \in Nat \X Nat : p[1] < p[2]}
LEMMA LeastExists ==
  ASSUME NEW T, T \subseteq Nat, T # {}
  PROVE  \E x \in T : \A y \in T : x <= y
<1>1. IsWellFoundedOn(Less, Nat)
  BY NatLessThanWellFounded, Zenon DEF OpToRel, Less
<1>2. PICK x \in T : \A y \in T : ~(<<y, x>> \in Less)
  BY <1>1, WFMin, Zenon
<1>3. \A a, b \in Nat : a < b => <<a, b>> \in Less
  BY Zenon DEF Less
<1>4. \A y \in T : ~(y < x)
  BY <1>2, <1>3, ZenonT(30)
<1> QED BY <1>4

\* A stream without a cursor starts before the turn in flight.
LEMMA OpenSorts ==
  ASSUME CutInv, FrameTypes, OrderInv, OpenTurns
  PROVE  FrameTypes' /\ OrderInv'
<1>1. pc = "open" /\ UNCHANGED <<revoked, budget, table>>
  BY Zenon DEF OpenTurns, workVars
<1>2. CASE revoked = "grant"
  <2>1. Ends
    BY <1>2, Zenon DEF OpenTurns
  <2> QED BY <1>1, <2>1, EndsKeeps, Zenon DEF FrameTypes
<1>3. CASE revoked # "grant"
  <2>1. pc' = "replay" /\ UNCHANGED <<sub, rows, pend, got, kept>>
    BY <1>3, Zenon DEF OpenTurns
  <2>2. rows = {} /\ last = Cursor(got) /\ last \in Spots
    BY <1>1, Zenon DEF CutInv, OrderInv, FrameTypes
  <2>3. CASE last' = last
    BY <1>1, <2>1, <2>2, <2>3, Zenon DEF FrameTypes, OrderInv, Sorted
  <2>4. CASE last' # last
    <3>1. /\ last = Start /\ Unanswered # {}
          /\ last' = <<CHOOSE t \in Unanswered : \A u \in Unanswered : t <= u, 0>>
      BY <1>3, <2>4, Zenon DEF OpenTurns
    <3>2. Unanswered \subseteq Nat
      BY ChatStreamConstants DEF Unanswered, Turn
    <3>3. \E t \in Unanswered : \A u \in Unanswered : t <= u
      BY <3>1, <3>2, LeastExists, ZenonT(30)
    <3>4. (CHOOSE t \in Unanswered : \A u \in Unanswered : t <= u) \in Nat
      BY <3>2, <3>3, ZenonT(30)
    <3>5. last' \in Spots
      <4> DEFINE t == CHOOSE t \in Unanswered : \A u \in Unanswered : t <= u
      <4>1. last' = <<t, 0>> /\ t \in Nat
        BY <3>1, <3>4, Zenon
      <4> HIDE DEF t
      <4> QED BY <4>1, Zenon DEF Spots
    <3>6. got = <<>>
      <4>1. got \in Seq(Frames)
        BY Zenon DEF FrameTypes
      <4>2. CASE got # <<>>
        <5>1. got[Len(got)] \in Frames
          BY <4>1, <4>2
        <5>2. got[Len(got)] = <<0, 0>>
          BY <2>2, <3>1, <4>2, Zenon DEF Cursor, Start
        <5> QED BY <5>1, <5>2 DEF Frames
      <4> QED BY <4>2, Zenon
    <3>7. DOMAIN got' = {}
      BY <2>1, <3>6
    <3>8. FrameTypes'
      BY <1>1, <2>1, <3>5, Zenon DEF FrameTypes
    <3> QED BY <2>1, <2>2, <3>7, <3>8, Zenon DEF OrderInv, Sorted
  <2> QED BY <2>3, <2>4, Zenon
<1> QED BY <1>2, <1>3, Zenon

\* A page has frames after the cursor only, and they are sent from the first.
LEMMA ReplaySorts ==
  ASSUME FrameTypes, OrderInv, ReadPage \/ ReadFails \/ EmitRow, CutInv
  PROVE  FrameTypes' /\ OrderInv'
<1>1. UNCHANGED <<sub, pc, pend, kept, table>>
  BY Zenon DEF ReadPage, ReadFails, EmitRow, workVars
<1>2. CASE ReadPage
  <2>1. UNCHANGED <<got, last, budget>>
    BY <1>2, Zenon DEF ReadPage
  <2>2. rows' \subseteq {f \in Stored : Before(last, f)}
    BY <1>2, Zenon DEF ReadPage, TurnEvents, Firsts
  <2>3. Stored \subseteq Frames
    <3>1. Turn \subseteq Nat /\ budget.frames \in Nat
      BY ChatStreamConstants DEF Turn, FrameTypes
    <3>2. \A n \in 1..budget.frames : n \in Nat \ {0}
      BY <3>1
    <3> QED BY <3>1, <3>2, ZenonT(30) DEF Stored, Frames
  <2>4. FrameTypes'
    BY <1>1, <2>1, <2>2, <2>3, Zenon DEF FrameTypes
  <2> QED BY <1>1, <2>1, <2>2, <2>4, Zenon DEF OrderInv, Sorted, Cursor
<1>3. CASE ReadFails
  <2>1. UNCHANGED <<got, last, rows>>
    BY <1>3, Zenon DEF ReadFails
  <2>2. budget' \in [{"frames", "connects", "crashes", "errors", "revokes"} -> Nat]
    BY <1>3, SpendTypes, Zenon DEF ReadFails, FrameTypes
  <2>3. FrameTypes'
    BY <1>1, <2>1, <2>2, Zenon DEF FrameTypes
  <2> QED BY <1>1, <2>1, <2>3, Zenon DEF OrderInv, Sorted, Cursor
<1>4. CASE EmitRow
  <2>1. PICK f \in rows : (\A g \in rows : g = f \/ Before(f, g)) /\ Emit(f) /\ rows' = rows \ {f}
    BY <1>4, Zenon DEF EmitRow
  <2>2. pc \in {"replay", "fill"} /\ f \in Frames /\ Before(last, f) /\ UNCHANGED budget /\ last' = f
    BY <1>4, <2>1, Zenon DEF CutInv, FrameTypes, OrderInv, EmitRow, Emit
  <2>3. /\ got' \in Seq(Frames) /\ Len(got') = Len(got) + 1 /\ last' \in Spots
        /\ Sorted' /\ \A i \in DOMAIN got' : ~Before(last', got'[i])
    BY <2>1, <2>2, EmitSorts, Zenon
  <2>4. kept \in 0..Len(got')
    BY <2>3 DEF FrameTypes
  <2>5. FrameTypes'
    BY <1>1, <2>1, <2>2, <2>3, <2>4, Zenon DEF FrameTypes
  <2> QED BY <1>1, <2>1, <2>2, <2>3, <2>5, Zenon DEF OrderInv
<1> QED BY <1>2, <1>3, <1>4, Zenon

\* Frames of the hub that are not after the cursor are dropped, and a gap is
\* filled from the table before the frame that showed it is sent.
LEMMA LiveSorts ==
  ASSUME CutInv, FrameTypes, OrderInv, Receive \/ ReplayDone
  PROVE  FrameTypes' /\ OrderInv'
<1>1. UNCHANGED <<budget, table>>
  BY Zenon DEF Receive, ReplayDone, workVars
<1>2. CASE ~Receive
  <2>1. /\ pc \in {"replay", "fill"} /\ rows = {} /\ pc' = "live" /\ pend' = Start
        /\ sub' \in {<<>>, sub} /\ UNCHANGED <<rows, kept>>
    BY <1>2, Zenon DEF ReplayDone
  <2>2. Start \in Spots /\ (sub' = <<None>> \/ sub' \in Seq(Spots))
    <3>1. <<>> \in Seq(Spots)
      OBVIOUS
    <3> QED BY <2>1, <3>1, ZenonT(30) DEF FrameTypes, Start, Spots
  <2>3. CASE UNCHANGED <<got, last>>
    <3>1. FrameTypes'
      BY <1>1, <2>1, <2>2, <2>3, Zenon DEF FrameTypes
    <3> QED BY <2>1, <2>3, <3>1, Zenon DEF OrderInv, Sorted
  <2>4. CASE ~UNCHANGED <<got, last>>
    <3>1. pc = "fill" /\ Before(last, pend) /\ Emit(pend)
      BY <1>2, <2>4, Zenon DEF ReplayDone
    <3>2. /\ got' \in Seq(Frames) /\ Len(got') = Len(got) + 1 /\ last' \in Spots
          /\ Sorted' /\ \A i \in DOMAIN got' : ~Before(last', got'[i])
      BY <3>1, EmitSorts, Zenon DEF FrameTypes
    <3>3. kept \in 0..Len(got')
      BY <3>2 DEF FrameTypes
    <3>4. FrameTypes'
      BY <1>1, <2>1, <2>2, <3>2, <3>3, Zenon DEF FrameTypes
    <3> QED BY <2>1, <3>2, <3>4, Zenon DEF OrderInv
  <2> QED BY <2>3, <2>4, Zenon
<1>3. CASE Receive /\ ~Authorised
  <2>1. Ends
    BY <1>3, Zenon DEF Receive
  <2> QED BY <1>1, <2>1, EndsKeeps, Zenon DEF FrameTypes
<1>4. CASE Receive /\ Authorised
  <2> DEFINE f == Head(sub)
  <2>1. /\ pc = "live" /\ sub # <<>> /\ sub # <<None>> /\ sub' = Tail(sub)
        /\ UNCHANGED <<rows, kept>>
    BY <1>4, Zenon DEF Receive
  <2>2. f \in Spots /\ sub' \in Seq(Spots) /\ rows = {}
    BY <2>1 DEF FrameTypes, CutInv
  <2>3. CASE UNCHANGED <<got, last, pc, pend>>
    <3>1. FrameTypes'
      BY <1>1, <2>1, <2>2, <2>3, Zenon DEF FrameTypes
    <3> QED BY <2>1, <2>3, <3>1, Zenon DEF OrderInv, Sorted
  <2>4. CASE ~UNCHANGED <<got, last, pc, pend>>
    <3>1. /\ f[2] # 0 /\ Before(last, f)
          /\ \/ pc' = "fill" /\ pend' = f /\ UNCHANGED <<got, last>>
             \/ Emit(f) /\ UNCHANGED <<pc, pend>>
      BY <1>4, <2>4, Zenon DEF Receive, AlreadySent
    <3>2. f \in Frames
      BY <2>2, <3>1, Zenon DEF Spots, Frames
    <3> HIDE DEF f
    <3>3. CASE pc' = "fill" /\ pend' = f /\ UNCHANGED <<got, last>>
      <4>1. FrameTypes'
        BY <1>1, <2>1, <2>2, <3>2, <3>3, Zenon DEF FrameTypes
      <4> QED BY <2>1, <3>3, <4>1, Zenon DEF OrderInv, Sorted
    <3>4. CASE Emit(f) /\ UNCHANGED <<pc, pend>>
      <4>1. /\ got' \in Seq(Frames) /\ Len(got') = Len(got) + 1 /\ last' \in Spots
            /\ Sorted' /\ \A i \in DOMAIN got' : ~Before(last', got'[i])
        BY <2>1, <3>1, <3>2, <3>4, EmitSorts, Zenon
      <4>2. kept \in 0..Len(got')
        BY <4>1 DEF FrameTypes
      <4>3. FrameTypes'
        BY <1>1, <2>1, <2>2, <3>4, <4>1, <4>2, Zenon DEF FrameTypes
      <4> QED BY <2>1, <2>2, <3>4, <4>1, <4>3, Zenon DEF OrderInv
    <3> QED BY <3>1, <3>3, <3>4, Zenon
  <2> QED BY <2>3, <2>4, Zenon
<1> QED BY <1>2, <1>3, <1>4, Zenon

\* The types and the order are inductive.
LEMMA OrderStep == CutInv /\ FrameTypes /\ OrderInv /\ [Next]_vars => FrameTypes' /\ OrderInv'
<1> SUFFICES ASSUME CutInv, FrameTypes, OrderInv, [Next]_vars PROVE FrameTypes' /\ OrderInv'
  BY Zenon
<1>1. CASE KeepAlive \/ Disconnect \/ Crash
  <2>1. UNCHANGED table /\ budget' \in [{"frames", "connects", "crashes", "errors", "revokes"} -> Nat]
    BY <1>1, SpendTypes, Zenon DEF KeepAlive, Disconnect, Crash, workVars, FrameTypes
  <2>2. CASE Ends
    BY <2>1, <2>2, EndsKeeps, Zenon
  <2>3. CASE ~Ends
    <3>1. UNCHANGED <<sub, pc, last, rows, pend, got, kept>>
      BY <1>1, <2>3, Zenon DEF KeepAlive, Disconnect, Crash
    <3>2. FrameTypes'
      BY <2>1, <3>1, Zenon DEF FrameTypes
    <3> QED BY <3>1, <3>2, Zenon DEF OrderInv, Sorted, Cursor
  <2> QED BY <2>2, <2>3, Zenon
<1>2. ASSUME NEW what \in {"grant", "token"}, Tick \/ Revoke(what) \/ UNCHANGED vars
      PROVE  FrameTypes' /\ OrderInv'
  <2>1. UNCHANGED <<sub, pc, last, rows, pend, got, kept, table>>
    BY <1>2, Zenon DEF Tick, Revoke, connVars, workVars, vars
  <2>2. budget' \in [{"frames", "connects", "crashes", "errors", "revokes"} -> Nat]
    BY <1>2, SpendTypes, Zenon DEF Tick, Revoke, vars, FrameTypes
  <2>3. FrameTypes'
    BY <2>1, <2>2, Zenon DEF FrameTypes
  <2> QED BY <2>1, <2>3, Zenon DEF OrderInv, Sorted, Cursor
<1> QED
  BY <1>1, <1>2, WorkSorts, ConnectSorts, OpenSorts, ReplaySorts, LiveSorts, Zenon DEF Next

\* Init, for all three.
LEMMA ChatStreamInit == Init => CutInv /\ FrameTypes /\ OrderInv
<1> SUFFICES ASSUME Init PROVE CutInv /\ FrameTypes /\ OrderInv
  BY Zenon
<1>1. CutInv
  BY DEF Init, CutInv
<1>2. FrameTypes
  <2>1. <<>> \in Seq(Frames) /\ Len(<<>>) = 0 /\ Start \in Spots
    BY DEF Start, Spots
  <2> QED BY <2>1, ChatStreamConstants DEF Init, FrameTypes
<1>3. DOMAIN got = {}
  BY DEF Init
<1> QED BY <1>1, <1>2, <1>3, Zenon DEF Init, OrderInv, Sorted

\* The client sees the frames in order and each once, across replays, gaps that
\* are filled and reconnects with the last id it has (`run`, `replay`).
THEOREM FramesSorted == Spec => []FramesInOrder
<1>1. FrameTypes /\ OrderInv => FramesInOrder
  <2> SUFFICES ASSUME FrameTypes, OrderInv, NEW i \in 1..(Len(got) - 1)
               PROVE  Before(got[i], got[i + 1])
    BY Zenon DEF FramesInOrder
  <2>1. i \in DOMAIN got /\ i + 1 \in DOMAIN got /\ i < i + 1
    BY DEF FrameTypes
  <2> QED BY <2>1, Zenon DEF OrderInv, Sorted
<1> QED BY <1>1, ChatStreamInit, CutInvStep, OrderStep, PTL DEF Spec

\* A stream that was live and revoked for longer than the window has not been
\* confirmed within it either, so whatever the hub hands it, and the keepalive,
\* end it (`authorised`).
THEOREM CutOff == Spec => RevokedIsCutOff
<1> DEFINE Cut == pc = "live" /\ since > Window => Len(got') <= Len(got) /\ pc' # "fill"
<1>1. CutInv /\ FrameTypes /\ OrderInv /\ [Next]_vars => [Cut]_vars
  <2> SUFFICES ASSUME CutInv, FrameTypes, OrderInv, Next, pc = "live", since > Window
               PROVE  Len(got') <= Len(got) /\ pc' # "fill"
    BY Zenon
  <2>1. ~Authorised /\ rows = {}
    BY ChatStreamConstants DEF CutInv, Authorised, TokenResolves
  <2>2. Len(got) \in Nat
    BY DEF FrameTypes
  <2>3. CASE Ends
    BY <2>3, EndsSorts, Zenon DEF Ends
  <2>4. CASE UNCHANGED <<got, pc>>
    BY <2>2, <2>4
  <2>5. Ends \/ UNCHANGED <<got, pc>>
    BY <2>1, ZenonT(30) DEF Next, Post, Claim, AppendEvent, PublishEvent, Reclaim, Answer, streamVars, Connect,
                OpenTurns, ReadPage, ReadFails, Replaying, EmitRow, ReplayDone, Receive, KeepAlive,
                Disconnect, Tick, Crash, Revoke
  <2> QED BY <2>3, <2>4, <2>5, Zenon
<1>2. Spec => [](CutInv /\ FrameTypes /\ OrderInv)
  BY ChatStreamInit, CutInvStep, OrderStep, PTL DEF Spec
<1> QED BY <1>1, <1>2, PTL DEF Spec, RevokedIsCutOff

-----------------------------------------------------------------------------
(* What a stream misses                                                     *)

Begun(t)   == turn[t] \notin {"none", "pending"}
Running(t) == writer[t] \in {"running", "stored"}
Awaits(f)  == writer[f[1]] = "stored" /\ f[2] = table[f[1]]
Streaming  == pc \in {"replay", "live", "fill"}

\* Turns begin in order, and one that is still run when the next has begun was
\* reclaimed under its worker.
WorkInv ==
  /\ turn \in [Turn -> {"none", "pending", "claimed", "done", "failed"}]
  /\ writer \in [Turn -> {"idle", "running", "stored", "over"}]
  /\ \A t \in Turn : /\ table[t] <= budget.frames
                     /\ ~Begun(t) => writer[t] = "idle" /\ table[t] = 0
                     /\ writer[t] = "stored" => table[t] # 0
                     /\ Running(t) => turn[t] = "claimed" \/ t \in late
  /\ \A t, u \in Turn : u < t => /\ turn[t] # "none" => turn[u] # "none"
                                 /\ Begun(t) => Begun(u)
                                 /\ Begun(t) /\ Running(u) => u \in late

\* The hub hands on frames that are stored, in order.
HubInv ==
  pc # "off" =>
    /\ sub \in Seq(Turn \X Nat)
    /\ \A i \in DOMAIN sub : sub[i][2] # 0 => sub[i] \in Stored /\ ~Awaits(sub[i])
    /\ \A i, j \in DOMAIN sub : i < j /\ sub[i][2] # 0 /\ sub[j][2] # 0
         => Before(sub[i], sub[j]) \/ sub[j][1] \in late

\* The cursor is where the connection began, or at the last frame it sent.
CursorInv ==
  /\ from \in Spots /\ rows \subseteq Stored /\ pages \in Nat
  /\ pc = "open" => kept = Len(got)
  /\ pc = "fill" => pend \in Stored
  /\ Streaming => /\ last = from \/ (last \in Stored /\ Before(from, last))
                  /\ Len(got) > kept => last = got[Len(got)]

Hubbed(f) == Queued(f) \/ Awaits(f) \/ f \in dropped
Unread(f) == pages > 0 /\ \A r \in rows : Before(r, f)

\* Behind the cursor, ahead of it, and what a page may not leave out.
BehindInv ==
  \A f \in Stored : Before(from, f) /\ ~Before(last, f)
    => Sent(f) \/ f[1] \in late \/ (f \in dropped /\ ~Inside(f))

AheadInv ==
  \A f \in Stored : Before(last, f) =>
    \/ f \in rows \/ f[1] \in late \/ Hubbed(f)
    \/ pc = "replay" /\ Unread(f)
    \/ pc = "fill" /\ (f = pend \/ (Before(f, pend) /\ Unread(f)))

PageInv ==
  /\ \A r \in rows, f \in Stored : Before(last, f) /\ Before(f, r) => f \in rows \/ f[1] \in late
  /\ pc = "fill" => \A f \in Stored : Before(last, f) /\ Before(f, pend)
                      => f \in rows \/ f[1] \in late \/ Unread(f)

MissInv == Streaming /\ ~short => BehindInv /\ AheadInv /\ PageInv

\* What a turn's number and the number of its events are.
LEMMA TurnTypes ==
  ASSUME FrameTypes
  PROVE  /\ Turn \subseteq Nat /\ budget.frames \in Nat
         /\ \A t \in Turn : table[t] \in Nat
<1>1. Turn \subseteq Nat
  BY DEF Turn
<1>2. budget.frames \in Nat
  BY Zenon DEF FrameTypes
<1> QED BY <1>1, <1>2, Zenon DEF FrameTypes

\* The stored frames, and that there are finitely many.
LEMMA StoredFrames ==
  ASSUME FrameTypes, WorkInv
  PROVE  /\ Stored = {f \in Frames : f[1] \in Turn /\ f[2] <= table[f[1]]}
         /\ IsFiniteSet(Stored)
<1>1. /\ Turn \subseteq Nat /\ budget.frames \in Nat
      /\ \A t \in Turn : table[t] \in Nat /\ table[t] <= budget.frames
  BY TurnTypes, Zenon DEF WorkInv
<1>2. ASSUME NEW f \in Stored PROVE f \in Frames /\ f[1] \in Turn /\ f[2] <= table[f[1]]
  <2>1. f[1] \in Turn /\ f[2] \in 1..budget.frames /\ f = <<f[1], f[2]>> /\ f[2] <= table[f[1]]
    BY DEF Stored
  <2>2. f[1] \in Nat /\ f[2] \in Nat \ {0}
    BY <1>1, <2>1
  <2> QED BY <2>1, <2>2, Zenon DEF Frames
<1>3. ASSUME NEW f \in Frames, f[1] \in Turn, f[2] <= table[f[1]] PROVE f \in Stored
  <2>1. f = <<f[1], f[2]>> /\ f[2] \in Nat \ {0}
    BY DEF Frames
  <2>2. f[2] \in 1..budget.frames
    BY <1>1, <1>3, <2>1
  <2> QED BY <1>3, <2>1, <2>2, Zenon DEF Stored
<1>4. IsFiniteSet(Stored)
  <2>1. IsFiniteSet(1..Turns) /\ IsFiniteSet(1..budget.frames)
    <3>1. 1 \in Int /\ Turns \in Int /\ budget.frames \in Int
      BY <1>1, ChatStreamConstants
    <3> QED BY <3>1, FS_Interval, Zenon
  <2>2. IsFiniteSet(Turn \X (1..budget.frames))
    BY <2>1, FS_Product, ZenonT(30) DEF Turn
  <2>3. Stored \subseteq Turn \X (1..budget.frames)
    BY Zenon DEF Stored
  <2> QED BY <2>2, <2>3, FS_Subset, Zenon
<1> QED BY <1>2, <1>3, <1>4, Zenon

\* Of some frames one is before the others.
LEMMA FirstExists ==
  ASSUME NEW S, S \subseteq Spots, S # {}
  PROVE  \E f \in S : \A g \in S : ~Before(g, f)
<1> DEFINE T == {f[1] : f \in S}
<1>1. PICK t \in T : \A u \in T : t <= u
  <2>1. T \subseteq Nat /\ T # {}
    BY BeforeOrders
  <2> HIDE DEF T
  <2> QED BY <2>1, LeastExists, ZenonT(30)
<1> DEFINE R == {f \in S : f[1] = t}
           Q == {f[2] : f \in R}
<1>2. PICK n \in Q : \A m \in Q : n <= m
  <2>1. Q \subseteq Nat /\ Q # {}
    BY BeforeOrders
  <2> HIDE DEF Q
  <2> QED BY <2>1, LeastExists, ZenonT(30)
<1>3. PICK f \in R : f[2] = n
  BY Zenon
<1>4. ASSUME NEW g \in S, Before(g, f) PROVE FALSE
  <2>1. f[1] = t /\ f[2] = n /\ t <= g[1] /\ {g[1], g[2], f[1], f[2]} \subseteq Nat
    BY <1>1, <1>3, BeforeOrders
  <2>2. g[1] = t /\ g[2] < n
    BY <1>4, <2>1 DEF Before
  <2>3. n <= g[2]
    BY <1>2, <2>2, Zenon
  <2> QED BY <2>1, <2>2, <2>3
<1> QED BY <1>3, <1>4, Zenon

\* What a page leaves out is after what it has.
LEMMA FirstsLead ==
  ASSUME NEW S, S \subseteq Spots, IsFiniteSet(S), NEW n \in Nat,
         NEW f \in S, f \notin Firsts(S, n), NEW r \in Firsts(S, n)
  PROVE  Before(r, f)
<1> DEFINE Below(x) == {g \in S : Before(g, x)}
<1>1. r \in S /\ Cardinality(Below(r)) < n /\ ~(Cardinality(Below(f)) < n)
  BY Zenon DEF Firsts
<1>2. SUFFICES ASSUME ~Before(r, f) PROVE FALSE
  BY Zenon
<1>3. Below(f) \in SUBSET Below(r)
  <2> SUFFICES ASSUME NEW g \in S, Before(g, f) PROVE Before(g, r)
    BY Zenon
  <2>1. /\ {g[1], g[2], f[1], f[2], r[1], r[2]} \subseteq Nat
    BY <1>1, BeforeOrders
  <2> QED BY <1>2, <2>1 DEF Before
<1>4. IsFiniteSet(Below(r))
  BY FS_Subset, Zenon
<1>5. IsFiniteSet(Below(f)) /\ Cardinality(Below(f)) <= Cardinality(Below(r))
  BY <1>3, <1>4, FS_Subset, Zenon
<1>6. Cardinality(Below(f)) \in Nat /\ Cardinality(Below(r)) \in Nat
  BY <1>4, <1>5, FS_CardinalityType, Zenon
<1> QED BY <1>1, <1>5, <1>6

\* A page that is not full has everything.
LEMMA FirstsIsAll ==
  ASSUME NEW S, S \subseteq Spots, IsFiniteSet(S), NEW n \in Nat, Cardinality(Firsts(S, n)) < n
  PROVE  Firsts(S, n) = S
<1> DEFINE R == S \ Firsts(S, n)
<1>1. SUFFICES ASSUME R # {} PROVE FALSE
  BY Zenon DEF Firsts
<1>2. PICK f \in R : \A g \in R : ~Before(g, f)
  <2>1. R \subseteq Spots
    BY Zenon
  <2> HIDE DEF R
  <2> QED BY <1>1, <2>1, FirstExists, Zenon
<1> DEFINE B == {g \in S : Before(g, f)}
<1>3. B \in SUBSET Firsts(S, n)
  BY <1>2, Zenon
<1>4. IsFiniteSet(Firsts(S, n))
  BY FS_Subset, ZenonT(30) DEF Firsts
<1>5. IsFiniteSet(B) /\ Cardinality(B) <= Cardinality(Firsts(S, n))
  <2> HIDE DEF B
  <2> QED BY <1>3, <1>4, FS_Subset, Zenon
<1>6. Cardinality(B) \in Nat /\ Cardinality(Firsts(S, n)) \in Nat
  BY <1>4, <1>5, FS_CardinalityType, Zenon
<1>7. Cardinality(B) < n
  BY <1>5, <1>6
<1> QED BY <1>2, <1>7, Zenon DEF Firsts

-----------------------------------------------------------------------------

\* What the budgets bound is not what they are spent on.
LEMMA SpendKeeps ==
  ASSUME FrameTypes, NEW what \in {"connects", "crashes", "errors", "revokes"}, Spend(what)
  PROVE  budget'.frames = budget.frames
BY Zenon DEF FrameTypes, Spend

\* The stream's steps leave the work and the table alone.
LEMMA StreamIsApart ==
  ASSUME FrameTypes,
         \/ \E reload \in BOOLEAN : Connect(reload)
         \/ OpenTurns \/ ReadPage \/ ReadFails \/ EmitRow \/ ReplayDone \/ Receive \/ KeepAlive
         \/ Disconnect \/ Tick
         \/ \E what \in {"grant", "token"} : Revoke(what)
         \/ UNCHANGED vars
  PROVE  UNCHANGED workVars /\ budget'.frames = budget.frames
<1>1. ASSUME NEW reload \in BOOLEAN, Connect(reload) PROVE UNCHANGED workVars /\ budget'.frames = budget.frames
  BY <1>1, SpendKeeps, Zenon DEF Connect
<1>2. CASE ReadFails
  BY <1>2, SpendKeeps, Zenon DEF ReadFails
<1>3. ASSUME NEW what \in {"grant", "token"}, Revoke(what) PROVE UNCHANGED workVars /\ budget'.frames = budget.frames
  BY <1>3, SpendKeeps, Zenon DEF Revoke
<1>4. CASE OpenTurns \/ ReadPage \/ EmitRow \/ ReplayDone \/ Receive \/ KeepAlive
  BY <1>4, Zenon DEF OpenTurns, ReadPage, EmitRow, ReplayDone, Receive, KeepAlive
<1>5. CASE Disconnect \/ Tick \/ UNCHANGED vars
  BY <1>5, Zenon DEF Disconnect, Tick, vars, workVars
<1> QED BY <1>1, <1>2, <1>3, <1>4, <1>5, Zenon

LEMMA WorkKept ==
  ASSUME WorkInv, UNCHANGED workVars, budget'.frames = budget.frames
  PROVE  WorkInv'
<1>1. turn' = turn /\ writer' = writer /\ table' = table /\ late' = late
  BY Zenon DEF workVars
<1>2. \A x : (Begun(x)' <=> Begun(x)) /\ (Running(x)' <=> Running(x))
  BY <1>1, Zenon DEF Begun, Running
<1> QED BY <1>1, <1>2, Zenon DEF WorkInv

\* A step of a worker that has a turn.
LEMMA WorkMoves ==
  ASSUME WorkInv, late \subseteq late',
         turn' \in [Turn -> {"none", "pending", "claimed", "done", "failed"}],
         writer' \in [Turn -> {"idle", "running", "stored", "over"}],
         \A t \in Turn : /\ turn'[t] = "none" <=> turn[t] = "none"
                         /\ Begun(t)' <=> Begun(t)
                         /\ Running(t)' => Running(t) /\ (turn'[t] = "claimed" \/ t \in late')
                         /\ ~Begun(t) => writer'[t] = "idle" /\ table'[t] = 0
                         /\ writer'[t] = "stored" => table'[t] # 0
                         /\ table'[t] <= budget'.frames
  PROVE  WorkInv'
<1>1. ASSUME NEW t \in Turn, NEW u \in Turn, u < t
      PROVE  /\ turn'[t] # "none" => turn'[u] # "none"
             /\ Begun(t)' => Begun(u)'
             /\ Begun(t)' /\ Running(u)' => u \in late'
  BY <1>1, Zenon DEF WorkInv
<1>2. \A t \in Turn : /\ table'[t] <= budget'.frames
                      /\ ~Begun(t)' => writer'[t] = "idle" /\ table'[t] = 0
                      /\ writer'[t] = "stored" => table'[t] # 0
                      /\ Running(t)' => turn'[t] = "claimed" \/ t \in late'
  BY Zenon
<1> QED BY <1>1, <1>2, Zenon DEF WorkInv

LEMMA WorkStep ==
  ASSUME FrameTypes, WorkInv, [Next]_vars
  PROVE  WorkInv'
<1> DEFINE States  == {"none", "pending", "claimed", "done", "failed"}
           Writers == {"idle", "running", "stored", "over"}
<1>0. /\ turn \in [Turn -> States] /\ writer \in [Turn -> Writers] /\ table \in [Turn -> Nat]
      /\ Turn \subseteq Nat /\ budget.frames \in Nat
  BY TurnTypes, Zenon DEF WorkInv, FrameTypes
<1>1. ASSUME NEW t \in Turn, Post(t) PROVE WorkInv'
  <2>1. /\ turn[t] = "none" /\ (\A u \in 1..(t - 1) : turn[u] # "none")
        /\ turn' = [turn EXCEPT ![t] = "pending"]
        /\ writer' = writer /\ table' = table /\ late' = late /\ budget' = budget
    BY <1>1, Zenon DEF Post
  <2>2. \A x \in Turn : /\ Begun(x)' <=> Begun(x)
                        /\ Running(x)' <=> Running(x)
                        /\ turn'[x] = "claimed" <=> turn[x] = "claimed"
    BY <1>0, <2>1, Zenon DEF Begun, Running
  <2>3. \A u \in Turn : u < t => turn[u] # "none"
    <3>1. \A u \in Turn : u < t => u \in 1..(t - 1)
      BY DEF Turn
    <3> QED BY <2>1, <3>1, Zenon
  <2>4. \A x, u \in Turn : u < x => (turn'[x] # "none" => turn'[u] # "none")
    BY <1>0, <2>1, <2>3, Zenon DEF WorkInv
  <2>5. turn' \in [Turn -> States]
    BY <1>0, <2>1, Zenon
  <2> HIDE DEF States, Writers
  <2>6. \A x \in Turn : /\ table'[x] <= budget'.frames
                        /\ ~Begun(x)' => writer'[x] = "idle" /\ table'[x] = 0
                        /\ writer'[x] = "stored" => table'[x] # 0
                        /\ Running(x)' => turn'[x] = "claimed" \/ x \in late'
    BY <2>1, <2>2, Zenon DEF WorkInv
  <2>7. \A x, u \in Turn : u < x => /\ Begun(x)' => Begun(u)'
                                    /\ Begun(x)' /\ Running(u)' => u \in late'
    BY <2>1, <2>2, Zenon DEF WorkInv
  <2> QED BY <1>0, <2>1, <2>4, <2>5, <2>6, <2>7, Zenon DEF WorkInv, States, Writers
<1>2. ASSUME NEW t \in Turn, Claim(t) PROVE WorkInv'
  <2>1. /\ turn[t] = "pending" /\ (\A u \in 1..(t - 1) : turn[u] # "claimed" /\ turn[u] # "pending")
        /\ turn' = [turn EXCEPT ![t] = "claimed"] /\ writer' = [writer EXCEPT ![t] = "running"]
        /\ table' = table /\ late' = late /\ budget' = budget
    BY <1>2, Zenon DEF Claim
  <2>2. ~Begun(t) /\ Begun(t)' /\ Running(t)' /\ turn'[t] = "claimed" /\ writer'[t] = "running"
    BY <1>0, <2>1, Zenon DEF Begun, Running
  <2>3. \A x \in Turn : x # t => /\ turn'[x] = turn[x] /\ writer'[x] = writer[x]
                                 /\ (Begun(x)' <=> Begun(x)) /\ (Running(x)' <=> Running(x))
    BY <1>0, <2>1, Zenon DEF Begun, Running
  <2>4. \A u \in Turn : u < t => Begun(u) /\ (Running(u) => u \in late)
    <3>1. \A u \in Turn : u < t => u \in 1..(t - 1)
      BY DEF Turn
    <3>2. \A u \in Turn : u < t => turn[u] # "claimed" /\ turn[u] # "pending" /\ turn[u] # "none"
      BY <2>1, <3>1, Zenon DEF WorkInv
    <3> QED BY <3>2, Zenon DEF WorkInv, Begun
  <2>5. \A x \in Turn : t < x => ~Begun(x)
    BY <2>2, Zenon DEF WorkInv
  <2>6. turn' \in [Turn -> States] /\ writer' \in [Turn -> Writers]
    BY <1>0, <2>1, Zenon
  <2> HIDE DEF States, Writers
  <2>7. \A x \in Turn : /\ table'[x] <= budget'.frames
                        /\ ~Begun(x)' => writer'[x] = "idle" /\ table'[x] = 0
                        /\ writer'[x] = "stored" => table'[x] # 0
                        /\ Running(x)' => turn'[x] = "claimed" \/ x \in late'
    <3>1. writer'[t] # "stored"
      BY <2>2, Zenon
    <3> QED BY <2>1, <2>2, <2>3, <3>1, Zenon DEF WorkInv
  <2>8. ASSUME NEW x \in Turn, NEW u \in Turn, u < x
        PROVE  /\ turn'[x] # "none" => turn'[u] # "none"
               /\ Begun(x)' => Begun(u)'
               /\ Begun(x)' /\ Running(u)' => u \in late'
    <3>1. u # x
      BY <1>0, <2>8
    <3>2. CASE x = t
      BY <2>1, <2>3, <2>4, <2>8, <3>1, <3>2, Zenon DEF WorkInv
    <3>3. CASE u = t
      BY <2>2, <2>3, <2>5, <2>8, <3>1, <3>3, Zenon
    <3>4. CASE x # t /\ u # t
      BY <2>1, <2>3, <2>8, <3>4, Zenon DEF WorkInv
    <3> QED BY <3>2, <3>3, <3>4, Zenon
  <2> QED BY <2>6, <2>7, <2>8, Zenon DEF WorkInv, States, Writers
<1> DEFINE Kept(x) == /\ turn'[x] = "none" <=> turn[x] = "none"
                      /\ Begun(x)' <=> Begun(x)
                      /\ Running(x)' => Running(x) /\ (turn'[x] = "claimed" \/ x \in late')
                      /\ ~Begun(x) => writer'[x] = "idle" /\ table'[x] = 0
                      /\ writer'[x] = "stored" => table'[x] # 0
                      /\ table'[x] <= budget'.frames
<1>3. \A x \in Turn : /\ turn'[x] = turn[x] /\ writer'[x] = writer[x] /\ table'[x] = table[x]
                      /\ late \subseteq late' /\ budget'.frames = budget.frames
                     => Kept(x)
  BY Zenon DEF WorkInv, Begun, Running
<1>4. ASSUME NEW t \in Turn, AppendEvent(t) PROVE WorkInv'
  <2>1. /\ writer[t] = "running" /\ table[t] < budget.frames /\ table' = [table EXCEPT ![t] = @ + 1]
        /\ writer' = [writer EXCEPT ![t] = "stored"] /\ turn' = turn /\ late' = late /\ budget' = budget
    BY <1>4, Zenon DEF AppendEvent
  <2>2. Running(t) /\ Begun(t) /\ Begun(t)'
    BY <2>1, Zenon DEF WorkInv, Running, Begun
  <2>3. table'[t] = table[t] + 1 /\ table[t] \in Nat /\ table'[t] # 0 /\ table'[t] <= budget.frames
    BY <1>0, <2>1
  <2>4. Kept(t)
    BY <2>1, <2>2, <2>3, Zenon DEF WorkInv
  <2>5. \A x \in Turn : x # t => Kept(x)
    BY <1>0, <1>3, <2>1, Zenon
  <2>6. turn' \in [Turn -> States] /\ writer' \in [Turn -> Writers]
    BY <1>0, <2>1, Zenon
  <2> QED BY <2>1, <2>4, <2>5, <2>6, WorkMoves, Zenon
<1>5. ASSUME NEW t \in Turn, PublishEvent(t) PROVE WorkInv'
  <2>1. /\ writer[t] = "stored" /\ writer' = [writer EXCEPT ![t] = "running"]
        /\ turn' = turn /\ table' = table /\ late' = late /\ budget' = budget
    BY <1>5, Zenon DEF PublishEvent
  <2>2. Running(t) /\ Begun(t) /\ Begun(t)' /\ writer'[t] = "running"
    BY <1>0, <2>1, Zenon DEF WorkInv, Running, Begun
  <2>3. Kept(t)
    BY <2>1, <2>2, Zenon DEF WorkInv
  <2>4. \A x \in Turn : x # t => Kept(x)
    BY <1>0, <1>3, <2>1, Zenon
  <2>5. turn' \in [Turn -> States] /\ writer' \in [Turn -> Writers]
    BY <1>0, <2>1, Zenon
  <2> QED BY <2>1, <2>3, <2>4, <2>5, WorkMoves, Zenon
<1>6. ASSUME NEW t \in Turn, NEW state \in {"done", "failed"}, Answer(t, state) PROVE WorkInv'
  <2>1. /\ writer[t] = "running" /\ writer' = [writer EXCEPT ![t] = "over"]
        /\ turn' = [turn EXCEPT ![t] = IF @ = "claimed" THEN state ELSE @]
        /\ table' = table /\ late' = late /\ budget' = budget
    BY <1>6, Zenon DEF Answer
  <2>2. Running(t) /\ Begun(t) /\ Begun(t)' /\ ~Running(t)' /\ writer'[t] = "over" /\ turn'[t] # "none" /\ turn[t] # "none"
    BY <1>0, <2>1, Zenon DEF WorkInv, Running, Begun
  <2>3. Kept(t)
    BY <2>1, <2>2, Zenon DEF WorkInv
  <2>4. \A x \in Turn : x # t => Kept(x)
    BY <1>0, <1>3, <2>1, Zenon
  <2>5. turn' \in [Turn -> States] /\ writer' \in [Turn -> Writers]
    BY <1>0, <2>1, Zenon
  <2> QED BY <2>1, <2>3, <2>4, <2>5, WorkMoves, Zenon
<1>7. ASSUME NEW t \in Turn, Reclaim(t) PROVE WorkInv'
  <2>1. /\ turn[t] = "claimed" /\ turn' = [turn EXCEPT ![t] = "failed"]
        /\ late' = (IF writer[t] = "over" THEN late ELSE late \cup {t})
        /\ table' = table /\ writer' = writer /\ budget' = budget
    BY <1>7, Zenon DEF Reclaim
  <2>2. Begun(t) /\ Begun(t)' /\ (Running(t)' => Running(t) /\ t \in late') /\ turn'[t] = "failed"
    BY <1>0, <2>1, Zenon DEF Running, Begun
  <2>3. Kept(t)
    BY <2>1, <2>2, Zenon DEF WorkInv
  <2>4. \A x \in Turn : x # t => Kept(x)
    BY <1>0, <1>3, <2>1, Zenon
  <2>5. turn' \in [Turn -> States] /\ writer' \in [Turn -> Writers]
    BY <1>0, <2>1, Zenon
  <2> QED BY <2>1, <2>3, <2>4, <2>5, WorkMoves, Zenon
<1>8. CASE Crash
  <2>1. /\ writer' = [t \in Turn |-> IF writer[t] = "idle" THEN "idle" ELSE "over"]
        /\ turn' = turn /\ table' = table /\ late' = late /\ budget'.frames = budget.frames
    BY <1>8, SpendKeeps, Zenon DEF Crash
  <2>2. \A x \in Turn : /\ ~Running(x)' /\ (Begun(x)' <=> Begun(x)) /\ writer'[x] # "stored"
                        /\ (writer[x] = "idle" => writer'[x] = "idle")
    BY <2>1, Zenon DEF Running, Begun
  <2>3. \A x \in Turn : Kept(x)
    BY <2>1, <2>2, Zenon DEF WorkInv
  <2>4. turn' \in [Turn -> States] /\ writer' \in [Turn -> Writers]
    BY <1>0, <2>1, Zenon
  <2> QED BY <2>1, <2>3, <2>4, WorkMoves, Zenon
<1> QED BY <1>1, <1>2, <1>4, <1>5, <1>6, <1>7, <1>8, StreamIsApart, WorkKept, Zenon DEF Next

-----------------------------------------------------------------------------
(* The hub                                                                  *)

LEMMA TableKept ==
  ASSUME UNCHANGED workVars, budget'.frames = budget.frames
  PROVE  /\ Stored' = Stored /\ late' = late
         /\ \A f : Awaits(f)' <=> Awaits(f)
BY Zenon DEF workVars, Stored, Awaits

\* An event that is stored and not yet published is after all that are, unless
\* its turn was reclaimed.
LEMMA AwaitedIsAhead ==
  ASSUME FrameTypes, WorkInv, NEW f \in Stored, Awaits(f), NEW g \in Stored, ~Awaits(g)
  PROVE  Before(g, f) \/ f[1] \in late
<1>1. /\ {f[1], g[1]} \subseteq Turn /\ {f[1], g[1], f[2], g[2]} \subseteq Nat
      /\ f[2] <= table[f[1]] /\ g[2] <= table[g[1]] /\ g[2] # 0
  BY StoredFrames, BeforeOrders
<1>2. CASE g[1] = f[1]
  <2>1. g[2] # f[2] /\ f[2] = table[f[1]]
    BY <1>2, Zenon DEF Awaits
  <2> QED BY <1>1, <1>2, <2>1 DEF Before
<1>3. CASE f[1] < g[1]
  <2>1. table[g[1]] # 0
    BY <1>1, TurnTypes
  <2>2. Begun(g[1]) /\ Running(f[1])
    BY <1>1, <2>1, Zenon DEF WorkInv, Awaits, Running
  <2> QED BY <1>1, <1>3, <2>2, Zenon DEF WorkInv
<1>4. CASE g[1] < f[1]
  BY <1>4, Zenon DEF Before
<1> QED BY <1>1, <1>2, <1>3, <1>4

\* The frame a worker stores is after all that are, unless its turn was
\* reclaimed.
LEMMA AppendEffect ==
  ASSUME FrameTypes, WorkInv, NEW t \in Turn, AppendEvent(t)
  PROVE  \E e \in Turn \X Nat :
           /\ e[1] = t /\ Stored' = Stored \cup {e} /\ Awaits(e)'
           /\ \A g \in Stored : /\ Awaits(g)' => Awaits(g)
                                /\ Awaits(g) => Awaits(g)'
                                /\ Before(g, e) \/ t \in late
<1>1. /\ writer[t] = "running" /\ table[t] < budget.frames /\ table' = [table EXCEPT ![t] = @ + 1]
      /\ writer' = [writer EXCEPT ![t] = "stored"] /\ budget' = budget
  BY Zenon DEF AppendEvent
<1>2. /\ table \in [Turn -> Nat] /\ Turn \subseteq Nat /\ budget.frames \in Nat /\ writer \in [Turn -> {"idle", "running", "stored", "over"}]
      /\ t \in Nat /\ table[t] \in Nat
  BY TurnTypes, Zenon DEF FrameTypes, WorkInv
<1>3. /\ table'[t] = table[t] + 1 /\ writer'[t] = "stored"
      /\ \A u \in Turn : u # t => table'[u] = table[u] /\ writer'[u] = writer[u]
  BY <1>1, <1>2, Zenon
<1> PICK e \in Turn \X Nat : e = <<t, table[t] + 1>>
  <2>1. table[t] + 1 \in Nat
    BY <1>2
  <2> QED BY <2>1, ZenonT(30)
<1>4. Stored' = Stored \cup {e}
  <2>1. ASSUME NEW f \in Stored' PROVE f \in Stored \cup {e}
    <3>1. f[1] \in Turn /\ f[2] \in 1..budget.frames /\ f = <<f[1], f[2]>> /\ f[2] <= table'[f[1]]
      BY <1>1, <2>1 DEF Stored
    <3>2. CASE f[1] = t
      <4>1. f[2] <= table[t] \/ f[2] = table[t] + 1
        BY <1>2, <1>3, <3>1, <3>2
      <4> QED BY <3>1, <3>2, <4>1, Zenon DEF Stored
    <3>3. CASE f[1] # t
      BY <1>3, <3>1, <3>3, Zenon DEF Stored
    <3> QED BY <3>2, <3>3, Zenon
  <2>2. ASSUME NEW f \in Stored PROVE f \in Stored'
    <3>1. f[1] \in Turn /\ f[2] \in 1..budget.frames /\ f = <<f[1], f[2]>> /\ f[2] <= table[f[1]]
      BY DEF Stored
    <3>2. f[2] <= table'[f[1]]
      BY <1>2, <1>3, <3>1
    <3> QED BY <1>1, <3>1, <3>2, Zenon DEF Stored
  <2>3. e \in Stored'
    <3>1. table[t] + 1 \in 1..budget.frames /\ table[t] + 1 <= table'[t]
      BY <1>1, <1>2, <1>3
    <3> QED BY <1>1, <3>1, Zenon DEF Stored
  <2> QED BY <2>1, <2>2, <2>3, Zenon
<1>5. Awaits(e)'
  BY <1>3, Zenon DEF Awaits
<1>6. ASSUME NEW g \in Stored
      PROVE  /\ Awaits(g)' => Awaits(g)
             /\ Awaits(g) => Awaits(g)'
             /\ Before(g, e) \/ t \in late
  <2>1. g[1] \in Turn /\ g[1] \in Nat /\ g[2] \in Nat /\ g[2] # 0 /\ g[2] <= table[g[1]]
    BY StoredFrames, BeforeOrders, Zenon
  <2>2. CASE g[1] = t
    <3>1. g[2] # table'[t] /\ g[2] < table[t] + 1
      BY <1>2, <1>3, <2>1, <2>2
    <3>2. writer[t] # "stored"
      BY <1>1, Zenon
    <3> QED BY <2>2, <3>1, <3>2, Zenon DEF Before, Awaits
  <2>3. CASE g[1] # t
    <3>1. Awaits(g)' <=> Awaits(g)
      BY <1>3, <2>1, <2>3, Zenon DEF Awaits
    <3>2. CASE g[1] < t
      BY <2>3, <3>1, <3>2, Zenon DEF Before
    <3>3. CASE t < g[1]
      <4>1. table[g[1]] # 0
        BY <2>1, TurnTypes
      <4>2. Begun(g[1]) /\ Running(t)
        BY <1>1, <2>1, <4>1, Zenon DEF WorkInv, Running
      <4>3. t \in late
        BY <2>1, <3>3, <4>2, Zenon DEF WorkInv
      <4> QED BY <2>3, <3>1, <4>3, Zenon
    <3> QED BY <1>2, <2>1, <2>3, <3>2, <3>3
  <2> QED BY <2>2, <2>3, Zenon
<1> QED BY <1>4, <1>5, <1>6, Zenon

\* Publish: the channel takes the update, or drops it.
LEMMA PublishEffect ==
  ASSUME HubInv, pc # "off", NEW u \in Turn \X Nat, Publish(u)
  PROVE  /\ sub' = sub \/ sub' = Append(sub, u)
         /\ dropped \subseteq dropped'
         /\ u[2] # 0 => sub' = Append(sub, u) \/ u \in dropped'
<1>1. sub # <<None>>
  <2>1. SUFFICES ASSUME sub = <<None>> PROVE FALSE
    BY Zenon
  <2>2. 1 \in DOMAIN sub /\ sub[1] = <<0, 0>>
    BY <2>1 DEF None
  <2>3. sub[1] \in Turn \X Nat
    BY <2>2 DEF HubInv
  <2>4. 0 \in Turn
    BY <2>2, <2>3
  <2> QED BY <2>4 DEF Turn
<1> QED BY <1>1, Zenon DEF Publish

\* A step that leaves the channel alone or adds to it.
LEMMA HubMoves ==
  ASSUME HubInv, pc # "off", pc' = pc, Stored \subseteq Stored', late \subseteq late',
         \A f \in Stored : Awaits(f)' => Awaits(f),
         \/ sub' = sub
         \/ \E u \in Turn \X Nat :
              /\ sub' = Append(sub, u)
              /\ u[2] # 0 => /\ u \in Stored' /\ ~Awaits(u)'
                             /\ \A i \in DOMAIN sub : sub[i][2] # 0 => Before(sub[i], u) \/ u[1] \in late'
  PROVE  HubInv'
<1>1. /\ sub \in Seq(Turn \X Nat)
      /\ \A i \in DOMAIN sub : sub[i][2] # 0 => sub[i] \in Stored /\ ~Awaits(sub[i])
      /\ \A i, j \in DOMAIN sub : i < j /\ sub[i][2] # 0 /\ sub[j][2] # 0
           => Before(sub[i], sub[j]) \/ sub[j][1] \in late
  BY Zenon DEF HubInv
<1>2. \A i \in DOMAIN sub : sub[i][2] # 0 =>
        /\ sub[i] \in Stored'
        /\ ~(writer'[sub[i][1]] = "stored" /\ sub[i][2] = table'[sub[i][1]])
  BY <1>1, Zenon DEF Awaits
<1>3. CASE sub' = sub
  BY <1>1, <1>2, <1>3, Zenon DEF HubInv, Awaits
<1>4. ASSUME NEW u \in Turn \X Nat, sub' = Append(sub, u),
             u[2] # 0 => /\ u \in Stored' /\ ~Awaits(u)'
                         /\ \A i \in DOMAIN sub : sub[i][2] # 0 => Before(sub[i], u) \/ u[1] \in late'
      PROVE  HubInv'
  <2>1. /\ sub' \in Seq(Turn \X Nat) /\ Len(sub) \in Nat
        /\ DOMAIN sub = 1..Len(sub) /\ DOMAIN sub' = 1..(Len(sub) + 1)
        /\ \A i \in 1..Len(sub) : sub'[i] = sub[i]
        /\ sub'[Len(sub) + 1] = u
    BY <1>1, <1>4
  <2>2. ASSUME NEW i \in DOMAIN sub', sub'[i][2] # 0
        PROVE  sub'[i] \in Stored' /\ ~(writer'[sub'[i][1]] = "stored" /\ sub'[i][2] = table'[sub'[i][1]])
    <3>1. CASE i = Len(sub) + 1
      BY <1>4, <2>1, <2>2, <3>1, ZenonT(30) DEF Awaits
    <3>2. CASE i # Len(sub) + 1
      <4>1. i \in DOMAIN sub /\ sub'[i] = sub[i]
        BY <2>1, <3>2
      <4> QED BY <1>2, <2>2, <4>1, Zenon
    <3> QED BY <3>1, <3>2, Zenon
  <2>3. ASSUME NEW i \in DOMAIN sub', NEW j \in DOMAIN sub', i < j, sub'[i][2] # 0, sub'[j][2] # 0
        PROVE  Before(sub'[i], sub'[j]) \/ sub'[j][1] \in late'
    <3>1. i \in DOMAIN sub /\ sub'[i] = sub[i]
      BY <2>1, <2>3, SMTT(20)
    <3>2. CASE j = Len(sub) + 1
      BY <1>4, <2>1, <2>3, <3>1, <3>2, ZenonT(30)
    <3>3. CASE j # Len(sub) + 1
      <4>1. j \in DOMAIN sub /\ sub'[j] = sub[j]
        BY <2>1, <3>3
      <4> QED BY <1>1, <2>3, <3>1, <4>1, Zenon
    <3> QED BY <3>2, <3>3, Zenon
  <2> QED BY <2>1, <2>2, <2>3, Zenon DEF HubInv, Awaits, Before
<1> QED BY <1>3, <1>4, Zenon

\* The stream's own steps only take from it.
LEMMA HubTaken ==
  ASSUME HubInv, UNCHANGED workVars, budget'.frames = budget.frames,
         \/ pc' = "off"
         \/ sub' = <<>>
         \/ pc # "off" /\ (sub' = sub \/ (sub # <<>> /\ sub' = Tail(sub)))
  PROVE  HubInv'
<1>1. /\ Stored' = Stored /\ late' = late /\ writer' = writer /\ table' = table
  BY TableKept, Zenon DEF workVars
<1>2. CASE sub' = <<>>
  <2>1. <<>> \in Seq(Turn \X Nat) /\ DOMAIN sub' = {}
    BY <1>2
  <2> QED BY <1>2, <2>1, Zenon DEF HubInv
<1>3. CASE pc # "off" /\ sub' = sub
  BY <1>1, <1>3, Zenon DEF HubInv, Awaits
<1>4. CASE pc # "off" /\ sub # <<>> /\ sub' = Tail(sub)
  <2>1. sub \in Seq(Turn \X Nat)
    BY <1>4, Zenon DEF HubInv
  <2>2. /\ sub' \in Seq(Turn \X Nat) /\ Len(sub) \in Nat /\ DOMAIN sub = 1..Len(sub)
        /\ DOMAIN sub' = 1..(Len(sub) - 1)
        /\ \A i \in 1..(Len(sub) - 1) : sub'[i] = sub[i + 1] /\ i + 1 \in DOMAIN sub
    BY <1>4, <2>1
  <2>3. \A i \in DOMAIN sub' : sub'[i][2] # 0 =>
          /\ sub'[i] \in Stored
          /\ ~(writer[sub'[i][1]] = "stored" /\ sub'[i][2] = table[sub'[i][1]])
    <3>1. \A i \in DOMAIN sub : sub[i][2] # 0 =>
            /\ sub[i] \in Stored
            /\ ~(writer[sub[i][1]] = "stored" /\ sub[i][2] = table[sub[i][1]])
      BY <1>4, Zenon DEF HubInv, Awaits
    <3> HIDE DEF Stored
    <3> QED BY <2>2, <3>1, ZenonT(30)
  <2>4. ASSUME NEW i \in DOMAIN sub', NEW j \in DOMAIN sub', i < j, sub'[i][2] # 0, sub'[j][2] # 0
        PROVE  Before(sub'[i], sub'[j]) \/ sub'[j][1] \in late
    <3>1. i + 1 < j + 1 /\ sub'[i] = sub[i + 1] /\ sub'[j] = sub[j + 1] /\ i + 1 \in DOMAIN sub /\ j + 1 \in DOMAIN sub
      BY <2>2, <2>4, SMTT(20)
    <3> QED BY <1>4, <2>4, <3>1, Zenon DEF HubInv
  <2> QED BY <1>1, <2>2, <2>3, <2>4, Zenon DEF HubInv, Awaits, Before
<1>5. CASE pc' = "off"
  BY <1>5, Zenon DEF HubInv
<1> QED BY <1>2, <1>3, <1>4, <1>5, Zenon

\* What a worker's step does to a stream: frames are stored after the others,
\* and handed to the hub.
WorkEffects ==
  /\ UNCHANGED streamVars /\ late \subseteq late' /\ dropped \subseteq dropped'
  /\ Stored \subseteq Stored'
  /\ \A f \in Stored : Hubbed(f) => Hubbed(f)'
  /\ \A f \in Stored' \ Stored : /\ Awaits(f)'
                                 /\ f[1] \in late \/ \A g \in Stored : Before(g, f)
  /\ HubInv'

\* What waits in a channel still waits in one that is longer.
LEMMA QueueKept ==
  ASSUME NEW S, NEW q \in Seq(S), NEW u \in S, NEW r, r = q \/ r = Append(q, u), NEW i \in DOMAIN q
  PROVE  i \in DOMAIN r /\ r[i] = q[i]
OBVIOUS

\* A worker's step that stores nothing and publishes an update that is no frame,
\* or nothing.
LEMMA QuietEffect ==
  ASSUME HubInv, pc # "off", UNCHANGED streamVars, table' = table, budget' = budget,
         late \subseteq late', \A f \in Stored : Awaits(f)' <=> Awaits(f), NEW t \in Turn,
         UNCHANGED <<sub, dropped>> \/ Publish(TurnUpdate(t))
  PROVE  WorkEffects
<1>1. Stored' = Stored
  BY Zenon DEF Stored
<1>2. /\ dropped \subseteq dropped'
      /\ sub' = sub \/ sub' = Append(sub, TurnUpdate(t))
  BY PublishEffect, Zenon DEF TurnUpdate
<1>3. HubInv'
  <2>1. pc' = pc
    BY Zenon DEF streamVars
  <2>2. PICK u \in Turn \X Nat : u = TurnUpdate(t) /\ u[2] = 0
    BY DEF TurnUpdate
  <2> QED BY <1>1, <1>2, <2>1, <2>2, HubMoves, Zenon
<1>4. ASSUME NEW f \in Stored, Hubbed(f) PROVE Hubbed(f)'
  <2>1. CASE Queued(f)
    <3>1. PICK i \in DOMAIN sub : sub[i] = f
      BY <2>1, Zenon DEF Queued
    <3>2. i \in DOMAIN sub' /\ sub'[i] = f
      <4>1. sub \in Seq(Turn \X Nat) /\ TurnUpdate(t) \in Turn \X Nat
        BY Zenon DEF HubInv, TurnUpdate
      <4> QED BY <1>2, <3>1, <4>1, QueueKept, ZenonT(30)
    <3> QED BY <3>2, Zenon DEF Hubbed, Queued
  <2>2. CASE Awaits(f) \/ f \in dropped
    BY <1>2, <2>2, Zenon DEF Hubbed
  <2> QED BY <1>4, <2>1, <2>2, Zenon DEF Hubbed
<1> QED BY <1>1, <1>2, <1>3, <1>4, Zenon DEF WorkEffects

LEMMA AppendsEffect ==
  ASSUME FrameTypes, WorkInv, HubInv, pc # "off", NEW t \in Turn, AppendEvent(t)
  PROVE  WorkEffects
<1>1. UNCHANGED streamVars /\ late' = late /\ dropped' = dropped /\ sub' = sub /\ pc' = pc
  BY Zenon DEF AppendEvent, streamVars
<1>2. PICK e \in Turn \X Nat :
           /\ e[1] = t /\ Stored' = Stored \cup {e} /\ Awaits(e)'
           /\ \A g \in Stored : /\ Awaits(g)' => Awaits(g)
                                /\ Awaits(g) => Awaits(g)'
                                /\ Before(g, e) \/ t \in late
  BY AppendEffect, Zenon
<1>3. HubInv'
  BY <1>1, <1>2, HubMoves, Zenon
<1>4. ASSUME NEW f \in Stored, Hubbed(f) PROVE Hubbed(f)'
  BY <1>1, <1>2, <1>4, Zenon DEF Hubbed, Queued
<1> QED BY <1>1, <1>2, <1>3, <1>4, Zenon DEF WorkEffects

LEMMA PublishesEffect ==
  ASSUME FrameTypes, WorkInv, HubInv, pc # "off", NEW t \in Turn, PublishEvent(t)
  PROVE  WorkEffects
<1>1. /\ UNCHANGED streamVars /\ late' = late /\ pc' = pc /\ table' = table /\ budget' = budget
      /\ writer[t] = "stored" /\ writer' = [writer EXCEPT ![t] = "running"]
      /\ Publish(<<t, table[t]>>)
  BY Zenon DEF PublishEvent, streamVars
<1>2. Stored' = Stored
  BY <1>1, Zenon DEF Stored
<1>3. PICK u \in Turn \X Nat : u = <<t, table[t]>>
  BY TurnTypes, ZenonT(30)
<1>4. /\ writer \in [Turn -> {"idle", "running", "stored", "over"}] /\ table[t] # 0
      /\ table[t] <= budget.frames /\ table[t] \in Nat /\ budget.frames \in Nat
  BY <1>1, TurnTypes, Zenon DEF WorkInv
<1>5. /\ writer'[t] = "running" /\ \A x \in Turn : x # t => writer'[x] = writer[x]
  BY <1>1, <1>4, Zenon
<1>6. u \in Stored /\ Awaits(u) /\ ~Awaits(u)' /\ u[2] # 0
  <2>1. table[t] \in 1..budget.frames
    BY <1>4
  <2> QED BY <1>1, <1>3, <1>4, <1>5, <2>1 DEF Stored, Awaits
<1>7. ASSUME NEW f \in Stored
      PROVE  /\ Awaits(f)' => Awaits(f)
             /\ Awaits(f) => Awaits(f)' \/ f = u
  <2>1. f[1] \in Turn /\ f = <<f[1], f[2]>>
    BY DEF Stored
  <2> QED BY <1>1, <1>3, <1>5, <2>1, Zenon DEF Awaits
<1>8. /\ sub' = sub \/ sub' = Append(sub, u)
      /\ dropped \subseteq dropped'
      /\ sub' = Append(sub, u) \/ u \in dropped'
  BY <1>1, <1>3, <1>6, PublishEffect, Zenon
<1>9. HubInv'
  <2>1. \A i \in DOMAIN sub : sub[i][2] # 0 => Before(sub[i], u) \/ u[1] \in late'
    <3>1. \A i \in DOMAIN sub : sub[i][2] # 0 => sub[i] \in Stored /\ ~Awaits(sub[i])
      BY Zenon DEF HubInv
    <3> QED BY <1>1, <1>6, <3>1, AwaitedIsAhead, Zenon
  <2> QED BY <1>1, <1>2, <1>6, <1>7, <1>8, <2>1, HubMoves, Zenon
<1>10. ASSUME NEW f \in Stored, Hubbed(f) PROVE Hubbed(f)'
  <2>0. sub \in Seq(Turn \X Nat)
    BY Zenon DEF HubInv
  <2>1. CASE Queued(f)
    <3>1. PICK i \in DOMAIN sub : sub[i] = f
      BY <2>1, Zenon DEF Queued
    <3>2. i \in DOMAIN sub' /\ sub'[i] = f
      BY <1>8, <2>0, <3>1, QueueKept, ZenonT(30)
    <3> QED BY <3>2, Zenon DEF Hubbed, Queued
  <2>2. CASE f \in dropped
    BY <1>8, <2>2, Zenon DEF Hubbed
  <2>3. CASE Awaits(f)
    <3>1. CASE f = u /\ sub' = Append(sub, u)
      <4>1. Len(sub) + 1 \in DOMAIN sub' /\ sub'[Len(sub) + 1] = f
        BY <2>0, <3>1
      <4> QED BY <4>1, Zenon DEF Hubbed, Queued
    <3> QED BY <1>7, <1>8, <2>3, <3>1, Zenon DEF Hubbed
  <2> QED BY <1>10, <2>1, <2>2, <2>3, Zenon DEF Hubbed
<1> QED BY <1>1, <1>2, <1>8, <1>9, <1>10, Zenon DEF WorkEffects

\* A worker's step, whichever it is.
LEMMA WorkerEffect ==
  ASSUME FrameTypes, WorkInv, HubInv, pc # "off", NEW t \in Turn,
         \/ Post(t) \/ Claim(t) \/ AppendEvent(t) \/ PublishEvent(t) \/ Reclaim(t)
         \/ \E state \in {"done", "failed"} : Answer(t, state)
  PROVE  WorkEffects
<1>0. writer \in [Turn -> {"idle", "running", "stored", "over"}] /\ \A f \in Stored : f[1] \in Turn
  BY Zenon DEF WorkInv, Stored
<1>1. CASE Post(t)
  <2>1. \A f \in Stored : Awaits(f)' <=> Awaits(f)
    BY <1>1, ZenonT(30) DEF Post, Awaits
  <2> QED BY <1>1, <2>1, QuietEffect, Zenon DEF Post
<1>2. CASE Claim(t)
  <2>1. writer[t] = "idle"
    BY <1>2, Zenon DEF Claim, WorkInv, Begun
  <2>2. \A f \in Stored : Awaits(f)' <=> Awaits(f)
    BY <1>0, <1>2, <2>1, Zenon DEF Claim, Awaits
  <2> QED BY <1>2, <2>2, QuietEffect, Zenon DEF Claim
<1>3. CASE Reclaim(t)
  <2>1. \A f \in Stored : Awaits(f)' <=> Awaits(f)
    BY <1>3, Zenon DEF Reclaim, Awaits
  <2>2. late \subseteq late'
    BY <1>3, Zenon DEF Reclaim
  <2> QED BY <1>3, <2>1, <2>2, QuietEffect, Zenon DEF Reclaim
<1>4. ASSUME NEW state \in {"done", "failed"}, Answer(t, state) PROVE WorkEffects
  <2>1. \A f \in Stored : Awaits(f)' <=> Awaits(f)
    BY <1>0, <1>4, Zenon DEF Answer, Awaits
  <2> QED BY <1>4, <2>1, QuietEffect, Zenon DEF Answer
<1> QED BY <1>1, <1>2, <1>3, <1>4, AppendsEffect, PublishesEffect, Zenon

-----------------------------------------------------------------------------
(* The stream                                                               *)

LEMMA BeforeTotal ==
  \A f, g, h \in Spots : /\ Before(f, g) /\ Before(g, h) => Before(f, h)
                         /\ Before(f, g) => ~Before(g, f)
                         /\ f = g \/ Before(f, g) \/ Before(g, f)
BY BeforeOrders DEF Before

LEMMA StoredSpots ==
  ASSUME FrameTypes, WorkInv
  PROVE  Stored \subseteq Spots /\ \A f \in Stored : f[2] # 0
BY StoredFrames, BeforeOrders, Zenon

\* A step that leaves the stream and its channel where they are.
LEMMA StreamStays ==
  ASSUME HubInv, CursorInv, MissInv, UNCHANGED workVars, budget'.frames = budget.frames,
         UNCHANGED <<sub, pc, last, rows, pages, pend, got, from, kept, dropped, short>>
  PROVE  HubInv' /\ CursorInv' /\ MissInv'
<1>1. Stored' = Stored /\ late' = late /\ (\A f : Awaits(f)' <=> Awaits(f)) /\ writer' = writer /\ table' = table
  BY TableKept, Zenon DEF workVars
<1>2. HubInv'
  BY HubTaken, Zenon DEF HubInv
<1>3. CursorInv'
  BY <1>1, Zenon DEF CursorInv, Streaming
<1>4. \A f : (Hubbed(f)' <=> Hubbed(f)) /\ (Sent(f)' <=> Sent(f)) /\ (Inside(f)' <=> Inside(f)) /\ (Unread(f)' <=> Unread(f))
  BY <1>1, Zenon DEF Hubbed, Sent, Queued, Inside, Unread
<1>5. MissInv'
  <2> SUFFICES ASSUME Streaming', ~short' PROVE BehindInv' /\ AheadInv' /\ PageInv'
    BY Zenon DEF MissInv
  <2>1. BehindInv /\ AheadInv /\ PageInv
    BY Zenon DEF MissInv, Streaming
  <2>2. BehindInv'
    BY <1>1, <1>4, <2>1, ZenonT(30) DEF BehindInv
  <2>3. AheadInv'
    BY <1>1, <1>4, <2>1, ZenonT(30) DEF AheadInv
  <2>4. PageInv'
    BY <1>1, <1>4, <2>1, ZenonT(30) DEF PageInv
  <2> QED BY <2>2, <2>3, <2>4, Zenon
<1> QED BY <1>2, <1>3, <1>5, Zenon

\* A worker's step: what it stores is ahead of the stream and the hub's to hand
\* on, or its turn was reclaimed.
LEMMA WorkersMiss ==
  ASSUME FrameTypes, WorkInv, CursorInv, MissInv, WorkEffects, pc # "off"
  PROVE  CursorInv' /\ MissInv'
<1>1. /\ UNCHANGED <<pc, last, rows, pages, pend, got, from, kept, short>>
      /\ late \subseteq late' /\ dropped \subseteq dropped' /\ Stored \subseteq Stored'
      /\ \A f \in Stored : Hubbed(f) => Hubbed(f)'
      /\ \A f \in Stored' : f \in Stored \/ (Awaits(f)' /\ (f[1] \in late \/ \A g \in Stored : Before(g, f)))
  BY Zenon DEF WorkEffects, streamVars
<1>2. CursorInv'
  BY <1>1, Zenon DEF CursorInv, Streaming
<1>3. \A f : (Sent(f)' <=> Sent(f)) /\ (Inside(f)' <=> Inside(f)) /\ (Unread(f)' <=> Unread(f))
  BY <1>1, Zenon DEF Sent, Inside, Unread
<1>4. MissInv'
  <2> SUFFICES ASSUME Streaming', ~short' PROVE BehindInv' /\ AheadInv' /\ PageInv'
    BY Zenon DEF MissInv
  <2>1. BehindInv /\ AheadInv /\ PageInv /\ Streaming
    BY <1>1, Zenon DEF MissInv, Streaming
  <2>2. BehindInv'
    <3>1. ASSUME NEW f \in Stored', Before(from, f), ~Before(last, f)
          PROVE  f \in Stored \/ f[1] \in late
      BY <1>1, <2>1, <3>1, Zenon DEF CursorInv
    <3> QED BY <1>1, <1>3, <2>1, <3>1, Zenon DEF BehindInv
  <2>3. AheadInv'
    <3> SUFFICES ASSUME NEW f \in Stored', Before(last, f)
                 PROVE  \/ f \in rows \/ f[1] \in late' \/ Hubbed(f)'
                        \/ pc = "replay" /\ Unread(f)
                        \/ pc = "fill" /\ (f = pend \/ (Before(f, pend) /\ Unread(f)))
      BY <1>1, <1>3, Zenon DEF AheadInv
    <3>1. CASE f \in Stored
      BY <1>1, <2>1, <3>1, Zenon DEF AheadInv
    <3>2. CASE f \notin Stored
      BY <1>1, <3>2, Zenon DEF Hubbed
    <3> QED BY <3>1, <3>2, Zenon
  <2>4. PageInv'
    <3>1. rows \subseteq Stored /\ (pc = "fill" => pend \in Stored)
      BY Zenon DEF CursorInv
    <3>2. ASSUME NEW f \in Stored', NEW g \in Stored, Before(f, g) PROVE f \in Stored \/ f[1] \in late
      <4>1. SUFFICES ASSUME f \notin Stored, f[1] \notin late PROVE FALSE
        BY Zenon
      <4>2. Before(g, f)
        BY <1>1, <4>1, Zenon
      <4>3. g[1] \in Nat /\ g[2] \in Nat
        BY StoredSpots, BeforeOrders, Zenon
      <4>4. f[1] \in Nat /\ f[2] \in Nat
        <5>1. f[1] \in Turn /\ f[2] \in 1..budget.frames'
          BY Zenon DEF Stored
        <5> QED BY <5>1, TurnTypes DEF Turn
      <4> QED BY <3>2, <4>2, <4>3, <4>4 DEF Before
    <3> QED BY <1>1, <1>3, <2>1, <3>1, <3>2, Zenon DEF PageInv
  <2> QED BY <2>2, <2>3, <2>4, Zenon
<1> QED BY <1>2, <1>4, Zenon

LEMMA NotTheLast ==
  ASSUME NEW k \in Nat, NEW n \in Nat, NEW i \in (k + 1)..n, i # n
  PROVE  i \in (k + 1)..(n - 1) /\ i \in 1..n /\ i + 1 \in 1..n
OBVIOUS

LEMMA OneLess == \A n \in Nat : (n + 1) - 1 = n
OBVIOUS

\* A frame is sent past which only frames the hub dropped are left behind, and
\* none within its turn.
LEMMA EmitBehind ==
  ASSUME FrameTypes, OrderInv, WorkInv, CursorInv, Streaming, BehindInv,
         Stored' = Stored, late' = late, dropped' = dropped, kept' = kept, from' = from,
         NEW e \in Stored, Before(last, e), Emit(e),
         \A f \in Stored : Before(last, f) /\ Before(f, e) =>
           f[1] \in late \/ (f \in dropped /\ ~(last[1] = f[1] /\ e[1] = f[1]))
  PROVE  BehindInv' /\ last' = e /\ Before(from, e) /\ got'[Len(got')] = e
<1>1. /\ got \in Seq(Frames) /\ kept \in 0..Len(got) /\ Len(got) \in Nat /\ kept \in Nat
      /\ last' = e /\ got' = Append(got, e) /\ {last, e, from} \subseteq Spots
  BY StoredSpots DEF FrameTypes, CursorInv, Emit
<1>2. /\ Len(got') = Len(got) + 1 /\ got'[Len(got) + 1] = e
      /\ DOMAIN got = 1..Len(got) /\ DOMAIN got' = 1..(Len(got) + 1)
      /\ \A i \in 1..Len(got) : got'[i] = got[i] /\ got[i] \in Spots
  BY <1>1, BeforeOrders
<1>3. Before(from, e)
  BY <1>1, BeforeTotal, Zenon DEF CursorInv
<1>4. \A f : Sent(f) => Sent(f)'
  BY <1>2 DEF Sent
<1>5. Sent(e)'
  <2>1. Len(got) + 1 \in DOMAIN got'
    BY <1>1, <1>2
  <2> QED BY <1>2, <2>1, Zenon DEF Sent
<1>6. ASSUME NEW f \in Stored, Inside(f)'
      PROVE  Inside(f) \/ (Before(last, f) /\ last[1] = f[1] /\ e[1] = f[1])
  <2>1. PICK i \in (kept + 1)..Len(got) :
          got'[i][1] = f[1] /\ got'[i + 1][1] = f[1] /\ Before(got'[i], f) /\ Before(f, got'[i + 1])
    <3>1. (kept' + 1)..(Len(got') - 1) = (kept + 1)..Len(got)
      <4>1. kept' = kept /\ Len(got') = Len(got) + 1 /\ Len(got) \in Nat
        BY <1>1, <1>2, ZenonT(30)
      <4> QED BY <4>1, OneLess, ZenonT(30)
    <3> QED BY <1>6, <3>1, ZenonT(30) DEF Inside, Before
  <2>2. CASE i = Len(got)
    <3>1. got'[i] = got[Len(got)] /\ got'[i + 1] = e /\ Len(got) > kept
      <4>1. Len(got) \in 1..Len(got) /\ Len(got) > kept
        BY <1>1, <2>2
      <4> QED BY <1>2, <2>2, <4>1, Zenon
    <3>2. last = got[Len(got)]
      BY <3>1, Zenon DEF CursorInv
    <3> QED BY <2>1, <3>1, <3>2, Zenon
  <2>3. CASE i # Len(got)
    <3>1. i \in (kept + 1)..(Len(got) - 1) /\ got'[i] = got[i] /\ got'[i + 1] = got[i + 1]
      <4>1. i \in (kept + 1)..(Len(got) - 1) /\ i \in 1..Len(got) /\ i + 1 \in 1..Len(got)
        BY <1>1, <2>1, <2>3, NotTheLast, Zenon
      <4> QED BY <1>2, <4>1, Zenon
    <3> QED BY <2>1, <3>1, Zenon DEF Inside
  <2> QED BY <2>2, <2>3, Zenon
<1>7. ASSUME NEW f \in Stored, Inside(f) PROVE ~Before(last, f)
  <2>1. PICK i \in (kept + 1)..(Len(got) - 1) : Before(f, got[i + 1])
    BY <1>7, Zenon DEF Inside
  <2>2. i + 1 \in 1..Len(got)
    BY <1>1
  <2>3. ~Before(last, got[i + 1]) /\ got[i + 1] \in Spots /\ f \in Spots
    BY <1>2, <2>2, StoredSpots, Zenon DEF OrderInv, Streaming
  <2> QED BY <1>1, <2>1, <2>3, BeforeTotal, Zenon
<1>8. ASSUME NEW f \in Stored, Before(from, f), ~Before(e, f)
      PROVE  Sent(f)' \/ f[1] \in late \/ (f \in dropped /\ ~Inside(f)')
  <2>1. CASE ~Before(last, f)
    BY <1>4, <1>6, <1>8, <2>1, Zenon DEF BehindInv
  <2>2. CASE f = e
    BY <1>5, <2>2, Zenon
  <2>3. CASE Before(last, f) /\ f # e
    <3>1. Before(f, e)
      BY <1>1, <1>8, <2>3, StoredSpots, BeforeTotal, Zenon
    <3>2. f[1] \in late \/ (f \in dropped /\ ~(last[1] = f[1] /\ e[1] = f[1]))
      BY <2>3, <3>1, Zenon
    <3> QED BY <1>6, <1>7, <2>3, <3>2, Zenon
  <2> QED BY <2>1, <2>2, <2>3, Zenon
<1>9. BehindInv'
  BY <1>1, <1>8, Zenon DEF BehindInv, Before
<1> QED BY <1>1, <1>2, <1>3, <1>9, Zenon

\* What the stream's steps start from.
StreamPre ==
  /\ CutInv /\ FrameTypes /\ OrderInv /\ WorkInv /\ HubInv /\ CursorInv /\ MissInv
  /\ UNCHANGED workVars /\ budget'.frames = budget.frames

\* A stream that ends, or is not begun yet, has missed nothing.
LEMMA EndsMiss ==
  ASSUME Ends
  PROVE  HubInv' /\ CursorInv' /\ MissInv'
<1>1. pc' = "off" /\ rows' = {} /\ from' = Start /\ pages' = 0
  BY Zenon DEF Ends
<1> QED BY <1>1, ZenonT(30) DEF HubInv, CursorInv, MissInv, Streaming, Start, Spots

LEMMA ConnectMiss ==
  ASSUME StreamPre, NEW reload \in BOOLEAN, Connect(reload)
  PROVE  HubInv' /\ CursorInv' /\ MissInv'
<1>1. /\ pc' = "open" /\ UNCHANGED <<rows, from, pages>> /\ kept' = Len(got') /\ sub' = <<>>
  BY Zenon DEF Connect, Joins
<1>2. HubInv'
  BY <1>1, HubTaken, Zenon DEF StreamPre
<1>3. Stored' = Stored
  BY TableKept, Zenon DEF StreamPre
<1>4. CursorInv
  BY Zenon DEF StreamPre
<1> QED BY <1>1, <1>2, <1>3, <1>4, ZenonT(30) DEF CursorInv, MissInv, Streaming

LEMMA OpenMiss ==
  ASSUME StreamPre, FrameTypes', OpenTurns
  PROVE  HubInv' /\ CursorInv' /\ MissInv'
<1>1. CASE revoked = "grant"
  <2>1. Ends
    BY <1>1, Zenon DEF OpenTurns
  <2> QED BY <2>1, EndsMiss, Zenon
<1>2. CASE revoked # "grant"
  <2>1. /\ pc = "open" /\ last' = from' /\ pc' = "replay" /\ pages' = Pages
        /\ UNCHANGED <<sub, rows, pend, got, kept, dropped, short>>
    <3>1. \E at : last' = at /\ from' = at
      BY <1>2, ZenonT(30) DEF OpenTurns
    <3>2. /\ pc = "open" /\ pc' = "replay" /\ pages' = Pages
          /\ UNCHANGED <<sub, rows, pend, got, kept, dropped, short>>
      BY <1>2, Zenon DEF OpenTurns
    <3> QED BY <3>1, <3>2, Zenon
  <2>2. rows = {} /\ kept = Len(got) /\ last' \in Spots /\ Pages \in Nat /\ Pages > 0
    BY <2>1, ChatStreamConstants, SMTT(20) DEF StreamPre, CutInv, CursorInv, FrameTypes
  <2>3. HubInv'
    BY <2>1, HubTaken, Zenon DEF StreamPre
  <2>4. CursorInv'
    <3>1. ~(Len(got') > kept')
      <4>1. Len(got) \in Nat
        BY DEF StreamPre, FrameTypes
      <4> QED BY <2>1, <2>2, <4>1
    <3> QED BY <2>1, <2>2, <3>1, Zenon DEF CursorInv
  <2>5. BehindInv' /\ AheadInv' /\ PageInv'
    BY <2>1, <2>2, Zenon DEF BehindInv, AheadInv, PageInv, Unread
  <2> QED BY <2>3, <2>4, <2>5, Zenon DEF MissInv
<1> QED BY <1>1, <1>2, Zenon

\* A page: it has the first of what is after the cursor, and the replay goes on
\* unless that was all of it, or all up to the gap.
LEMMA ReadMiss ==
  ASSUME StreamPre, ReadPage
  PROVE  HubInv' /\ CursorInv' /\ MissInv'
<1> DEFINE S    == {f \in Stored : Before(last, f)}
           page == Firsts(S, Page)
           want == {f \in page : pc = "replay" \/ ~Before(pend, f)}
           end  == Cardinality(page) < Page \/ want # page
<1>1. /\ pc \in {"replay", "fill"} /\ rows = {} /\ pages > 0
      /\ rows' = want /\ pages' = (IF end THEN 0 ELSE pages - 1)
      /\ short' = (short \/ (~end /\ pages = 1))
      /\ UNCHANGED <<sub, pc, last, pend, got, from, kept, dropped>>
  BY Zenon DEF ReadPage, Replaying, TurnEvents
<1>2. /\ Stored' = Stored /\ late' = late /\ writer' = writer /\ table' = table
      /\ \A f : Awaits(f)' <=> Awaits(f)
  BY TableKept, Zenon DEF StreamPre, workVars
<1>3. /\ FrameTypes /\ WorkInv /\ CursorInv /\ HubInv /\ MissInv /\ pages \in Nat
  BY Zenon DEF StreamPre, CursorInv
<1>4. /\ S \subseteq Spots /\ IsFiniteSet(S) /\ Page \in Nat /\ last \in Spots /\ pend \in Spots
      /\ Stored \subseteq Spots
  BY <1>3, StoredSpots, StoredFrames, FS_Subset, ChatStreamConstants, Zenon DEF FrameTypes
<1>5. page \subseteq S
  BY Zenon DEF Firsts
<1>6. \A f \in S : f \notin page => \A r \in page : Before(r, f)
  <2> HIDE DEF S
  <2> QED BY <1>4, FirstsLead, Zenon
<1>7. Cardinality(page) < Page => page = S
  <2> HIDE DEF S
  <2> QED BY <1>4, FirstsIsAll, Zenon
<1> HIDE DEF page
<1>8. HubInv'
  BY <1>1, HubTaken, Zenon DEF StreamPre
<1>9. CursorInv'
  <2>1. pages' \in Nat
    <3>1. CASE end
      BY <1>1, <3>1, Zenon
    <3>2. CASE ~end
      <4>1. pages' = pages - 1
        BY <1>1, <3>2, Zenon
      <4> QED BY <1>1, <1>3, <4>1
    <3> QED BY <3>1, <3>2, Zenon
  <2>2. rows' \subseteq Stored'
    BY <1>1, <1>2, <1>5, Zenon
  <2> QED BY <1>1, <1>2, <1>3, <2>1, <2>2, Zenon DEF CursorInv, Streaming
<1>10. ASSUME ~short', NEW f \in S, f \notin want, pc = "replay" \/ Before(f, pend)
       PROVE  Unread(f)'
  <2>1. f \notin page
    BY <1>4, <1>10, BeforeTotal, Zenon
  <2>2. ASSUME NEW r \in page, pc # "replay", Before(pend, r) PROVE FALSE
    <3>1. Before(r, f) /\ Before(f, pend) /\ {r, f, pend} \subseteq Spots
      BY <1>4, <1>5, <1>6, <1>10, <2>1, <2>2, Zenon
    <3>2. Before(r, pend)
      BY <3>1, BeforeTotal, Zenon
    <3> QED BY <2>2, <3>1, <3>2, BeforeTotal, Zenon
  <2>3. want = page /\ ~end
    BY <1>7, <1>10, <2>1, <2>2, Zenon
  <2>4. pages' = pages - 1 /\ pages # 1
    BY <1>1, <1>10, <2>3, ZenonT(30)
  <2>5. pages' > 0
    BY <1>1, <1>3, <2>4
  <2>6. \A r \in rows' : Before(r, f)
    BY <1>1, <1>6, <2>1, Zenon
  <2> QED BY <2>5, <2>6, Zenon DEF Unread
<1>11. MissInv'
  <2> SUFFICES ASSUME Streaming', ~short' PROVE BehindInv' /\ AheadInv' /\ PageInv'
    BY Zenon DEF MissInv
  <2>1. BehindInv /\ AheadInv /\ PageInv
    BY <1>1, <1>3, ZenonT(30) DEF MissInv, Streaming
  <2>2. \A f : (Hubbed(f)' <=> Hubbed(f)) /\ (Sent(f)' <=> Sent(f)) /\ (Inside(f)' <=> Inside(f))
    BY <1>1, <1>2, Zenon DEF Hubbed, Sent, Queued, Inside
  <2>3. BehindInv'
    BY <1>1, <1>2, <2>1, <2>2, Zenon DEF BehindInv
  <2>4. AheadInv'
    <3> SUFFICES ASSUME NEW f \in Stored, Before(last, f)
                 PROVE  \/ f \in want \/ f[1] \in late \/ Hubbed(f)
                        \/ pc = "replay" /\ Unread(f)'
                        \/ pc = "fill" /\ (f = pend \/ (Before(f, pend) /\ Unread(f)'))
      <4> HIDE DEF want
      <4> QED BY <1>1, <1>2, <2>2, Zenon DEF AheadInv
    <3> QED BY <1>1, <1>10, <2>1, Zenon DEF AheadInv
  <2>5. ASSUME NEW r \in want, NEW f \in Stored, Before(last, f), Before(f, r) PROVE f \in want
    <3>1. {f, r, pend} \subseteq Spots /\ f \in page
      <4>1. {f, r, pend} \subseteq Spots /\ f \in S /\ r \in page
        BY <1>4, <1>5, <2>5, Zenon
      <4> QED BY <1>6, <2>5, <4>1, BeforeTotal, Zenon
    <3>2. CASE pc # "replay"
      BY <2>5, <3>1, <3>2, BeforeTotal, Zenon
    <3> QED BY <3>1, <3>2, Zenon
  <2>6. PageInv'
    <3> HIDE DEF want
    <3>1. \A f \in Stored : pc = "fill" /\ Before(last, f) /\ Before(f, pend) => f \in want \/ Unread(f)'
      BY <1>10, Zenon
    <3> QED BY <1>1, <1>2, <2>5, <3>1, Zenon DEF PageInv
  <2> QED BY <2>3, <2>4, <2>6, Zenon
<1> QED BY <1>8, <1>9, <1>11, Zenon

\* A row is sent: those before it were.
LEMMA RowMiss ==
  ASSUME StreamPre, EmitRow
  PROVE  HubInv' /\ CursorInv' /\ MissInv'
<1>1. PICK e \in rows : /\ \A g \in rows : g = e \/ Before(e, g)
                        /\ Emit(e) /\ rows' = rows \ {e}
  BY Zenon DEF EmitRow
<1>2. UNCHANGED <<sub, pc, pages, pend, from, kept, dropped, short>>
  BY Zenon DEF EmitRow
<1>3. /\ CutInv /\ FrameTypes /\ OrderInv /\ WorkInv /\ CursorInv /\ HubInv /\ MissInv
  BY Zenon DEF StreamPre
<1>4. /\ Stored' = Stored /\ late' = late /\ writer' = writer /\ table' = table
      /\ \A f : Awaits(f)' <=> Awaits(f)
  BY TableKept, Zenon DEF StreamPre, workVars
<1>5. pc \in {"replay", "fill"} /\ e \in Stored /\ Before(last, e) /\ rows \subseteq Stored
  BY <1>1, <1>3, Zenon DEF CutInv, CursorInv, OrderInv
<1>6. {last, e} \subseteq Spots /\ Stored \subseteq Spots
  BY <1>3, <1>5, StoredSpots, Zenon DEF FrameTypes
<1>7. last' = e
  BY <1>1, Zenon DEF Emit
<1>8. HubInv'
  BY <1>2, <1>5, HubTaken, Zenon DEF StreamPre
<1>9. CursorInv'
  <2>1. Before(from, e) /\ got'[Len(got')] = e
    <3>1. got' = Append(got, e) /\ got \in Seq(Frames) /\ e \in Frames /\ from \in Spots
      BY <1>1, <1>3, Zenon DEF Emit, FrameTypes, CursorInv
    <3>2. Before(from, e)
      BY <1>3, <1>5, <1>6, <3>1, BeforeTotal, Zenon DEF CursorInv, Streaming
    <3> QED BY <3>1, <3>2
  <2> QED BY <1>1, <1>2, <1>3, <1>4, <1>5, <1>7, <2>1, Zenon DEF CursorInv, Before
<1>10. MissInv'
  <2> SUFFICES ASSUME Streaming', ~short' PROVE BehindInv' /\ AheadInv' /\ PageInv'
    BY Zenon DEF MissInv
  <2>1. Streaming /\ BehindInv /\ AheadInv /\ PageInv
    BY <1>2, <1>3, <1>5, Zenon DEF MissInv, Streaming
  <2>2. ASSUME NEW f \in Stored, Before(last, f), Before(f, e) PROVE f[1] \in late
    <3>1. f \in rows \/ f[1] \in late
      BY <1>1, <2>1, <2>2, Zenon DEF PageInv
    <3> QED BY <1>1, <1>6, <2>2, <3>1, BeforeTotal, Zenon
  <2>3. BehindInv'
    BY <1>1, <1>2, <1>3, <1>4, <1>5, <2>1, <2>2, EmitBehind, ZenonT(30)
  <2>4. ASSUME NEW f \in Stored, Before(e, f)
        PROVE  /\ Before(last, f) /\ f # e
               /\ Unread(f) => Unread(f)'
               /\ Hubbed(f) => Hubbed(f)'
    <3>1. Before(last, f) /\ f # e
      BY <1>5, <1>6, <2>4, BeforeTotal, Zenon
    <3> QED BY <1>1, <1>2, <1>4, <3>1, ZenonT(30) DEF Unread, Hubbed, Queued
  <2>5. AheadInv'
    <3> SUFFICES ASSUME NEW f \in Stored, Before(e, f)
                 PROVE  \/ f \in rows' \/ f[1] \in late \/ Hubbed(f)'
                        \/ pc = "replay" /\ Unread(f)'
                        \/ pc = "fill" /\ (f = pend \/ (Before(f, pend) /\ Unread(f)'))
      BY <1>2, <1>4, <1>7, Zenon DEF AheadInv
    <3> QED BY <1>1, <2>1, <2>4, Zenon DEF AheadInv
  <2>6. PageInv'
    BY <1>1, <1>2, <1>4, <1>7, <2>1, <2>4, Zenon DEF PageInv
  <2> QED BY <2>3, <2>5, <2>6, Zenon
<1> QED BY <1>8, <1>9, <1>10, Zenon

\* The replay is over: what it left is the hub's, and the frame that showed a gap
\* is sent after what was in it.
LEMMA DoneMiss ==
  ASSUME StreamPre, ReplayDone
  PROVE  HubInv' /\ CursorInv' /\ MissInv'
<1>1. /\ pc \in {"replay", "fill"} /\ rows = {} /\ pages = 0 /\ pc' = "live" /\ sub' = sub
      /\ UNCHANGED <<rows, pages, from, kept, dropped, short>>
      /\ UNCHANGED <<got, last>> \/ (pc = "fill" /\ Before(last, pend) /\ Emit(pend))
  BY Zenon DEF ReplayDone, Joins
<1>2. /\ CutInv /\ FrameTypes /\ OrderInv /\ WorkInv /\ CursorInv /\ HubInv /\ MissInv
  BY Zenon DEF StreamPre
<1>3. /\ Stored' = Stored /\ late' = late /\ writer' = writer /\ table' = table
      /\ \A f : Awaits(f)' <=> Awaits(f)
  BY TableKept, Zenon DEF StreamPre, workVars
<1>4. HubInv'
  BY <1>1, HubTaken, Zenon DEF StreamPre
<1>5. \A f : (Hubbed(f)' <=> Hubbed(f)) /\ ~Unread(f)
  BY <1>1, <1>3 DEF Hubbed, Queued, Unread
<1>6. Streaming /\ Streaming' /\ PageInv'
  BY <1>1, Zenon DEF Streaming, PageInv
<1>7. CASE UNCHANGED <<got, last>> /\ ~(pc = "fill" /\ Before(last, pend))
  <2>1. CursorInv'
    BY <1>1, <1>2, <1>3, <1>6, <1>7, Zenon DEF CursorInv
  <2>2. ASSUME BehindInv, AheadInv PROVE BehindInv' /\ AheadInv'
    <3>1. \A f : (Sent(f)' <=> Sent(f)) /\ (Inside(f)' <=> Inside(f))
      BY <1>1, <1>7, Zenon DEF Sent, Inside
    <3>2. BehindInv'
      BY <1>1, <1>3, <1>7, <2>2, <3>1, Zenon DEF BehindInv
    <3>3. AheadInv'
      BY <1>1, <1>3, <1>5, <1>7, <2>2, Zenon DEF AheadInv
    <3> QED BY <3>2, <3>3, Zenon
  <2> QED BY <1>1, <1>2, <1>4, <1>6, <2>1, <2>2, Zenon DEF MissInv
<1>8. CASE pc = "fill" /\ Before(last, pend) /\ Emit(pend)
  <2>1. pend \in Stored /\ Stored \subseteq Spots /\ last \in Spots
    BY <1>2, <1>8, StoredSpots, Zenon DEF CursorInv, FrameTypes
  <2>2. PICK e \in Stored : e = pend
    BY <2>1, Zenon
  <2>3. last' = e /\ Before(last, e)
    BY <1>8, <2>2, Zenon DEF Emit
  <2>4. CursorInv'
    <3>1. Before(from, e) /\ got'[Len(got')] = e
      <4>1. got' = Append(got, e) /\ got \in Seq(Frames) /\ e \in Frames /\ from \in Spots
        BY <1>2, <1>8, <2>2, Zenon DEF Emit, FrameTypes, CursorInv
      <4>2. Before(from, e)
        BY <1>2, <1>6, <2>1, <2>3, <4>1, BeforeTotal, Zenon DEF CursorInv
      <4> QED BY <4>1, <4>2
    <3> QED BY <1>1, <1>2, <1>3, <2>3, <3>1, Zenon DEF CursorInv, Before
  <2>5. ASSUME BehindInv, AheadInv, PageInv PROVE BehindInv' /\ AheadInv'
    <3>1. ASSUME NEW f \in Stored, Before(last, f), Before(f, e) PROVE f[1] \in late
      BY <1>1, <1>5, <1>8, <2>2, <2>5, <3>1, Zenon DEF PageInv
    <3>2. BehindInv'
      BY <1>1, <1>2, <1>3, <1>6, <1>8, <2>2, <2>3, <2>5, <3>1, EmitBehind, ZenonT(30)
    <3>3. ASSUME NEW f \in Stored, Before(e, f) PROVE f[1] \in late \/ Hubbed(f)
      <4>1. Before(last, f) /\ f # e /\ ~Before(f, e)
        BY <2>1, <2>3, <3>3, BeforeTotal, Zenon
      <4> QED BY <1>1, <1>5, <2>2, <2>5, <4>1, Zenon DEF AheadInv
    <3>4. AheadInv'
      BY <1>3, <1>5, <2>3, <3>3, Zenon DEF AheadInv
    <3> QED BY <3>2, <3>4, Zenon
  <2> QED BY <1>1, <1>2, <1>4, <1>6, <2>4, <2>5, Zenon DEF MissInv
<1> QED BY <1>7, <1>8, Zenon DEF ReplayDone

\* A frame of the hub is skipped, sent, or shows a gap that the table fills.
LEMMA ReceiveMiss ==
  ASSUME StreamPre, Receive
  PROVE  HubInv' /\ CursorInv' /\ MissInv'
<1>1. CASE ~Authorised
  <2>1. Ends
    BY <1>1, Zenon DEF Receive
  <2> QED BY <2>1, EndsMiss, Zenon
<1>2. CASE Authorised
  <2>1. /\ pc = "live" /\ sub # <<>> /\ sub' = Tail(sub) /\ UNCHANGED <<rows, from, kept, dropped, short>>
    BY <1>2, Zenon DEF Receive
  <2>2. /\ CutInv /\ FrameTypes /\ OrderInv /\ WorkInv /\ CursorInv /\ HubInv /\ MissInv
    BY Zenon DEF StreamPre
  <2>3. /\ Stored' = Stored /\ late' = late /\ writer' = writer /\ table' = table
        /\ \A f : Awaits(f)' <=> Awaits(f)
    BY TableKept, Zenon DEF StreamPre, workVars
  <2>4. HubInv'
    BY <2>1, HubTaken, Zenon DEF StreamPre
  <2>5. PICK e \in Turn \X Nat : e = Head(sub) /\ 1 \in DOMAIN sub /\ e = sub[1]
    <3>1. sub \in Seq(Turn \X Nat)
      BY <2>1, <2>2, Zenon DEF HubInv
    <3> QED BY <2>1, <3>1
  <2>6. \/ (e[2] = 0 \/ ~Before(last, e)) /\ UNCHANGED <<got, last, pc, pages, pend>>
        \/ /\ e[2] # 0 /\ Before(last, e)
           /\ pc' = "fill" /\ pend' = e /\ pages' = Pages /\ UNCHANGED <<got, last>>
        \/ e[2] # 0 /\ Before(last, e) /\ ~GapBefore(e) /\ Emit(e) /\ UNCHANGED <<pc, pages, pend>>
    BY <1>2, <2>5, Zenon DEF Receive, AlreadySent
  <2>7. rows = {} /\ last \in Spots /\ Stored \subseteq Spots /\ (\A f \in Stored : f[2] # 0) /\ Streaming
    BY <2>1, <2>2, StoredSpots, Zenon DEF CutInv, FrameTypes, Streaming
  <2>8. e[2] # 0 => e \in Stored /\ ~Awaits(e)
    BY <2>1, <2>2, <2>5, Zenon DEF HubInv
  <2>9. ASSUME NEW f \in Stored, Hubbed(f) PROVE f = e \/ Hubbed(f)'
    <3>1. CASE Queued(f)
      <4>1. PICK i \in DOMAIN sub : sub[i] = f
        BY <3>1, Zenon DEF Queued
      <4>2. CASE i # 1
        <5>1. i - 1 \in DOMAIN sub' /\ sub'[i - 1] = f
          <6>1. sub \in Seq(Turn \X Nat)
            BY <2>1, <2>2, Zenon DEF HubInv
          <6> QED BY <2>1, <4>1, <4>2, <6>1
        <5> QED BY <5>1, Zenon DEF Hubbed, Queued
      <4> QED BY <2>5, <4>1, <4>2, Zenon
    <3> QED BY <2>1, <2>3, <2>9, <3>1, Zenon DEF Hubbed
  <2>10. \A f \in Stored : ~short /\ Before(last, f) => f[1] \in late \/ Hubbed(f)
    BY <2>1, <2>2, <2>7, Zenon DEF MissInv, AheadInv
  <2>11. CASE (e[2] = 0 \/ ~Before(last, e)) /\ UNCHANGED <<got, last, pc, pages, pend>>
    <3>1. CursorInv'
      BY <2>1, <2>2, <2>3, <2>7, <2>11, Zenon DEF CursorInv, Streaming
    <3>2. ASSUME ~short PROVE BehindInv' /\ AheadInv' /\ PageInv'
      <4>1. \A f : (Sent(f)' <=> Sent(f)) /\ (Inside(f)' <=> Inside(f))
        BY <2>1, <2>11, Zenon DEF Sent, Inside
      <4>2. BehindInv'
        BY <2>1, <2>2, <2>3, <2>7, <2>11, <3>2, <4>1, Zenon DEF BehindInv, MissInv
      <4>3. ASSUME NEW f \in Stored, Before(last, f) PROVE f[1] \in late \/ Hubbed(f)'
        BY <2>7, <2>9, <2>10, <2>11, <3>2, <4>3, Zenon
      <4>4. AheadInv'
        BY <2>3, <2>11, <4>3, Zenon DEF AheadInv
      <4> QED BY <2>1, <2>7, <2>11, <4>2, <4>4, Zenon DEF PageInv
    <3> QED BY <2>1, <2>4, <3>1, <3>2, Zenon DEF MissInv
  <2>12. CASE /\ e[2] # 0 /\ Before(last, e)
              /\ pc' = "fill" /\ pend' = e /\ pages' = Pages /\ UNCHANGED <<got, last>>
    <3>1. Pages \in Nat /\ Pages > 0
      BY ChatStreamConstants
    <3>2. CursorInv'
      BY <2>1, <2>2, <2>3, <2>7, <2>8, <2>12, <3>1, Zenon DEF CursorInv
    <3>3. ASSUME ~short PROVE BehindInv' /\ AheadInv' /\ PageInv'
      <4>1. \A f : (Sent(f)' <=> Sent(f)) /\ (Inside(f)' <=> Inside(f))
        BY <2>1, <2>12, Zenon DEF Sent, Inside
      <4>2. BehindInv'
        BY <2>1, <2>2, <2>3, <2>7, <2>12, <3>3, <4>1, Zenon DEF BehindInv, MissInv
      <4>3. ASSUME NEW f \in Stored, Before(last, f) PROVE f[1] \in late \/ Hubbed(f)' \/ f = e
        BY <2>9, <2>10, <3>3, <4>3, Zenon
      <4>4. AheadInv'
        BY <2>3, <2>12, <4>3, Zenon DEF AheadInv
      <4>5. \A f : Unread(f)'
        BY <2>1, <2>7, <2>12, <3>1, Zenon DEF Unread
      <4> QED BY <2>1, <2>7, <4>2, <4>4, <4>5, Zenon DEF PageInv
    <3> QED BY <2>1, <2>4, <3>2, <3>3, Zenon DEF MissInv
  <2>13. CASE e[2] # 0 /\ Before(last, e) /\ ~GapBefore(e) /\ Emit(e) /\ UNCHANGED <<pc, pages, pend>>
    <3>1. e \in Stored /\ ~Awaits(e) /\ last' = e
      BY <2>8, <2>13, Zenon DEF Emit
    <3>2. CursorInv'
      <4>1. Before(from, e) /\ got'[Len(got')] = e
        <5>1. got' = Append(got, e) /\ got \in Seq(Frames) /\ e \in Frames /\ from \in Spots
          BY <2>2, <2>13, <3>1, StoredFrames, Zenon DEF Emit, FrameTypes, CursorInv
        <5>2. Before(from, e)
          BY <2>2, <2>7, <2>13, <3>1, <5>1, BeforeTotal, Zenon DEF CursorInv
        <5> QED BY <5>1, <5>2
      <4> QED BY <2>1, <2>2, <2>3, <2>7, <2>13, <3>1, <4>1, Zenon DEF CursorInv, Before
    <3>3. ASSUME ~short PROVE BehindInv' /\ AheadInv' /\ PageInv'
      <4>1. ASSUME NEW f \in Stored, Before(last, f), Before(f, e)
            PROVE  f[1] \in late \/ (f \in dropped /\ ~(last[1] = f[1] /\ e[1] = f[1]))
        <5>0. {f, e, last} \subseteq Spots /\ ~Before(e, f) /\ f # e
          BY <2>7, <3>1, <4>1, BeforeTotal, Zenon
        <5>1. CASE Queued(f)
          <6>1. PICK i \in DOMAIN sub : sub[i] = f
            BY <5>1, Zenon DEF Queued
          <6>2. 1 < i
            <7>1. sub \in Seq(Turn \X Nat)
              BY <2>1, <2>2, Zenon DEF HubInv
            <7> QED BY <2>5, <5>0, <6>1, <7>1, SMTT(20)
          <6>3. Before(e, f) \/ f[1] \in late
            BY <2>1, <2>2, <2>5, <2>7, <2>13, <6>1, <6>2, Zenon DEF HubInv
          <6> QED BY <5>0, <6>3, Zenon
        <5>2. CASE Awaits(f)
          BY <2>2, <3>1, <5>0, <5>2, AwaitedIsAhead, Zenon
        <5>3. CASE f \in dropped
          <6>1. SUFFICES ASSUME last[1] = f[1], e[1] = f[1] PROVE FALSE
            BY <5>3, Zenon
          <6>2. {f[1], f[2], e[2], last[2]} \subseteq Nat
            BY <5>0, BeforeOrders, Zenon
          <6>3. last[2] < f[2] /\ f[2] < e[2]
            BY <4>1, <6>1, <6>2 DEF Before
          <6> QED BY <2>13, <6>1, <6>2, <6>3 DEF GapBefore
        <5> QED BY <2>10, <3>3, <4>1, <5>1, <5>2, <5>3, Zenon DEF Hubbed
      <4>2. BehindInv'
        <5>1. BehindInv
          BY <2>2, <2>7, <3>3, Zenon DEF MissInv
        <5> QED BY <2>1, <2>2, <2>3, <2>7, <2>13, <3>1, <4>1, <5>1, EmitBehind, Zenon
      <4>3. ASSUME NEW f \in Stored, Before(e, f) PROVE f[1] \in late \/ Hubbed(f)'
        <5>1. Before(last, f) /\ f # e
          BY <2>7, <2>13, <3>1, <4>3, BeforeTotal, Zenon
        <5> QED BY <2>9, <2>10, <3>3, <5>1, Zenon
      <4>4. AheadInv'
        BY <2>3, <3>1, <4>3, Zenon DEF AheadInv
      <4> QED BY <2>1, <2>7, <2>13, <4>2, <4>4, Zenon DEF PageInv
    <3> QED BY <2>1, <2>4, <3>2, <3>3, Zenon DEF MissInv
  <2> QED BY <2>6, <2>11, <2>12, <2>13, Zenon
<1> QED BY <1>1, <1>2, Zenon

-----------------------------------------------------------------------------

LEMMA MissStep ==
  CutInv /\ FrameTypes /\ OrderInv /\ WorkInv /\ HubInv /\ CursorInv /\ MissInv /\ [Next]_vars
    => HubInv' /\ CursorInv' /\ MissInv'
<1> SUFFICES ASSUME CutInv, FrameTypes, OrderInv, WorkInv, HubInv, CursorInv, MissInv, [Next]_vars
             PROVE  HubInv' /\ CursorInv' /\ MissInv'
  BY Zenon
<1>1. FrameTypes'
  BY OrderStep, Zenon
<1>2. ASSUME NEW t \in Turn,
             \/ Post(t) \/ Claim(t) \/ AppendEvent(t) \/ PublishEvent(t) \/ Reclaim(t)
             \/ \E state \in {"done", "failed"} : Answer(t, state)
      PROVE  HubInv' /\ CursorInv' /\ MissInv'
  <2>1. CASE pc = "off"
    <3>1. UNCHANGED <<pc, rows, pages, from>>
      BY <1>2, Zenon DEF Post, Claim, AppendEvent, PublishEvent, Reclaim, Answer, streamVars
    <3>2. rows = {}
      BY <2>1, Zenon DEF CutInv
    <3> QED BY <2>1, <3>1, <3>2, ZenonT(30) DEF HubInv, CursorInv, MissInv, Streaming
  <2>2. CASE pc # "off"
    <3>1. WorkEffects
      BY <1>2, <2>2, WorkerEffect, Zenon
    <3>2. CursorInv' /\ MissInv'
      BY <2>2, <3>1, WorkersMiss, Zenon
    <3> QED BY <3>1, <3>2, Zenon DEF WorkEffects
  <2> QED BY <2>1, <2>2, Zenon
<1>3. CASE \/ \E reload \in BOOLEAN : Connect(reload)
           \/ OpenTurns \/ ReadPage \/ ReadFails \/ EmitRow \/ ReplayDone \/ Receive \/ KeepAlive
           \/ Disconnect \/ Tick
           \/ \E what \in {"grant", "token"} : Revoke(what)
           \/ UNCHANGED vars
  <2>1. UNCHANGED workVars /\ budget'.frames = budget.frames
    BY <1>3, StreamIsApart, Zenon
  <2>2. StreamPre
    BY <2>1, Zenon DEF StreamPre
  <2>3. CASE ReadFails
    <3>1. /\ UNCHANGED <<sub, pc, last, rows, pend, got, from, kept>> /\ pages' = 0 /\ short' = TRUE
          /\ pc # "off"
      BY <2>3, Zenon DEF ReadFails, Replaying
    <3>2. HubInv'
      BY <2>1, <3>1, HubTaken, Zenon
    <3>3. Stored' = Stored
      BY <2>1, TableKept, Zenon
    <3> QED BY <3>1, <3>2, <3>3, Zenon DEF CursorInv, MissInv, Streaming
  <2>4. CASE KeepAlive
    <3>1. CASE Authorised
      <4>1. UNCHANGED <<sub, pc, last, rows, pages, pend, got, from, kept, dropped, short>>
        BY <2>4, <3>1, Zenon DEF KeepAlive
      <4> QED BY <2>1, <4>1, StreamStays, Zenon
    <3>2. CASE ~Authorised
      BY <2>4, <3>2, EndsMiss, Zenon DEF KeepAlive
    <3> QED BY <3>1, <3>2, Zenon
  <2>5. CASE Tick \/ (\E what \in {"grant", "token"} : Revoke(what)) \/ UNCHANGED vars
    <3>1. UNCHANGED <<sub, pc, last, rows, pages, pend, got, from, kept, dropped, short>>
      BY <2>5, Zenon DEF Tick, Revoke, vars, connVars
    <3> QED BY <2>1, <3>1, StreamStays, Zenon
  <2>6. CASE Disconnect
    BY <2>6, EndsMiss, Zenon DEF Disconnect
  <2> QED BY <1>1, <1>3, <2>2, <2>3, <2>4, <2>5, <2>6, ConnectMiss, OpenMiss, ReadMiss, RowMiss, DoneMiss, ReceiveMiss, Zenon
<1>4. CASE Crash
  BY <1>4, EndsMiss, Zenon DEF Crash
<1> QED BY <1>2, <1>3, <1>4, Zenon DEF Next

LEMMA MissInit == Init => WorkInv /\ HubInv /\ CursorInv /\ MissInv
<1> SUFFICES ASSUME Init PROVE WorkInv /\ HubInv /\ CursorInv /\ MissInv
  BY Zenon
<1>1. budget.frames \in Nat
  BY ChatStreamConstants, Zenon DEF Init
<1>2. WorkInv
  <2>1. /\ turn = [t \in Turn |-> "none"] /\ table = [t \in Turn |-> 0] /\ writer = [t \in Turn |-> "idle"]
    BY Zenon DEF Init
  <2> QED BY <1>1, <2>1 DEF WorkInv, Begun, Running
<1>3. pc = "off" /\ from = Start /\ rows = {} /\ pages = 0
  BY Zenon DEF Init
<1> QED BY <1>2, <1>3, Zenon DEF HubInv, CursorInv, MissInv, Streaming, Start, Spots

\* Nothing falls between the replay, the hub and the gaps it fills (`run`,
\* `replay`, `gap_before`): a live stream whose reads succeeded has missed only
\* frames the hub dropped, none of them between two frames of one turn it was
\* sent, and frames of a turn reclaimed under its worker; for any number of turns,
\* any buffer and any page.
THEOREM OnlyDroppedIsMissed == Spec => []MissedOnlyIfDropped
<1>1. CutInv /\ FrameTypes /\ OrderInv /\ WorkInv /\ HubInv /\ CursorInv /\ MissInv => MissedOnlyIfDropped
  <2> SUFFICES ASSUME CutInv, FrameTypes, OrderInv, WorkInv, CursorInv, MissInv, pc = "live", ~short,
                      NEW f \in Stored, Missing(f)
               PROVE  f[1] \in late \/ (f \in dropped /\ ~Inside(f))
    BY Zenon DEF MissedOnlyIfDropped
  <2>1. BehindInv /\ AheadInv /\ rows = {}
    BY Zenon DEF MissInv, Streaming, CutInv
  <2>2. Before(from, f) /\ ~Sent(f) /\ ~Queued(f) /\ ~Awaits(f)
    BY Zenon DEF Missing, Awaits
  <2>3. CASE ~Before(last, f)
    BY <2>1, <2>2, <2>3, Zenon DEF BehindInv
  <2>4. CASE Before(last, f)
    <3>1. f[1] \in late \/ f \in dropped
      BY <2>1, <2>2, <2>4, Zenon DEF AheadInv, Hubbed
    <3>2. ASSUME Inside(f) PROVE FALSE
      <4>1. got \in Seq(Frames) /\ kept \in 0..Len(got) /\ Len(got) \in Nat /\ last \in Spots /\ DOMAIN got = 1..Len(got)
        BY DEF FrameTypes
      <4>2. PICK i \in (kept + 1)..(Len(got) - 1) : Before(f, got[i + 1])
        BY <3>2, Zenon DEF Inside
      <4>3. i + 1 \in DOMAIN got
        BY <4>1
      <4>4. ~Before(last, got[i + 1]) /\ got[i + 1] \in Spots /\ f \in Spots
        BY <4>1, <4>3, StoredSpots, BeforeOrders DEF OrderInv
      <4> QED BY <2>4, <4>1, <4>2, <4>4, BeforeTotal, Zenon
    <3> QED BY <3>1, <3>2, Zenon
  <2> QED BY <2>3, <2>4, Zenon
<1> QED BY <1>1, ChatStreamInit, MissInit, CutInvStep, OrderStep, WorkStep, MissStep, PTL DEF Spec
=============================================================================
