------------------------ MODULE EventClients_proofs ------------------------
(***************************************************************************)
(* The invariant behind the theorems about the streams over the event log  *)
(* (EventStream_proofs), and what keeps it while a client joins, starts,   *)
(* replays, receives, resynchronises, idles and ends.                      *)
(*                                                                         *)
(* What a client may resume from rests on how long a row can take to reach *)
(* it: the transaction, the cycles that may fail, and every place between  *)
(* the hub and the client a batch may wait in.  The invariant follows each *)
(* row through those places, one client at a time.                         *)
(***************************************************************************)
EXTENDS EventStream, EventLogInv, TLAPS

-----------------------------------------------------------------------------
(* The bus under its streams                                                *)

\* n times what a batch may wait in a queue or a writer.
Wait(n) == n * Lag

\* The longest a visible row goes unread.
Prompt == MaxTx + Late(MaxFaults + 2)

\* The overlap is longer than a row needs from its timestamp to the client: the
\* transaction, the cycles that may fail, and every place it may wait in.
OverlapCovers == Overlap > MaxTx + (MaxFaults + 2) * Poll + (Buffer + 2) * Lag

\* Products of durations.
LEMMA TimesGrows ==
  ASSUME NEW d \in Nat
  PROVE  \A m, n \in Nat : m <= n => m * d <= n * d
<1> SUFFICES ASSUME NEW m \in Nat, NEW n \in Nat, m <= n PROVE m * d <= n * d
  BY Zenon
<1>1. PICK k \in Nat : n = m + k
  <2>1. n - m \in Nat /\ n = m + (n - m)
    OBVIOUS
  <2> QED BY <2>1, Zenon
<1>2. n * d = m * d + k * d /\ k * d \in Nat /\ m * d \in Nat
  BY <1>1
<1> QED BY <1>2

LEMMA WaitTypes == \A n \in Nat : Wait(n) \in Nat /\ Wait(n + 1) = Wait(n) + Lag
BY StreamConstants DEF Wait

LEMMA WaitGrows == \A m, n \in Nat : m <= n => Wait(m) <= Wait(n)
BY TimesGrows, StreamConstants, Zenon DEF Wait

LEMMA CycleTypes == \A n \in Nat : Late(n) \in Nat /\ Late(n + 1) = Late(n) + Poll
BY LogConstants DEF Late

LEMMA CycleGrows == \A m, n \in Nat : m <= n => Late(m) <= Late(n)
BY TimesGrows, LogConstants, Zenon DEF Late

\* Rows, and where they are.
LEMMA RowTypes ==
  ASSUME BusInv
  PROVE  /\ Visible \subseteq Inserted /\ Inserted \subseteq Events
         /\ \A e \in Events : at[e] \in Nat /\ id[e] \in Nat /\ Pos(e) \in Positions
                              /\ Pos(e)[1] = at[e] /\ Pos(e)[2] = id[e]
BY Zenon DEF BusInv, LogInv, TypeOK, Pos, Positions, Visible, Inserted

LEMMA OverlapBounds ==
  ASSUME OverlapCovers
  PROVE  /\ Prompt \in Nat /\ Overlap \in Nat /\ Overlap > Prompt + Wait(Buffer + 2)
         /\ Overlap >= MaxTx + (MaxFaults + 1) * Poll
<1>1. MaxTx \in Nat /\ MaxFaults \in Nat /\ Poll \in Nat /\ Overlap \in Nat /\ Buffer \in Nat
  BY LogConstants, StreamConstants, Zenon
<1>2. Overlap > MaxTx + Late(MaxFaults + 2) + Wait(Buffer + 2)
  BY Zenon DEF OverlapCovers, Late, Wait
<1>3. MaxFaults + 1 \in Nat /\ MaxFaults + 2 = (MaxFaults + 1) + 1 /\ Buffer + 2 \in Nat
  BY <1>1
<1>4. /\ Late(MaxFaults + 1) \in Nat /\ Late(MaxFaults + 2) = Late(MaxFaults + 1) + Poll
      /\ Wait(Buffer + 2) \in Nat
  BY <1>3, CycleTypes, WaitTypes, Zenon
<1>5. Overlap >= MaxTx + Late(MaxFaults + 1)
  BY <1>1, <1>2, <1>4
<1> QED BY <1>1, <1>2, <1>4, <1>5 DEF Prompt, Late

\* A visible row nobody has read is recent, and what the watermark covers has
\* been read.
LEMMA UnreadIsRecent ==
  ASSUME BusInv, tpc # "boot", NEW e \in Visible, ~Delivered(e)
  PROVE  clock <= at[e] + Prompt
<1>1. /\ MaxTx \in Nat /\ MaxFaults \in Nat /\ Poll \in Nat /\ at[e] \in Nat
      /\ clock \in Nat /\ cycled \in Nat /\ clock <= cycled + Poll /\ logFaults <= MaxFaults /\ logFaults \in Nat
  BY LogConstants, RowTypes, Zenon DEF BusInv, LogInv, TypeOK, ClockInv
<1>2. Cycles(e) \in Nat /\ Cycles(e) + 1 <= MaxFaults + 2 /\ MaxFaults + 2 \in Nat /\ Cycles(e) + 1 \in Nat
  BY <1>1 DEF Cycles
<1>3. /\ Late(Cycles(e)) \in Nat /\ Late(Cycles(e) + 1) = Late(Cycles(e)) + Poll
      /\ Late(MaxFaults + 2) \in Nat /\ Late(Cycles(e) + 1) <= Late(MaxFaults + 2)
  BY <1>2, CycleTypes, CycleGrows, Zenon
<1>4. cycled <= at[e] + MaxTx + Late(Cycles(e))
  BY Zenon DEF BusInv, PromptInv
<1> QED BY <1>1, <1>3, <1>4 DEF Prompt

LEMMA SettledIsRead ==
  ASSUME OverlapCovers, BusInv, NEW e \in Live, at[e] <= settled
  PROVE  e \in Visible /\ Delivered(e) /\ at[e] + Overlap <= clock /\ tpc # "boot"
<1>1. e \in Events /\ e \in Inserted /\ row[e] \in {"open", "committed"} /\ at[e] \in Nat
  BY RowTypes, Zenon DEF BusInv, LogInv, Live, Inserted
<1>2. /\ settled \in Nat /\ settled + Overlap <= clock /\ clock \in Nat /\ MaxTx \in Nat /\ cursor \in Positions
      /\ settled <= cursor[1]
  BY LogConstants, Zenon DEF BusInv, LogInv, TypeOK, ClockInv, ReadInv
<1>3. Prompt \in Nat /\ Overlap \in Nat /\ Overlap > Prompt /\ Prompt >= MaxTx
  <2>1. MaxFaults + 2 \in Nat /\ Buffer + 2 \in Nat
    BY LogConstants, StreamConstants
  <2>2. Late(MaxFaults + 2) \in Nat /\ Wait(Buffer + 2) \in Nat
    BY <2>1, CycleTypes, WaitTypes, Zenon
  <2>3. Prompt \in Nat /\ Overlap \in Nat /\ Overlap > Prompt + Wait(Buffer + 2)
    BY OverlapBounds, Zenon
  <2> QED BY <1>2, <2>2, <2>3 DEF Prompt
<1>4. at[e] > Overlap
  BY <1>1, Zenon DEF BusInv, LogInv, OrderInv
<1>5. tpc # "boot"
  <2>1. cursor # Zero
    BY <1>1, <1>2, <1>3, <1>4 DEF Zero
  <2> QED BY <2>1, Zenon DEF BusInv, LogInv, ReadInv
<1>6. row[e] # "open"
  <2> SUFFICES ASSUME row[e] = "open" PROVE FALSE
    BY Zenon
  <2>1. clock <= at[e] + MaxTx
    BY <1>1, Zenon DEF BusInv, LogInv, ClockInv
  <2> QED BY <1>1, <1>2, <1>3, <2>1
<1>7. e \in Visible
  BY <1>1, <1>6, Zenon DEF Visible
<1>8. Delivered(e)
  <2> SUFFICES ASSUME ~Delivered(e) PROVE FALSE
    BY Zenon
  <2>1. clock <= at[e] + Prompt
    BY <1>5, <1>7, UnreadIsRecent, Zenon
  <2> QED BY <1>1, <1>2, <1>3, <2>1
<1>9. at[e] + Overlap <= clock
  BY <1>1, <1>2, <1>3
<1> QED BY <1>5, <1>7, <1>8, <1>9, Zenon

-----------------------------------------------------------------------------
(* A stream                                                                 *)

StreamType ==
  /\ spc \in [Clients -> {"off", "joined", "replay", "live"}] /\ member \in [Clients -> BOOLEAN]
  /\ queue \in [Clients -> Seq(SUBSET Events)]
  /\ todo \in [Clients -> SUBSET Events] /\ sent \in [Clients -> SUBSET Events]
  /\ got \in [Clients -> SUBSET Events] /\ before \in [Clients -> SUBSET Events]
  /\ lastSafe \in [Clients -> Positions] /\ held \in [Clients -> Positions]
  /\ wrote \in [Clients -> [Events -> Nat]] /\ since \in [Clients -> Nat]

InQueue(c, e) == \E i \in 1..Len(queue[c]) : e \in queue[c][i]
Busy(c) == IF spc[c] \in {"joined", "replay"} \/ todo[c] # {} THEN 1 ELSE 0

\* When the work c is at arrived, e was no older than n waits after it was read.
Waited(c, e, n) == since[c] <= at[e] + Prompt + Wait(n)

\* The hub gave up on c before it could hand it e.
Lost(c, e) == ~member[c] /\ e \notin skipped /\ Waited(c, e, Buffer + 1 - Len(queue[c]) - Busy(c))

\* What a stream holds in each of its states.
StateInv(c) ==
  /\ spc[c] = "off" => ~member[c] /\ queue[c] = <<>>
  /\ spc[c] \in {"off", "joined"} => /\ todo[c] = {} /\ sent[c] = {} /\ lastSafe[c] = Zero
                                     /\ \A e \in Events : wrote[c][e] = 0
  /\ spc[c] = "replay" => todo[c] # {}
  /\ tpc = "boot" => spc[c] = "off"
  /\ Len(queue[c]) <= Buffer
  /\ todo[c] \cup sent[c] \subseteq Visible
  /\ since[c] <= clock
  /\ spc[c] = "off" \/ (spc[c] = "live" /\ Idle(c)) \/ clock <= since[c] + Lag

\* What waits for c was handed out once and is recent, by its place in the queue.
QueueInv(c) ==
  /\ \A i \in 1..Len(queue[c]) : \A e \in queue[c][i] :
       handed[e] = 1 /\ (e \notin skipped => Waited(c, e, Buffer + 1 - i - Busy(c)))
  /\ spc[c] = "live" => \A e \in todo[c] : handed[e] = 1 /\ (e \notin skipped => Waited(c, e, Buffer))

\* What was handed out has reached c, is on its way, or was lost recently.
CoverInv(c) ==
  spc[c] \in {"replay", "live"} \/ (spc[c] = "joined" /\ held[c] = Zero) =>
    \A e \in Events : Delivered(e) =>
      \/ e \in got[c] \cup before[c] \cup todo[c]
      \/ e \notin skipped /\ InQueue(c, e)
      \/ Lost(c, e)

\* Nothing is missing at or below a position c may resume from.
Reaches(c, p) ==
  \A e \in Live : p # Zero /\ ~Before(p, Pos(e)) =>
    e \in Visible /\ e \in got[c] \cup before[c] /\ (tpc # "boot" => Delivered(e))

ResumeInv(c) ==
  /\ held[c][1] + Overlap <= clock /\ Reaches(c, held[c])
  /\ lastSafe[c][1] + Overlap <= clock /\ Reaches(c, lastSafe[c])

\* What was written and may arrive again is in the stream's dedupe set.  Batches
\* queue up within an overlap of each other, and one holds all the rows that the
\* start counted as delivered.
WriteInv(c) ==
  /\ \A e \in todo[c] : wrote[c][e] = 0
  /\ sent[c] \subseteq got[c]
  /\ \A e \in Events : wrote[c][e] <= 1
  /\ \A e \in Events : wrote[c][e] = 1 => e \in Visible /\ (Awaited(e) \/ InQueue(c, e) => e \in sent[c])
  /\ \A i, j \in 1..Len(queue[c]) : \A e \in queue[c][i], x \in queue[c][j] :
       i < j => at[e] <= at[x] + Overlap /\ e # x /\ (e \in skipped => x \notin skipped)
  /\ spc[c] = "live" => \A j \in 1..Len(queue[c]) : \A e \in todo[c], x \in queue[c][j] :
       at[e] <= at[x] + Overlap /\ e # x /\ (e \in skipped => x \notin skipped)

ClientInv(c) == StateInv(c) /\ QueueInv(c) /\ CoverInv(c) /\ ResumeInv(c) /\ WriteInv(c)

StreamInv == BusInv /\ StreamType /\ \A c \in Clients : ClientInv(c)

logView == <<clock, row, at, id, tpc, cursor, seen, settled, handed, skipped>>
clientView(c) == <<spc[c], member[c], queue[c], todo[c], sent[c], lastSafe[c], held[c], got[c],
                   before[c], wrote[c], since[c]>>

LEMMA SameLog ==
  ASSUME UNCHANGED logView
  PROVE  /\ UNCHANGED <<clock, row, at, id, tpc, cursor, seen, settled, handed, skipped>>
         /\ Visible' = Visible /\ Live' = Live
         /\ \A e : Pos(e)' = Pos(e) /\ (Delivered(e)' <=> Delivered(e)) /\ (Awaited(e)' <=> Awaited(e))
BY Zenon DEF logView, Visible, Live, Pos, Delivered, Awaited

\* Nothing WriteInv is about changes.
LEMMA WriteKept ==
  ASSUME NEW c, WriteInv(c), UNCHANGED <<at, skipped>>, Visible' = Visible,
         \A e : Awaited(e)' <=> Awaited(e), spc'[c] = spc[c], queue'[c] = queue[c], todo'[c] = todo[c],
         sent'[c] = sent[c], got'[c] = got[c], wrote'[c] = wrote[c]
  PROVE  WriteInv(c)'
<1>1. \A e : InQueue(c, e)' <=> InQueue(c, e)
  BY Zenon DEF InQueue
<1> QED BY <1>1, ZenonT(30) DEF WriteInv

\* What c wrote and what waits for it stays in order when the rows it holds keep their times.
LEMMA WriteStays ==
  ASSUME NEW c, WriteInv(c), skipped' = skipped, spc'[c] = spc[c], queue'[c] = queue[c], todo'[c] = todo[c],
         sent'[c] = sent[c], got'[c] = got[c], wrote'[c] = wrote[c],
         \A e \in todo[c] : at'[e] = at[e],
         \A i \in 1..Len(queue[c]) : \A e \in queue[c][i] : at'[e] = at[e],
         \A e \in Events : wrote[c][e] = 1 => e \in Visible' /\ (Awaited(e)' \/ InQueue(c, e) => e \in sent[c])
  PROVE  WriteInv(c)'
<1>1. \A e \in Events : InQueue(c, e)' <=> InQueue(c, e)
  BY Zenon DEF InQueue
<1>2. /\ \A e \in todo'[c] : wrote'[c][e] = 0
      /\ sent'[c] \subseteq got'[c]
      /\ \A e \in Events : wrote'[c][e] <= 1
  BY Zenon DEF WriteInv
<1>3. \A e \in Events : wrote'[c][e] = 1 => e \in Visible' /\ (Awaited(e)' \/ InQueue(c, e)' => e \in sent'[c])
  BY <1>1, Zenon
<1>4. ASSUME NEW i \in 1..Len(queue'[c]), NEW j \in 1..Len(queue'[c]), NEW e \in queue'[c][i], NEW x \in queue'[c][j],
             i < j
      PROVE  at'[e] <= at'[x] + Overlap /\ e # x /\ (e \in skipped' => x \notin skipped')
  <2>1. i \in 1..Len(queue[c]) /\ j \in 1..Len(queue[c]) /\ e \in queue[c][i] /\ x \in queue[c][j]
    BY <1>4, Zenon
  <2>2. at[e] <= at[x] + Overlap /\ e # x /\ (e \in skipped => x \notin skipped)
    BY <1>4, <2>1, Zenon DEF WriteInv
  <2>3. at'[e] = at[e] /\ at'[x] = at[x]
    BY <2>1, Zenon
  <2> QED BY <2>2, <2>3, Zenon
<1>5. ASSUME spc'[c] = "live", NEW j \in 1..Len(queue'[c]), NEW e \in todo'[c], NEW x \in queue'[c][j]
      PROVE  at'[e] <= at'[x] + Overlap /\ e # x /\ (e \in skipped' => x \notin skipped')
  <2>1. spc[c] = "live" /\ j \in 1..Len(queue[c]) /\ e \in todo[c] /\ x \in queue[c][j]
    BY <1>5, Zenon
  <2>2. at[e] <= at[x] + Overlap /\ e # x /\ (e \in skipped => x \notin skipped)
    BY <2>1, Zenon DEF WriteInv
  <2>3. at'[e] = at[e] /\ at'[x] = at[x]
    BY <2>1, Zenon
  <2> QED BY <2>2, <2>3, Zenon
<1> QED BY <1>2, <1>3, <1>4, <1>5, ZenonT(30) DEF WriteInv

\* A step that is not c's and changes nothing c depends on.
LEMMA OtherClient ==
  ASSUME NEW c \in Clients, ClientInv(c), UNCHANGED <<clock, row, at, id, cursor, seen, settled, handed, skipped>>,
         tpc = "boot" <=> tpc' = "boot", UNCHANGED clientView(c)
  PROVE  ClientInv(c)'
<1>1. /\ Visible' = Visible /\ Live' = Live
      /\ \A e : Pos(e)' = Pos(e) /\ (Delivered(e)' <=> Delivered(e)) /\ (Awaited(e)' <=> Awaited(e))
  BY Zenon DEF Visible, Live, Pos, Delivered, Awaited
<1>2. /\ spc'[c] = spc[c] /\ member'[c] = member[c] /\ queue'[c] = queue[c] /\ todo'[c] = todo[c]
      /\ sent'[c] = sent[c] /\ lastSafe'[c] = lastSafe[c] /\ held'[c] = held[c] /\ got'[c] = got[c]
      /\ before'[c] = before[c] /\ wrote'[c] = wrote[c] /\ since'[c] = since[c]
  BY Zenon DEF clientView
<1>3. Busy(c)' = Busy(c) /\ \A e : InQueue(c, e)' <=> InQueue(c, e)
  BY <1>2, Zenon DEF Busy, InQueue
<1>4. \A e, n : Waited(c, e, n)' <=> Waited(c, e, n)
  BY <1>1, <1>2, Zenon DEF Waited
<1>5. \A e : Lost(c, e)' <=> Lost(c, e)
  BY <1>1, <1>2, <1>3, Zenon DEF Lost, Waited
<1>6. StateInv(c)'
  BY <1>1, <1>2, Zenon DEF ClientInv, StateInv, Idle
<1>7. QueueInv(c)'
  BY <1>1, <1>2, <1>3, Zenon DEF ClientInv, QueueInv, Waited
<1>8. CoverInv(c)'
  BY <1>1, <1>2, <1>3, <1>5, Zenon DEF ClientInv, CoverInv
<1>9. ResumeInv(c)'
  BY <1>1, <1>2, Zenon DEF ClientInv, ResumeInv, Reaches
<1>10. WriteInv(c)'
  BY <1>1, <1>2, WriteKept, ZenonT(30) DEF ClientInv
<1> QED BY <1>6, <1>7, <1>8, <1>9, <1>10, Zenon DEF ClientInv

LEMMA ZeroOne == 0 <= 1 /\ 0 # 1
OBVIOUS

LEMMA OneOrNone == \A k \in Nat : k <= 1 /\ k # 1 => k = 0
OBVIOUS

\* A stream with nothing queued, nothing to send and nothing written.
LEMMA NothingQueued ==
  ASSUME NEW c, queue'[c] = <<>>, todo'[c] = {}, sent'[c] = {}, \A e \in Events : wrote'[c][e] = 0
  PROVE  QueueInv(c)' /\ WriteInv(c)' /\ Len(queue'[c]) = 0
<1>1. 1..Len(queue'[c]) = {} /\ Len(queue'[c]) = 0
  OBVIOUS
<1>2. WriteInv(c)'
  BY <1>1, ZeroOne, ZenonT(30) DEF WriteInv
<1> QED BY <1>1, <1>2, ZenonT(30) DEF QueueInv

LEMMA WaitLine ==
  ASSUME NEW s \in Nat, NEW a \in Nat, NEW n \in Nat, s <= a + Prompt + Wait(n)
  PROVE  /\ \A m \in Nat : n <= m => s <= a + Prompt + Wait(m)
         /\ \A t \in Nat : t <= s + Lag => t <= a + Prompt + Wait(n + 1)
<1>1. Prompt \in Nat
  <2>1. MaxTx \in Nat /\ MaxFaults + 2 \in Nat
    BY LogConstants
  <2> QED BY <2>1, CycleTypes DEF Prompt
<1>2. Wait(n) \in Nat /\ Wait(n + 1) = Wait(n) + Lag /\ Lag \in Nat
  BY WaitTypes, StreamConstants, Zenon
<1>3. ASSUME NEW m \in Nat, n <= m PROVE s <= a + Prompt + Wait(m)
  <2>1. Wait(n) <= Wait(m) /\ Wait(m) \in Nat
    BY <1>3, WaitTypes, WaitGrows, ZenonT(30)
  <2> QED BY <1>1, <1>2, <2>1
<1> QED BY <1>1, <1>2, <1>3

LEMMA WaitedIsRecent ==
  ASSUME OverlapCovers, NEW s \in Nat, NEW a \in Nat, NEW t \in Nat, NEW n \in Nat,
         n <= Buffer + 1, s <= a + Prompt + Wait(n), t <= s + Lag
  PROVE  t < a + Overlap
<1>1. Buffer + 1 \in Nat /\ Buffer + 2 = (Buffer + 1) + 1 /\ Buffer + 2 \in Nat
  BY StreamConstants
<1>2. s <= a + Prompt + Wait(Buffer + 1)
  BY <1>1, WaitLine, Zenon
<1>3. t <= a + Prompt + Wait(Buffer + 2)
  BY <1>1, <1>2, WaitLine, Zenon
<1>4. Prompt \in Nat /\ Overlap \in Nat /\ Overlap > Prompt + Wait(Buffer + 2) /\ Wait(Buffer + 2) \in Nat
  BY <1>1, OverlapBounds, WaitTypes, Zenon
<1> QED BY <1>3, <1>4

LEMMA ClientTypes ==
  ASSUME StreamInv, NEW c \in Clients
  PROVE  /\ spc[c] \in {"off", "joined", "replay", "live"} /\ member[c] \in BOOLEAN
         /\ queue[c] \in Seq(SUBSET Events) /\ Len(queue[c]) \in Nat /\ Len(queue[c]) <= Buffer
         /\ \A i \in 1..Len(queue[c]) : queue[c][i] \subseteq Events
         /\ todo[c] \subseteq Events /\ sent[c] \subseteq Events
         /\ got[c] \subseteq Events /\ before[c] \subseteq Events
         /\ lastSafe[c] \in Positions /\ held[c] \in Positions
         /\ wrote[c] \in [Events -> Nat] /\ since[c] \in Nat
         /\ Busy(c) \in {0, 1} /\ Buffer \in Nat /\ Lag \in Nat /\ Overlap \in Nat /\ clock \in Nat /\ settled \in Nat
         /\ \A e \in Events : at[e] \in Nat /\ id[e] \in Nat /\ handed[e] \in Nat /\ Pos(e) \in Positions
<1>1. Len(queue[c]) <= Buffer
  BY Zenon DEF StreamInv, ClientInv, StateInv
<1>2. queue[c] \in Seq(SUBSET Events)
  BY Zenon DEF StreamInv, StreamType
<1>3. Len(queue[c]) \in Nat /\ \A i \in 1..Len(queue[c]) : queue[c][i] \subseteq Events
  BY <1>2
<1>4. Busy(c) \in {0, 1}
  BY Zenon DEF Busy
<1>5. \A e \in Events : at[e] \in Nat /\ id[e] \in Nat /\ Pos(e) \in Positions
  BY RowTypes, Zenon DEF StreamInv, BusInv, LogInv
<1> QED BY <1>1, <1>2, <1>3, <1>4, <1>5, LogConstants, StreamConstants, Zenon DEF StreamInv, StreamType, BusInv, LogInv, TypeOK

\* The clock is past the overlap, so a resume from the start is in the past.
LEMMA PastOverlap ==
  ASSUME StreamInv, NEW c \in Clients
  PROVE  /\ since[c] <= clock /\ Buffer \in Nat /\ Overlap \in Nat /\ clock \in Nat /\ Overlap <= clock
         /\ Zero[1] = 0 /\ Zero[1] + Overlap <= clock /\ Len(<<>>) = 0
<1>1. since[c] <= clock /\ Buffer \in Nat /\ Overlap \in Nat /\ clock \in Nat
  BY ClientTypes, Zenon DEF StreamInv, ClientInv, StateInv
<1>2. clock > Overlap
  BY Zenon DEF StreamInv, BusInv, LogInv, ClockInv
<1>3. Zero[1] = 0 /\ Len(<<>>) = 0
  BY DEF Zero
<1>4. Overlap <= clock /\ 0 + Overlap <= clock
  BY <1>1, <1>2
<1> QED BY <1>1, <1>3, <1>4, Zenon

\* What waits or was lost is recent, so what is not has reached the stream.
LEMMA OldIsCovered ==
  ASSUME OverlapCovers, StreamInv, NEW c \in Clients, NEW e \in Events, Delivered(e), at[e] + Overlap <= clock,
         spc[c] \in {"replay", "live"} \/ (spc[c] = "joined" /\ held[c] = Zero)
  PROVE  e \in got[c] \cup before[c] \cup todo[c]
<1>1. /\ spc[c] # "off"
      /\ (spc[c] = "live" /\ queue[c] = <<>> /\ todo[c] = {} /\ member[c]) \/ clock <= since[c] + Lag
  BY Zenon DEF StreamInv, ClientInv, StateInv, Idle
<1>2. /\ at[e] \in Nat /\ since[c] \in Nat /\ clock \in Nat /\ Overlap \in Nat /\ Busy(c) \in {0, 1} /\ Buffer \in Nat
      /\ Len(queue[c]) \in Nat /\ Len(queue[c]) <= Buffer
  BY ClientTypes, Zenon
<1>3. ASSUME NEW n \in Nat, n <= Buffer + 1, Waited(c, e, n), clock <= since[c] + Lag PROVE FALSE
  <2>1. clock < at[e] + Overlap
    BY <1>2, <1>3, WaitedIsRecent, Zenon DEF Waited
  <2> QED BY <1>2, <2>1
<1>4. ASSUME e \notin skipped, InQueue(c, e) PROVE FALSE
  <2>1. PICK i \in 1..Len(queue[c]) : e \in queue[c][i]
    BY <1>4, Zenon DEF InQueue
  <2>2. Waited(c, e, Buffer + 1 - i - Busy(c))
    BY <1>4, <2>1, Zenon DEF StreamInv, ClientInv, QueueInv
  <2>3. Buffer + 1 - i - Busy(c) \in Nat /\ Buffer + 1 - i - Busy(c) <= Buffer + 1
    BY <1>2, <2>1
  <2>4. queue[c] # <<>>
    BY <1>2, <2>1
  <2> QED BY <1>1, <1>3, <2>2, <2>3, <2>4, Zenon
<1>5. ASSUME Lost(c, e) PROVE FALSE
  <2>1. ~member[c] /\ Waited(c, e, Buffer + 1 - Len(queue[c]) - Busy(c))
    BY <1>5, Zenon DEF Lost
  <2>2. Buffer + 1 - Len(queue[c]) - Busy(c) \in Nat /\ Buffer + 1 - Len(queue[c]) - Busy(c) <= Buffer + 1
    BY <1>2
  <2> QED BY <1>1, <1>3, <2>1, <2>2, Zenon
<1> QED BY <1>4, <1>5, Zenon DEF StreamInv, ClientInv, CoverInv

\* The watermark is a position a stream that wrote what it held may resume from.
LEMMA WatermarkIsBehind ==
  ASSUME OverlapCovers, StreamInv, NEW e \in Live, ~Before(<<settled, 0>>, Pos(e))
  PROVE  e \in Visible /\ Delivered(e) /\ at[e] + Overlap <= clock
<1>1. e \in Inserted /\ e \in Events
  BY Zenon DEF Live, Inserted
<1>2. at[e] \in Nat /\ settled \in Nat /\ id[e] \in Nat
  BY <1>1, RowTypes, Zenon DEF StreamInv, BusInv, LogInv, TypeOK
<1>3. at[e] <= settled
  BY <1>2 DEF Before, Pos
<1> QED BY <1>3, SettledIsRead, Zenon DEF StreamInv

LEMMA JoinKeeps ==
  ASSUME ReadyFirst, StreamInv, NEW c \in Clients, Join(c)
  PROVE  ClientInv(c)'
<1>1. UNCHANGED logView /\ tpc # "boot" /\ spc[c] = "off"
  BY Zenon DEF Join, logVars, writerVars, tailVars, logView
<1>2. /\ spc'[c] = "joined" /\ member'[c] = TRUE /\ since'[c] = clock
      /\ before'[c] = (IF held[c] = Zero THEN Past ELSE before[c])
      /\ queue'[c] = queue[c] /\ todo'[c] = todo[c] /\ sent'[c] = sent[c] /\ lastSafe'[c] = lastSafe[c]
      /\ held'[c] = held[c] /\ got'[c] = got[c] /\ wrote'[c] = wrote[c]
  BY Zenon DEF Join, StreamInv, StreamType
<1>3. /\ UNCHANGED <<clock, row, at, id, tpc, cursor, seen, settled, handed, skipped>>
      /\ Visible' = Visible /\ Live' = Live
      /\ \A e : Pos(e)' = Pos(e) /\ (Delivered(e)' <=> Delivered(e)) /\ (Awaited(e)' <=> Awaited(e))
  BY <1>1, SameLog, Zenon
<1>4. /\ queue[c] = <<>> /\ todo[c] = {} /\ sent[c] = {} /\ lastSafe[c] = Zero /\ (\A e \in Events : wrote[c][e] = 0)
      /\ Len(queue[c]) = 0
  BY <1>1 DEF StreamInv, ClientInv, StateInv
<1>5. clock \in Nat /\ Lag \in Nat /\ Buffer \in Nat
  BY ClientTypes, Zenon
<1>6. StateInv(c)'
  BY <1>1, <1>2, <1>3, <1>4, <1>5 DEF StateInv
<1>7. QueueInv(c)' /\ WriteInv(c)'
  BY <1>2, <1>4, NothingQueued, ZenonT(30)
<1>8. CoverInv(c)'
  BY <1>1, <1>2, <1>3, ZenonT(30) DEF CoverInv, Past
<1>9. ResumeInv(c)'
  BY <1>2, <1>3, <1>4, ZenonT(30) DEF StreamInv, ClientInv, ResumeInv, Reaches
<1> QED BY <1>6, <1>7, <1>8, <1>9, Zenon DEF ClientInv

\* A stream leaves its first state: its queue stays, and it is less busy or not
\* more.
LEMMA StartWaits ==
  ASSUME StreamInv, NEW c \in Clients, UNCHANGED logView, spc[c] = "joined", spc'[c] \in {"live", "replay"},
         queue'[c] = queue[c], member'[c] = member[c], since'[c] = since[c],
         spc'[c] = "live" => todo'[c] = {}
  PROVE  /\ QueueInv(c)' /\ \A e \in Events : Lost(c, e) => Lost(c, e)'
         /\ \A e : InQueue(c, e)' <=> InQueue(c, e)
<1>1. /\ UNCHANGED <<at, handed, skipped>>
  BY SameLog, Zenon
<1>2. /\ since[c] \in Nat /\ Busy(c) = 1 /\ Busy(c)' \in {0, 1} /\ Len(queue[c]) \in Nat /\ Len(queue[c]) <= Buffer /\ Buffer \in Nat
      /\ (\A e \in Events : at[e] \in Nat) /\ \A i \in 1..Len(queue[c]) : queue[c][i] \subseteq Events
  BY ClientTypes, Zenon DEF Busy
<1>3. ASSUME NEW e \in Events, NEW i \in 0..Buffer, Waited(c, e, Buffer + 1 - i - Busy(c))
      PROVE  Waited(c, e, Buffer + 1 - i - Busy(c))'
  <2>1. Buffer + 1 - i - Busy(c) \in Nat /\ Buffer + 1 - i - Busy(c)' \in Nat
        /\ Buffer + 1 - i - Busy(c) <= Buffer + 1 - i - Busy(c)'
    BY <1>2
  <2>2. since[c] <= at[e] + Prompt + Wait(Buffer + 1 - i - Busy(c))
    BY <1>3, Zenon DEF Waited
  <2>3. since[c] <= at[e] + Prompt + Wait(Buffer + 1 - i - Busy(c)')
    BY <1>2, <2>1, <2>2, WaitLine, Zenon
  <2> QED BY <1>1, <2>3, Zenon DEF Waited
<1>4. QueueInv(c)'
  <2>1. ASSUME NEW i \in 1..Len(queue[c]), NEW e \in queue[c][i]
        PROVE  handed[e] = 1 /\ (e \notin skipped => Waited(c, e, Buffer + 1 - i - Busy(c))')
    <3>1. handed[e] = 1 /\ (e \notin skipped => Waited(c, e, Buffer + 1 - i - Busy(c)))
      BY Zenon DEF StreamInv, ClientInv, QueueInv
    <3>2. i \in 0..Buffer /\ e \in Events
      BY <1>2
    <3> QED BY <1>3, <3>1, <3>2, Zenon
  <2> QED BY <1>1, <2>1, Zenon DEF QueueInv
<1>5. ASSUME NEW e \in Events, Lost(c, e) PROVE Lost(c, e)'
  <2>1. Len(queue[c]) \in 0..Buffer
    BY <1>2
  <2>2. Waited(c, e, Buffer + 1 - Len(queue[c]) - Busy(c))
    BY <1>5, Zenon DEF Lost
  <2>3. Waited(c, e, Buffer + 1 - Len(queue[c]) - Busy(c))'
    BY <1>3, <2>1, <2>2, ZenonT(30) DEF Waited
  <2> QED BY <1>1, <1>5, <2>3, ZenonT(30) DEF Lost
<1> QED BY <1>4, <1>5, ZenonT(30) DEF InQueue

LEMMA StartFreshKeeps ==
  ASSUME OverlapCovers, StreamInv, NEW c \in Clients, StartFresh(c)
  PROVE  ClientInv(c)'
<1>1. UNCHANGED logView /\ spc[c] = "joined" /\ held[c] = Zero
  BY ZenonT(30) DEF StartFresh, logVars, writerVars, tailVars, logView
<1>2. /\ spc'[c] = "live" /\ lastSafe'[c] = <<settled, 0>>
      /\ member'[c] = member[c] /\ since'[c] = since[c] /\ before'[c] = before[c]
      /\ queue'[c] = queue[c] /\ todo'[c] = todo[c] /\ sent'[c] = sent[c]
      /\ held'[c] = held[c] /\ got'[c] = got[c] /\ wrote'[c] = wrote[c]
  BY Zenon DEF StartFresh, StreamInv, StreamType
<1>3. /\ UNCHANGED <<clock, row, at, id, tpc, cursor, seen, settled, handed, skipped>>
      /\ Visible' = Visible /\ Live' = Live
      /\ \A e : Pos(e)' = Pos(e) /\ (Delivered(e)' <=> Delivered(e)) /\ (Awaited(e)' <=> Awaited(e))
  BY <1>1, SameLog, Zenon
<1>4. todo[c] = {} /\ sent[c] = {} /\ (\A e \in Events : wrote[c][e] = 0) /\ tpc # "boot"
  BY <1>1, Zenon DEF StreamInv, ClientInv, StateInv
<1>5. /\ QueueInv(c)' /\ (\A e \in Events : Lost(c, e) => Lost(c, e)')
      /\ \A e : InQueue(c, e)' <=> InQueue(c, e)
  BY <1>1, <1>2, <1>4, StartWaits, Zenon
<1>6. StateInv(c)'
  <2>1. Len(queue[c]) <= Buffer /\ since[c] <= clock /\ clock <= since[c] + Lag
    BY <1>1, Zenon DEF StreamInv, ClientInv, StateInv
  <2> QED BY <1>2, <1>3, <1>4, <2>1, Zenon DEF StateInv
<1>7. CoverInv(c)'
  <2>1. ASSUME NEW e \in Events, Delivered(e)
        PROVE  \/ e \in got[c] \cup before[c] \cup todo[c]
               \/ e \notin skipped /\ InQueue(c, e)
               \/ Lost(c, e)
    BY <1>1, <2>1, ZenonT(30) DEF StreamInv, ClientInv, CoverInv
  <2> QED BY <1>2, <1>3, <1>5, <2>1, ZenonT(30) DEF CoverInv
<1>8. ResumeInv(c)'
  <2>1. ASSUME NEW e \in Live, ~Before(<<settled, 0>>, Pos(e))
        PROVE  e \in Visible /\ Delivered(e) /\ e \in got[c] \cup before[c]
    <3>1. e \in Visible /\ Delivered(e) /\ at[e] + Overlap <= clock
      BY <2>1, WatermarkIsBehind, Zenon
    <3>2. e \in got[c] \cup before[c] \cup todo[c]
      BY <1>1, <3>1, OldIsCovered, RowTypes, Zenon DEF StreamInv
    <3> QED BY <1>4, <3>1, <3>2, ZenonT(30)
  <2>2. settled + Overlap <= clock /\ <<settled, 0>>[1] = settled
    BY Zenon DEF StreamInv, BusInv, LogInv, ClockInv
  <2>3. held[c][1] + Overlap <= clock /\ Reaches(c, held[c])
    BY Zenon DEF StreamInv, ClientInv, ResumeInv
  <2> QED BY <1>2, <1>3, <2>1, <2>2, <2>3, ZenonT(30) DEF ResumeInv, Reaches
<1>9. WriteInv(c)'
  <2>1. \A i, j \in 1..Len(queue[c]) : \A e \in queue[c][i], x \in queue[c][j] :
          i < j => at[e] <= at[x] + Overlap /\ e # x /\ (e \in skipped => x \notin skipped)
    BY ZenonT(30) DEF StreamInv, ClientInv, WriteInv
  <2> QED BY <1>2, <1>3, <1>4, <2>1 DEF WriteInv
<1> QED BY <1>5, <1>6, <1>7, <1>8, <1>9, Zenon DEF ClientInv

LEMMA ReplayKeeps ==
  ASSUME OverlapCovers, StreamInv, NEW c \in Clients, Replay(c)
  PROVE  ClientInv(c)'
<1>1. UNCHANGED logView /\ spc[c] = "joined" /\ held[c] # Zero
  BY Zenon DEF Replay, logVars, writerVars, tailVars, logView
<1>2. /\ spc'[c] = (IF Backlog(c) = {} THEN "live" ELSE "replay") /\ todo'[c] = Backlog(c)
      /\ member'[c] = member[c] /\ since'[c] = since[c] /\ before'[c] = before[c]
      /\ queue'[c] = queue[c] /\ lastSafe'[c] = lastSafe[c] /\ sent'[c] = sent[c]
      /\ held'[c] = held[c] /\ got'[c] = got[c] /\ wrote'[c] = wrote[c]
  BY Zenon DEF Replay, StreamInv, StreamType
<1>3. /\ UNCHANGED <<clock, row, at, id, tpc, cursor, seen, settled, handed, skipped>>
      /\ Visible' = Visible /\ Live' = Live
      /\ \A e : Pos(e)' = Pos(e) /\ (Delivered(e)' <=> Delivered(e)) /\ (Awaited(e)' <=> Awaited(e))
  BY <1>1, SameLog, Zenon
<1>4. sent[c] = {} /\ lastSafe[c] = Zero /\ (\A e \in Events : wrote[c][e] = 0) /\ tpc # "boot"
  BY <1>1, Zenon DEF StreamInv, ClientInv, StateInv
<1>5. Backlog(c) \subseteq Visible /\ Backlog(c) \subseteq Events
  BY RowTypes, Zenon DEF Backlog, StreamInv
<1>6. QueueInv(c)'
  BY <1>1, <1>2, <1>4, StartWaits, ZenonT(30)
<1>7. StateInv(c)'
  <2>1. Len(queue[c]) <= Buffer /\ since[c] <= clock /\ clock <= since[c] + Lag
    BY <1>1, ZenonT(30) DEF StreamInv, ClientInv, StateInv
  <2> QED BY <1>2, <1>3, <1>4, <1>5, <2>1, ZenonT(30) DEF StateInv
<1>8. CoverInv(c)'
  <2>1. ASSUME NEW e \in Events, Delivered(e) PROVE e \in got[c] \cup before[c] \cup Backlog(c)
    <3>1. e \in Visible /\ e \in Live
      BY <2>1, Zenon DEF StreamInv, BusInv, LogInv, ReadInv, Visible, Live
    <3>2. ~Before(held[c], Pos(e)) => e \in got[c] \cup before[c]
      BY <1>1, <3>1, Zenon DEF StreamInv, ClientInv, ResumeInv, Reaches
    <3> QED BY <3>1, <3>2, Zenon DEF Backlog
  <2> QED BY <1>2, <1>3, <2>1, ZenonT(30) DEF CoverInv
<1>9. ResumeInv(c)'
  BY <1>2, <1>3, ZenonT(30) DEF StreamInv, ClientInv, ResumeInv, Reaches
<1>10. WriteInv(c)'
  <2>1. \A i, j \in 1..Len(queue[c]) : \A e \in queue[c][i], x \in queue[c][j] :
          i < j => at[e] <= at[x] + Overlap /\ e # x /\ (e \in skipped => x \notin skipped)
    BY ZenonT(30) DEF StreamInv, ClientInv, WriteInv
  <2>2. /\ \A e \in Events : wrote'[c][e] <= 1 /\ wrote'[c][e] = 0 /\ wrote'[c][e] # 1
        /\ spc'[c] = "live" => todo'[c] = {}
        /\ sent'[c] = {} /\ todo'[c] \subseteq Events
    BY <1>2, <1>4, <1>5, ZeroOne, ZenonT(30)
  <2> QED BY <1>2, <1>3, <2>1, <2>2, ZenonT(30) DEF WriteInv
<1> QED BY <1>6, <1>7, <1>8, <1>9, <1>10, Zenon DEF ClientInv

LEMMA ResyncKeeps ==
  ASSUME OverlapCovers, StreamInv, NEW c \in Clients, Resync(c)
  PROVE  ClientInv(c)'
<1>1. UNCHANGED logView /\ spc[c] = "joined" /\ held[c] # Zero
  BY Zenon DEF Resync, logVars, writerVars, tailVars, logView
<1>2. /\ spc'[c] = "live" /\ got'[c] = got[c] \cup Visible
      /\ held'[c] = <<settled, 0>> /\ lastSafe'[c] = <<settled, 0>>
      /\ member'[c] = member[c] /\ since'[c] = since[c] /\ before'[c] = before[c]
      /\ queue'[c] = queue[c] /\ todo'[c] = todo[c] /\ sent'[c] = sent[c] /\ wrote'[c] = wrote[c]
  BY Zenon DEF Resync, StreamInv, StreamType
<1>3. /\ UNCHANGED <<clock, row, at, id, tpc, cursor, seen, settled, handed, skipped>>
      /\ Visible' = Visible /\ Live' = Live
      /\ \A e : Pos(e)' = Pos(e) /\ (Delivered(e)' <=> Delivered(e)) /\ (Awaited(e)' <=> Awaited(e))
  BY <1>1, SameLog, Zenon
<1>4. todo[c] = {} /\ sent[c] = {} /\ (\A e \in Events : wrote[c][e] = 0) /\ tpc # "boot"
  BY <1>1, ZenonT(30) DEF StreamInv, ClientInv, StateInv
<1>5. QueueInv(c)'
  BY <1>1, <1>2, <1>4, StartWaits, ZenonT(30)
<1>6. StateInv(c)'
  <2>1. Len(queue[c]) <= Buffer /\ since[c] <= clock /\ clock <= since[c] + Lag
    BY <1>1, ZenonT(30) DEF StreamInv, ClientInv, StateInv
  <2> QED BY <1>2, <1>3, <1>4, <2>1, ZenonT(30) DEF StateInv
<1>7. CoverInv(c)'
  <2>1. \A e \in Events : Delivered(e) => e \in Visible
    BY Zenon DEF StreamInv, BusInv, LogInv, ReadInv
  <2> QED BY <1>2, <1>3, <2>1, ZenonT(30) DEF CoverInv
<1>8. ResumeInv(c)'
  <2>1. \A e \in Live : ~Before(<<settled, 0>>, Pos(e)) => e \in Visible /\ Delivered(e)
    BY WatermarkIsBehind, Zenon
  <2>2. settled + Overlap <= clock /\ <<settled, 0>>[1] = settled
    BY Zenon DEF StreamInv, BusInv, LogInv, ClockInv
  <2> QED BY <1>2, <1>3, <2>1, <2>2, ZenonT(30) DEF ResumeInv, Reaches
<1>9. WriteInv(c)'
  <2>1. \A i, j \in 1..Len(queue[c]) : \A e \in queue[c][i], x \in queue[c][j] :
          i < j => at[e] <= at[x] + Overlap /\ e # x /\ (e \in skipped => x \notin skipped)
    BY ZenonT(30) DEF StreamInv, ClientInv, WriteInv
  <2> QED BY <1>2, <1>3, <1>4, <2>1 DEF WriteInv
<1> QED BY <1>5, <1>6, <1>7, <1>8, <1>9, Zenon DEF ClientInv

LEMMA KeepAliveKeeps ==
  ASSUME OverlapCovers, StreamInv, NEW c \in Clients, KeepAlive(c)
  PROVE  ClientInv(c)'
<1>1. UNCHANGED logView /\ spc[c] = "live" /\ todo[c] = {}
  BY ZenonT(30) DEF KeepAlive, logVars, writerVars, tailVars, logView
<1>2. /\ held'[c] = <<settled, 0>> /\ lastSafe'[c] = <<settled, 0>>
      /\ spc'[c] = spc[c] /\ got'[c] = got[c]
      /\ member'[c] = member[c] /\ since'[c] = since[c] /\ before'[c] = before[c]
      /\ queue'[c] = queue[c] /\ todo'[c] = todo[c] /\ sent'[c] = sent[c] /\ wrote'[c] = wrote[c]
  BY Zenon DEF KeepAlive, StreamInv, StreamType
<1>3. /\ UNCHANGED <<clock, row, at, id, tpc, cursor, seen, settled, handed, skipped>>
      /\ Visible' = Visible /\ Live' = Live
      /\ \A e : Pos(e)' = Pos(e) /\ (Delivered(e)' <=> Delivered(e)) /\ (Awaited(e)' <=> Awaited(e))
  BY <1>1, SameLog, ZenonT(30)
<1>4. Busy(c)' = Busy(c) /\ \A e : InQueue(c, e)' <=> InQueue(c, e)
  BY <1>2, Zenon DEF Busy, InQueue
<1>5. \A e : Lost(c, e)' <=> Lost(c, e)
  BY <1>2, <1>3, <1>4, ZenonT(30) DEF Lost, Waited
<1>6. StateInv(c)'
  BY <1>1, <1>2, <1>3, Zenon DEF StreamInv, ClientInv, StateInv, Idle
<1>7. QueueInv(c)'
  BY <1>2, <1>3, <1>4, ZenonT(30) DEF StreamInv, ClientInv, QueueInv, Waited
<1>8. CoverInv(c)'
  BY <1>1, <1>2, <1>3, <1>4, <1>5, ZenonT(30) DEF StreamInv, ClientInv, CoverInv
<1>9. ResumeInv(c)'
  <2>1. ASSUME NEW e \in Live, ~Before(<<settled, 0>>, Pos(e))
        PROVE  e \in Visible /\ Delivered(e) /\ e \in got[c] \cup before[c]
    <3>1. e \in Visible /\ Delivered(e) /\ at[e] + Overlap <= clock
      BY <2>1, WatermarkIsBehind, Zenon
    <3>2. e \in got[c] \cup before[c] \cup todo[c]
      BY <1>1, <3>1, OldIsCovered, RowTypes, Zenon DEF StreamInv
    <3> QED BY <1>1, <3>1, <3>2, Zenon
  <2>2. settled + Overlap <= clock /\ <<settled, 0>>[1] = settled
    BY Zenon DEF StreamInv, BusInv, LogInv, ClockInv
  <2> QED BY <1>2, <1>3, <2>1, <2>2, ZenonT(30) DEF ResumeInv, Reaches
<1>10. WriteInv(c)'
  <2>1. WriteInv(c)
    BY ZenonT(30) DEF StreamInv, ClientInv
  <2> QED BY <1>2, <1>3, <2>1, WriteKept, ZenonT(30)
<1> QED BY <1>6, <1>7, <1>8, <1>9, <1>10, Zenon DEF ClientInv

\* A stream ends: what it held is gone, and its client keeps one of the two
\* positions it may resume from.
LEMMA EndsKeeps ==
  ASSUME StreamInv, NEW c \in Clients, GivenUp(c) \/ Drop(c)
  PROVE  ClientInv(c)'
<1>1. UNCHANGED logView
  BY ZenonT(30) DEF GivenUp, Drop, logVars, writerVars, tailVars, logView
<1>2. /\ spc'[c] = "off" /\ ~member'[c] /\ queue'[c] = <<>> /\ todo'[c] = {} /\ sent'[c] = {}
      /\ lastSafe'[c] = Zero /\ wrote'[c] = [e \in Events |-> 0]
      /\ before'[c] = before[c] /\ since'[c] = since[c] /\ got'[c] = got[c]
      /\ held'[c] = held[c] \/ held'[c] = lastSafe[c]
  BY Zenon DEF GivenUp, Drop, Ends, StreamInv, StreamType, Max2
<1>3. /\ UNCHANGED <<clock, row, at, id, tpc, cursor, seen, settled, handed, skipped>>
      /\ Visible' = Visible /\ Live' = Live
      /\ \A e : Pos(e)' = Pos(e) /\ (Delivered(e)' <=> Delivered(e)) /\ (Awaited(e)' <=> Awaited(e))
  BY <1>1, SameLog, Zenon
<1>4. /\ since[c] <= clock /\ Buffer \in Nat /\ Len(queue'[c]) = 0 /\ Overlap \in Nat /\ clock \in Nat
      /\ Overlap <= clock /\ Zero[1] = 0
  BY <1>2, PastOverlap, Zenon
<1>5. StateInv(c)'
  <2>1. 0 <= Buffer
    BY <1>4
  <2>2. Len(queue'[c]) <= Buffer /\ since'[c] <= clock' /\ \A e \in Events : wrote'[c][e] = 0
    BY <1>2, <1>3, <1>4, <2>1, ZenonT(30)
  <2> QED BY <1>2, <2>2, ZenonT(30) DEF StateInv
<1>6. QueueInv(c)' /\ WriteInv(c)'
  <2>1. \A e \in Events : wrote'[c][e] = 0
    BY <1>2, ZenonT(30)
  <2> QED BY <1>2, <2>1, NothingQueued, ZenonT(30)
<1>7. CoverInv(c)'
  BY <1>2, ZenonT(30) DEF CoverInv
<1>8. ResumeInv(c)'
  <2>1. ASSUME NEW p, Reaches(c, p) PROVE Reaches(c, p)'
    BY <1>2, <1>3, <2>1, ZenonT(30) DEF Reaches
  <2>2. Reaches(c, Zero)'
    BY Zenon DEF Reaches
  <2>3. /\ held[c][1] + Overlap <= clock /\ Reaches(c, held[c])
        /\ lastSafe[c][1] + Overlap <= clock /\ Reaches(c, lastSafe[c])
    BY Zenon DEF StreamInv, ClientInv, ResumeInv
  <2>4. held'[c][1] + Overlap <= clock' /\ Reaches(c, held[c])' /\ Reaches(c, lastSafe[c])'
    BY <1>2, <1>3, <2>1, <2>3, ZenonT(30) DEF Reaches
  <2>5. 0 + Overlap <= clock
    BY <1>4
  <2>6. lastSafe'[c][1] + Overlap <= clock'
    BY <1>2, <1>3, <1>4, <2>5, ZenonT(30)
  <2> QED BY <2>4, <2>6, ZenonT(30) DEF ResumeInv
<1> QED BY <1>5, <1>6, <1>7, <1>8, Zenon DEF ClientInv

\* The next batch: what waited behind it waited one place less.
LEMMA ReceiveKeeps ==
  ASSUME StreamInv, NEW c \in Clients, Receive(c)
  PROVE  ClientInv(c)'
<1> DEFINE q == queue[c]
<1>1. UNCHANGED logView /\ spc[c] = "live" /\ todo[c] = {} /\ q # <<>>
  BY ZenonT(30) DEF Receive, logVars, writerVars, tailVars, logView
<1>2. /\ todo'[c] = Head(q) \ sent[c] /\ queue'[c] = Tail(q)
      /\ spc'[c] = spc[c] /\ held'[c] = held[c] /\ lastSafe'[c] = lastSafe[c] /\ got'[c] = got[c]
      /\ member'[c] = member[c] /\ since'[c] = since[c] /\ before'[c] = before[c]
      /\ sent'[c] = sent[c] /\ wrote'[c] = wrote[c]
  BY Zenon DEF Receive, StreamInv, StreamType
<1>3. /\ UNCHANGED <<clock, row, at, id, tpc, cursor, seen, settled, handed, skipped>>
      /\ Visible' = Visible /\ Live' = Live
      /\ \A e : Pos(e)' = Pos(e) /\ (Delivered(e)' <=> Delivered(e)) /\ (Awaited(e)' <=> Awaited(e))
  BY <1>1, SameLog, Zenon
<1>4. /\ q \in Seq(SUBSET Events) /\ Len(q) \in Nat /\ Len(q) <= Buffer /\ Buffer \in Nat /\ since[c] \in Nat
      /\ (\A i \in 1..Len(q) : q[i] \subseteq Events) /\ (\A e \in Events : at[e] \in Nat /\ handed[e] \in Nat)
  BY ClientTypes, Zenon
<1> DEFINE n == Len(q)
<1>5. /\ n \in 1..Buffer /\ Len(queue'[c]) = n - 1 /\ Head(q) = q[1] /\ 1 \in 1..n
      /\ \A i \in 1..(n - 1) : queue'[c][i] = q[i + 1] /\ i + 1 \in 1..n
  BY <1>1, <1>2, <1>4
<1>6. \A i \in 1..n : \A e \in q[i] : handed[e] = 1 /\ (e \notin skipped => Waited(c, e, Buffer + 1 - i - Busy(c)))
  BY Zenon DEF StreamInv, ClientInv, QueueInv
<1>7. Busy(c) = 0 /\ Busy(c)' \in {0, 1}
  BY <1>1, Zenon DEF Busy
<1>8. \A i, j \in 1..n : \A e \in q[i], x \in q[j] :
        i < j => at[e] <= at[x] + Overlap /\ e # x /\ (e \in skipped => x \notin skipped)
  BY ZenonT(30) DEF StreamInv, ClientInv, WriteInv
<1>9. queue' [c] \in Seq(SUBSET Events)
  BY <1>1, <1>2, <1>4
<1> HIDE DEF q, n
<1>10. StateInv(c)'
  <2>1. /\ since[c] <= clock /\ tpc # "boot" /\ sent[c] \subseteq Visible /\ clock <= since[c] + Lag
    BY <1>1, ZenonT(30) DEF StreamInv, ClientInv, StateInv, Idle, q
  <2>2. \A e \in q[1] : e \in Visible
    <3>1. \A e \in q[1] : Delivered(e) /\ e \in Events
      BY <1>4, <1>5, <1>6 DEF Delivered, n
    <3> QED BY <3>1, ZenonT(30) DEF StreamInv, BusInv, LogInv, ReadInv
  <2>3. Len(queue'[c]) <= Buffer
    BY <1>4, <1>5
  <2>4. todo'[c] \cup sent'[c] \subseteq Visible'
    BY <1>2, <1>3, <1>5, <2>1, <2>2, Zenon
  <2> QED BY <1>1, <1>2, <1>3, <2>1, <2>3, <2>4, ZenonT(30) DEF StateInv
<1>11. QueueInv(c)'
  <2>1. ASSUME NEW i \in 1..(n - 1), NEW e \in queue'[c][i]
        PROVE  handed'[e] = 1 /\ (e \notin skipped' => Waited(c, e, Buffer + 1 - i - Busy(c))')
    <3>1. i + 1 \in 1..n /\ e \in q[i + 1] /\ e \in Events
      BY <1>4, <1>5, Zenon DEF n
    <3>2. handed[e] = 1 /\ (e \notin skipped => Waited(c, e, Buffer + 1 - (i + 1) - Busy(c)))
      BY <1>6, <3>1, Zenon
    <3>3. Buffer + 1 - (i + 1) - Busy(c) \in Nat /\ Buffer + 1 - i - Busy(c)' \in Nat
          /\ Buffer + 1 - (i + 1) - Busy(c) <= Buffer + 1 - i - Busy(c)'
      BY <1>4, <1>5, <1>7, <3>1
    <3>4. ASSUME e \notin skipped PROVE since[c] <= at[e] + Prompt + Wait(Buffer + 1 - i - Busy(c)')
      <4>1. since[c] <= at[e] + Prompt + Wait(Buffer + 1 - (i + 1) - Busy(c))
        BY <3>2, <3>4, Zenon DEF Waited
      <4> QED BY <1>4, <3>1, <3>3, <4>1, WaitLine, Zenon
    <3> QED BY <1>2, <1>3, <3>2, <3>4, ZenonT(30) DEF Waited
  <2>2. ASSUME NEW e \in todo'[c] PROVE handed'[e] = 1 /\ (e \notin skipped' => Waited(c, e, Buffer)')
    <3>1. e \in q[1] /\ 1 \in 1..n
      BY <1>2, <1>5, Zenon
    <3>2. handed[e] = 1 /\ (e \notin skipped => Waited(c, e, Buffer + 1 - 1 - Busy(c)))
      BY <1>6, <3>1, Zenon
    <3>3. Buffer + 1 - 1 - Busy(c) = Buffer
      BY <1>4, <1>7
    <3> QED BY <1>2, <1>3, <3>2, <3>3, Zenon DEF Waited
  <2> QED BY <1>5, <2>1, <2>2, Zenon DEF QueueInv
<1>12. sent[c] \subseteq got[c]
  BY Zenon DEF StreamInv, ClientInv, WriteInv
<1>13. ASSUME NEW e, InQueue(c, e) PROVE e \in q[1] \/ InQueue(c, e)'
  <2>1. PICK i \in 1..n : e \in q[i]
    BY <1>13, Zenon DEF InQueue, q, n
  <2>2. CASE i = 1
    BY <2>1, <2>2, Zenon
  <2>3. CASE i # 1
    <3>1. i - 1 \in 1..(n - 1) /\ (i - 1) + 1 = i
      BY <1>5, <2>3
    <3>2. e \in queue'[c][i - 1]
      BY <1>5, <2>1, <3>1, Zenon
    <3> QED BY <1>5, <3>1, <3>2, ZenonT(30) DEF InQueue
  <2> QED BY <2>2, <2>3, Zenon
<1>14. ASSUME NEW e, InQueue(c, e)' PROVE InQueue(c, e)
  <2>1. PICK i \in 1..(n - 1) : e \in queue'[c][i]
    BY <1>5, <1>14, Zenon DEF InQueue
  <2>2. i + 1 \in 1..n /\ e \in q[i + 1]
    BY <1>5, <2>1, Zenon
  <2> QED BY <2>2, Zenon DEF InQueue, q, n
<1>15. ASSUME NEW e \in Events, Lost(c, e) PROVE Lost(c, e)'
  <2>1. ~member[c] /\ e \notin skipped /\ since[c] <= at[e] + Prompt + Wait(Buffer + 1 - n - Busy(c))
    BY <1>15, Zenon DEF Lost, Waited, q, n
  <2>2. Buffer + 1 - n - Busy(c) \in Nat /\ Buffer + 1 - (n - 1) - Busy(c)' \in Nat
        /\ Buffer + 1 - n - Busy(c) <= Buffer + 1 - (n - 1) - Busy(c)'
    BY <1>4, <1>5, <1>7
  <2>3. since[c] <= at[e] + Prompt + Wait(Buffer + 1 - (n - 1) - Busy(c)')
    BY <1>4, <2>1, <2>2, WaitLine, Zenon
  <2> QED BY <1>2, <1>3, <1>5, <2>1, <2>3, Zenon DEF Lost, Waited
<1>16. CoverInv(c)'
  <2>1. ASSUME NEW e \in Events, Delivered(e)
        PROVE  \/ e \in got[c] \cup before[c] \cup todo'[c]
               \/ e \notin skipped /\ InQueue(c, e)'
               \/ Lost(c, e)'
    <3>1. \/ e \in got[c] \cup before[c] \cup todo[c]
          \/ e \notin skipped /\ InQueue(c, e)
          \/ Lost(c, e)
      BY <1>1, <2>1, ZenonT(30) DEF StreamInv, ClientInv, CoverInv
    <3> QED BY <1>1, <1>2, <1>5, <1>12, <1>13, <1>15, <3>1, ZenonT(30)
  <2> QED BY <1>2, <1>3, <2>1, ZenonT(30) DEF CoverInv
<1>17. ResumeInv(c)'
  BY <1>2, <1>3, ZenonT(30) DEF StreamInv, ClientInv, ResumeInv, Reaches
<1>18. WriteInv(c)'
  <2>1. /\ \A e \in Events : wrote[c][e] <= 1
        /\ \A e \in Events : wrote[c][e] = 1 => e \in Visible /\ (Awaited(e) \/ InQueue(c, e) => e \in sent[c])
    BY ZenonT(30) DEF StreamInv, ClientInv, WriteInv
  <2>2. ASSUME NEW e \in todo'[c] PROVE wrote'[c][e] = 0
    <3>1. e \in q[1] /\ 1 \in 1..n /\ e \notin sent[c]
      BY <1>2, <1>5, ZenonT(30)
    <3>2. InQueue(c, e)
      BY <3>1, ZenonT(30) DEF InQueue, q, n
    <3>3. e \in Events
      BY <1>4, <3>1, ZenonT(30) DEF n
    <3>4. wrote[c][e] \in Nat
      <4>1. wrote[c] \in [Events -> Nat]
        BY ClientTypes, Zenon
      <4> QED BY <3>3, <4>1, Zenon
    <3>5. wrote[c][e] # 1 /\ wrote[c][e] <= 1
      BY <2>1, <3>1, <3>2, <3>3, ZenonT(30)
    <3> QED BY <1>2, <3>4, <3>5, OneOrNone, ZenonT(30)
  <2>3. \A e \in Events : wrote'[c][e] = 1 => e \in Visible' /\ (Awaited(e)' \/ InQueue(c, e)' => e \in sent'[c])
    BY <1>2, <1>3, <1>14, <2>1, ZenonT(30)
  <2>4. ASSUME NEW i \in 1..(n - 1), NEW j \in 1..(n - 1), NEW e \in queue'[c][i], NEW x \in queue'[c][j], i < j
        PROVE  at[e] <= at[x] + Overlap /\ e # x /\ (e \in skipped => x \notin skipped)
    <3>1. i + 1 \in 1..n /\ j + 1 \in 1..n /\ e \in q[i + 1] /\ x \in q[j + 1] /\ i + 1 < j + 1
      BY <1>5, <2>4, SMTT(20)
    <3> QED BY <1>8, <3>1, Zenon
  <2>5. ASSUME NEW j \in 1..(n - 1), NEW e \in todo'[c], NEW x \in queue'[c][j]
        PROVE  at[e] <= at[x] + Overlap /\ e # x /\ (e \in skipped => x \notin skipped)
    <3>1. 1 \in 1..n /\ j + 1 \in 1..n /\ e \in q[1] /\ x \in q[j + 1] /\ 1 < j + 1
      BY <1>2, <1>5
    <3> QED BY <1>8, <3>1, Zenon
  <2> QED BY <1>2, <1>3, <1>5, <1>12, <2>1, <2>2, <2>3, <2>4, <2>5, ZenonT(30) DEF WriteInv
<1> QED BY <1>10, <1>11, <1>16, <1>17, <1>18, Zenon DEF ClientInv

LEMMA RetainCovers ==
  \A a, b, k, o, r \in Nat : r >= 2 * o => /\ k < a + o => k <= a + r
                                           /\ k < b + o /\ b <= a + o => k <= a + r
OBVIOUS

\* What may still arrive at a stream that is writing a batch is too young to be
\* pruned from its dedupe set.
LEMMA PruneKeeps ==
  ASSUME OverlapCovers, StreamInv, NEW c \in Clients, spc[c] = "live", NEW e \in todo[c], NEW x \in Events,
         Awaited(x) \/ InQueue(c, x)
  PROVE  clock <= at[x] + Retain
<1>1. /\ at[x] \in Nat /\ e \in Events /\ at[e] \in Nat /\ clock \in Nat /\ since[c] \in Nat /\ Overlap \in Nat
      /\ Len(queue[c]) \in Nat /\ Len(queue[c]) <= Buffer /\ Buffer \in Nat /\ Busy(c) \in {0, 1} /\ handed[x] \in Nat
  BY ClientTypes, Zenon
<1>2. Retain \in Nat /\ Retain >= 2 * Overlap
  BY LogConstants, Zenon
<1>3. clock <= since[c] + Lag /\ tpc # "boot"
  BY ZenonT(30) DEF StreamInv, ClientInv, StateInv, Idle
<1>4. handed[e] = 1 /\ (e \notin skipped => Waited(c, e, Buffer))
  BY ZenonT(30) DEF StreamInv, ClientInv, QueueInv
<1>5. e \notin skipped => clock < at[e] + Overlap
  <2>1. Buffer <= Buffer + 1
    BY <1>1
  <2> QED BY <1>1, <1>3, <1>4, <2>1, WaitedIsRecent, Zenon DEF Waited
<1>6. CASE Awaited(x) /\ x \notin skipped
  <2>1. x \in Visible /\ ~Delivered(x)
    BY <1>6, <1>1 DEF Awaited, Delivered
  <2>2. clock <= at[x] + Prompt
    BY <1>3, <2>1, UnreadIsRecent, Zenon DEF StreamInv
  <2>3. Prompt \in Nat /\ Prompt < Overlap
    <3>1. Buffer + 2 \in Nat
      BY <1>1
    <3> QED BY <3>1, OverlapBounds, WaitTypes
  <2> QED BY <1>1, <1>2, <2>2, <2>3
<1>7. CASE Awaited(x) /\ x \in skipped
  <2>1. e \notin skipped
    BY <1>4, <1>7, Zenon DEF StreamInv, BusInv, OnceInv
  <2>2. at[x] >= cursor[1] - Overlap /\ cursor \in Positions
    BY <1>7, Zenon DEF Awaited, StreamInv, BusInv, LogInv, TypeOK
  <2>3. ~Before(cursor, Pos(e))
    BY <1>1, <1>4 DEF StreamInv, BusInv, LogInv, ReadInv, Delivered
  <2>4. cursor[1] \in Nat /\ at[e] <= cursor[1]
    BY <1>1, <2>2, <2>3 DEF Before, Pos, Positions
  <2> QED BY <1>1, <1>2, <1>5, <2>1, <2>2, <2>4
<1>8. CASE InQueue(c, x)
  <2>1. PICK i \in 1..Len(queue[c]) : x \in queue[c][i]
    BY <1>8, ZenonT(30) DEF InQueue
  <2>2. CASE x \notin skipped
    <3>1. Waited(c, x, Buffer + 1 - i - Busy(c))
      BY <2>1, <2>2, Zenon DEF StreamInv, ClientInv, QueueInv
    <3>2. Buffer + 1 - i - Busy(c) \in Nat /\ Buffer + 1 - i - Busy(c) <= Buffer + 1
      BY <1>1, <2>1
    <3>3. clock < at[x] + Overlap
      BY <1>1, <1>3, <3>1, <3>2, WaitedIsRecent, Zenon DEF Waited
    <3> QED BY <1>1, <1>2, <3>3, RetainCovers, ZenonT(30)
  <2>3. CASE x \in skipped
    <3>1. at[e] <= at[x] + Overlap /\ e \notin skipped
      BY <2>1, <2>3, ZenonT(30) DEF StreamInv, ClientInv, WriteInv
    <3> QED BY <1>1, <1>2, <1>5, <3>1, RetainCovers, ZenonT(30)
  <2> QED BY <2>2, <2>3, ZenonT(30)
<1> QED BY <1>6, <1>7, <1>8, Zenon

-----------------------------------------------------------------------------
(* Rows written to a client and batches handed to it                        *)

\* What Emit does, with the row it writes named.
LEMMA EmitEffect ==
  ASSUME StreamInv, NEW c \in Clients, Emit(c)
  PROVE  \E e \in todo[c] :
           /\ \A y \in todo[c] : y = e \/ Before(Pos(e), Pos(y))
           /\ todo'[c] = todo[c] \ {e} /\ got'[c] = got[c] \cup {e}
           /\ wrote'[c] = [wrote[c] EXCEPT ![e] = @ + 1]
           /\ sent'[c] \subseteq sent[c] \cup {e}
           /\ \A x \in sent[c] \cup {e} :
                x \notin sent'[c] => spc[c] = "live" /\ clock > at[x] + Retain
           /\ IF Safe(c, e) THEN lastSafe'[c] = Pos(e) /\ held'[c] = Pos(e)
              ELSE lastSafe'[c] = lastSafe[c] /\ held'[c] = held[c]
           /\ spc'[c] = (IF todo[c] = {e} THEN "live" ELSE spc[c])
           /\ since'[c] = (IF todo[c] = {e} THEN clock ELSE since[c])
           /\ queue'[c] = queue[c] /\ member'[c] = member[c] /\ before'[c] = before[c]
<1>1. todo[c] \subseteq Visible /\ sent[c] \subseteq Visible
  BY Zenon DEF StreamInv, ClientInv, StateInv
<1>2. PICK e \in todo[c] :
        /\ \A y \in todo[c] : y = e \/ Before(Pos(e), Pos(y))
        /\ todo' = [todo EXCEPT ![c] = @ \ {e}]
        /\ sent' = [sent EXCEPT ![c] =
                      IF todo[c] = {e} /\ spc[c] = "live"
                      THEN {x \in sent[c] \cup {e} : \A y \in sent[c] \cup {e} : at[x] >= at[y] - Retain}
                      ELSE sent[c] \cup {e}]
        /\ got' = [got EXCEPT ![c] = @ \cup {e}]
        /\ wrote' = [wrote EXCEPT ![c][e] = @ + 1]
        /\ IF Safe(c, e)
           THEN /\ lastSafe' = [lastSafe EXCEPT ![c] = Pos(e)]
                /\ held' = [held EXCEPT ![c] = Pos(e)]
           ELSE UNCHANGED <<lastSafe, held>>
        /\ spc' = [spc EXCEPT ![c] = IF todo[c] = {e} THEN "live" ELSE @]
        /\ since' = [since EXCEPT ![c] = IF todo[c] = {e} THEN clock ELSE @]
        /\ UNCHANGED <<queue, member, before>>
  BY ZenonT(30) DEF Emit
<1> DEFINE ids  == sent[c] \cup {e}
           done == todo[c] = {e}
<1>3. e \in Events /\ \A x \in ids : at[x] \in Nat /\ at[x] <= clock
  <2>1. \A x \in ids : x \in Inserted /\ x \in Events
    BY <1>1, RowTypes, Zenon DEF StreamInv
  <2> HIDE DEF ids
  <2>2. \A x \in ids : at[x] \in Nat /\ at[x] <= clock
    BY <2>1, RowTypes, Zenon DEF StreamInv, BusInv, LogInv, OrderInv
  <2> QED BY <1>1, <2>2, RowTypes, Zenon DEF StreamInv
<1>4. /\ todo'[c] = todo[c] \ {e} /\ got'[c] = got[c] \cup {e}
      /\ sent'[c] = (IF done /\ spc[c] = "live"
                     THEN {x \in ids : \A y \in ids : at[x] >= at[y] - Retain} ELSE ids)
      /\ spc'[c] = (IF done THEN "live" ELSE spc[c]) /\ since'[c] = (IF done THEN clock ELSE since[c])
      /\ queue'[c] = queue[c] /\ member'[c] = member[c] /\ before'[c] = before[c]
  BY <1>2, Zenon DEF StreamInv, StreamType
<1>5. IF Safe(c, e) THEN lastSafe'[c] = Pos(e) /\ held'[c] = Pos(e)
      ELSE lastSafe'[c] = lastSafe[c] /\ held'[c] = held[c]
  BY <1>2, Zenon DEF StreamInv, StreamType
<1>6. wrote'[c] = [wrote[c] EXCEPT ![e] = @ + 1]
  BY <1>2, Zenon DEF StreamInv, StreamType
<1>7. ASSUME NEW x \in ids, x \notin sent'[c] PROVE spc[c] = "live" /\ clock > at[x] + Retain
  <2> HIDE DEF ids
  <2>1. PICK y \in ids : spc[c] = "live" /\ ~(at[x] >= at[y] - Retain)
    BY <1>4, <1>7, Zenon
  <2>2. clock \in Nat /\ Retain \in Nat /\ {at[x], at[y]} \subseteq Nat /\ at[y] <= clock
    BY <1>3, LogConstants, Zenon DEF StreamInv, BusInv, LogInv, TypeOK
  <2> QED BY <2>1, <2>2
<1>8. sent'[c] \subseteq ids
  BY <1>4, Zenon
<1> QED BY <1>2, <1>4, <1>5, <1>6, <1>7, <1>8, ZenonT(30)

LEMMA EmitKeeps ==
  ASSUME OverlapCovers, StreamInv, NEW c \in Clients, Emit(c)
  PROVE  ClientInv(c)'
<1>1. UNCHANGED logView
  BY Zenon DEF Emit, logVars, writerVars, tailVars, logView
<1>2. PICK e \in todo[c] :
        /\ \A y \in todo[c] : y = e \/ Before(Pos(e), Pos(y))
        /\ todo'[c] = todo[c] \ {e} /\ got'[c] = got[c] \cup {e}
        /\ wrote'[c] = [wrote[c] EXCEPT ![e] = @ + 1]
        /\ sent'[c] \subseteq sent[c] \cup {e}
        /\ \A x \in sent[c] \cup {e} : x \notin sent'[c] => spc[c] = "live" /\ clock > at[x] + Retain
        /\ IF Safe(c, e) THEN lastSafe'[c] = Pos(e) /\ held'[c] = Pos(e)
           ELSE lastSafe'[c] = lastSafe[c] /\ held'[c] = held[c]
        /\ spc'[c] = (IF todo[c] = {e} THEN "live" ELSE spc[c])
        /\ since'[c] = (IF todo[c] = {e} THEN clock ELSE since[c])
        /\ queue'[c] = queue[c] /\ member'[c] = member[c] /\ before'[c] = before[c]
  BY EmitEffect, Zenon
<1>3. /\ UNCHANGED <<clock, row, at, id, tpc, cursor, seen, settled, handed, skipped>>
      /\ Visible' = Visible /\ Live' = Live
      /\ \A x : Pos(x)' = Pos(x) /\ (Delivered(x)' <=> Delivered(x)) /\ (Awaited(x)' <=> Awaited(x))
  BY <1>1, SameLog, Zenon
<1>4. /\ spc[c] \in {"replay", "live"} /\ tpc # "boot" /\ todo[c] \subseteq Visible /\ sent[c] \subseteq Visible
      /\ since[c] <= clock /\ clock <= since[c] + Lag /\ Len(queue[c]) <= Buffer
  BY ClientTypes, Zenon DEF StreamInv, ClientInv, StateInv, Idle
<1>5. /\ e \in Events /\ since[c] \in Nat /\ clock \in Nat /\ Buffer \in Nat /\ Lag \in Nat /\ Len(queue[c]) \in Nat
      /\ Overlap \in Nat /\ settled \in Nat /\ wrote[c] \in [Events -> Nat]
      /\ (\A x \in Events : at[x] \in Nat /\ id[x] \in Nat)
      /\ \A i \in 1..Len(queue[c]) : queue[c][i] \subseteq Events
  BY ClientTypes, Zenon
<1>6. Busy(c) = 1 /\ Busy(c)' = (IF todo[c] = {e} THEN 0 ELSE 1)
  BY <1>2, Zenon DEF Busy
<1>7. StateInv(c)'
  BY <1>2, <1>3, <1>4, <1>5, SMTT(20) DEF StateInv
<1>8. ASSUME NEW x \in Events, NEW i \in 0..Buffer, Waited(c, x, Buffer + 1 - i - Busy(c))
      PROVE  Waited(c, x, Buffer + 1 - i - Busy(c))'
  <2>1. /\ Buffer - i \in Nat /\ Buffer + 1 - i - Busy(c) = Buffer - i
        /\ Buffer + 1 - i - Busy(c)' = IF todo[c] = {e} THEN (Buffer - i) + 1 ELSE Buffer - i
    BY <1>5, <1>6
  <2>2. since[c] <= at[x] + Prompt + Wait(Buffer - i)
    BY <1>8, <2>1, Zenon DEF Waited
  <2>3. clock <= at[x] + Prompt + Wait((Buffer - i) + 1)
    BY <1>4, <1>5, <2>1, <2>2, WaitLine, Zenon
  <2> QED BY <1>2, <1>3, <2>1, <2>2, <2>3, Zenon DEF Waited
<1>9. QueueInv(c)'
  <2>1. ASSUME NEW i \in 1..Len(queue[c]), NEW x \in queue[c][i]
        PROVE  handed[x] = 1 /\ (x \notin skipped => Waited(c, x, Buffer + 1 - i - Busy(c))')
    <3>1. handed[x] = 1 /\ (x \notin skipped => Waited(c, x, Buffer + 1 - i - Busy(c)))
      BY Zenon DEF StreamInv, ClientInv, QueueInv
    <3>2. i \in 0..Buffer
      BY <1>4, <1>5
    <3>3. x \in Events
      BY <1>5, Zenon
    <3> QED BY <1>8, <3>1, <3>2, <3>3, Zenon
  <2>2. ASSUME NEW x \in todo'[c], spc'[c] = "live"
        PROVE  handed[x] = 1 /\ (x \notin skipped => Waited(c, x, Buffer)')
    <3>1. x \in todo[c] /\ todo[c] # {e} /\ spc[c] = "live"
      BY <1>2, <2>2, Zenon
    <3>2. handed[x] = 1 /\ (x \notin skipped => Waited(c, x, Buffer))
      BY <3>1, Zenon DEF StreamInv, ClientInv, QueueInv
    <3> QED BY <1>2, <1>3, <3>1, <3>2, Zenon DEF Waited
  <2> QED BY <1>2, <1>3, <2>1, <2>2, Zenon DEF QueueInv
<1>10. \A x : InQueue(c, x)' <=> InQueue(c, x)
  BY <1>2, Zenon DEF InQueue
<1>11. CoverInv(c)'
  <2>1. ASSUME NEW x \in Events, Lost(c, x) PROVE Lost(c, x)'
    <3>1. Len(queue[c]) \in 0..Buffer
      BY <1>4, <1>5
    <3> QED BY <1>2, <1>3, <1>8, <2>1, <3>1, Zenon DEF Lost
  <2>2. ASSUME NEW x \in Events, Delivered(x)
        PROVE  \/ x \in got'[c] \cup before'[c] \cup todo'[c]
               \/ x \notin skipped /\ InQueue(c, x)
               \/ Lost(c, x)'
    <3>1. \/ x \in got[c] \cup before[c] \cup todo[c]
          \/ x \notin skipped /\ InQueue(c, x)
          \/ Lost(c, x)
      BY <1>4, <2>2, Zenon DEF StreamInv, ClientInv, CoverInv
    <3> QED BY <1>2, <2>1, <3>1, Zenon
  <2> QED BY <1>3, <1>10, <2>2, Zenon DEF CoverInv
<1>12. ResumeInv(c)'
  <2>1. /\ held[c][1] + Overlap <= clock /\ lastSafe[c][1] + Overlap <= clock
        /\ Reaches(c, held[c]) /\ Reaches(c, lastSafe[c])
    BY Zenon DEF StreamInv, ClientInv, ResumeInv
  <2>2. CASE ~Safe(c, e)
    BY <1>2, <1>3, <2>1, <2>2, Zenon DEF ResumeInv, Reaches
  <2>3. CASE Safe(c, e)
    <3>1. at[e] <= settled /\ settled + Overlap <= clock /\ Pos(e)[1] = at[e]
      BY <2>3, Zenon DEF Safe, Pos, StreamInv, BusInv, LogInv, ClockInv
    <3>2. at[e] + Overlap <= clock
      BY <1>5, <3>1
    <3>3. ASSUME NEW x \in Live, ~Before(Pos(e), Pos(x))
          PROVE  x \in Visible /\ Delivered(x) /\ x \in got[c] \cup before[c] \cup {e}
      <4>1. x \in Events
        BY Zenon DEF Live
      <4>2. at[x] <= settled
        BY <1>5, <3>1, <3>3, <4>1 DEF Before, Pos
      <4>3. x \in Visible /\ Delivered(x) /\ at[x] + Overlap <= clock
        BY <4>2, SettledIsRead, Zenon DEF StreamInv
      <4>4. x \in got[c] \cup before[c] \cup todo[c]
        BY <1>4, <4>1, <4>3, OldIsCovered, Zenon
      <4>5. x \in todo[c] => x = e
        BY <1>2, <3>3, Zenon
      <4> QED BY <4>3, <4>4, <4>5, Zenon
    <3> QED BY <1>2, <1>3, <2>3, <3>1, <3>2, <3>3, Zenon DEF ResumeInv, Reaches
  <2> QED BY <2>2, <2>3, Zenon
<1>13. WriteInv(c)'
  <2>1. /\ \A x \in todo[c] : wrote[c][x] = 0
        /\ sent[c] \subseteq got[c]
        /\ \A x \in Events : wrote[c][x] <= 1
        /\ \A x \in Events : wrote[c][x] = 1 => x \in Visible /\ (Awaited(x) \/ InQueue(c, x) => x \in sent[c])
        /\ \A i, j \in 1..Len(queue[c]) : \A f \in queue[c][i], x \in queue[c][j] :
             i < j => at[f] <= at[x] + Overlap /\ f # x /\ (f \in skipped => x \notin skipped)
        /\ spc[c] = "live" => \A j \in 1..Len(queue[c]) : \A f \in todo[c], x \in queue[c][j] :
             at[f] <= at[x] + Overlap /\ f # x /\ (f \in skipped => x \notin skipped)
    BY ZenonT(30) DEF StreamInv, ClientInv, WriteInv
  <2>2. wrote'[c][e] = 1 /\ \A x \in Events : x # e => wrote'[c][x] = wrote[c][x]
    <3>1. wrote[c][e] = 0
      BY <2>1, Zenon
    <3>2. wrote'[c] = [wrote[c] EXCEPT ![e] = wrote[c][e] + 1]
      BY <1>2, Zenon
    <3> QED BY <1>5, <3>1, <3>2
  <2>3. \A x \in todo'[c] : wrote'[c][x] = 0
    <3>1. \A x \in todo'[c] : x \in todo[c] /\ x # e /\ x \in Events
      BY <1>2, <1>4, RowTypes, Zenon DEF StreamInv
    <3> QED BY <2>1, <2>2, <3>1, Zenon
  <2>4. sent'[c] \subseteq got'[c]
    BY <1>2, <2>1, ZenonT(30)
  <2>5. \A x \in Events : wrote'[c][x] <= 1
    BY <2>1, <2>2, SMTT(20)
  <2>6. ASSUME NEW x \in Events, wrote'[c][x] = 1, Awaited(x) \/ InQueue(c, x) PROVE x \in sent'[c]
    <3>1. x \in sent[c] \cup {e}
      BY <2>1, <2>2, <2>6, Zenon
    <3>2. spc[c] = "live" => clock <= at[x] + Retain
      BY <2>6, PruneKeeps, Zenon
    <3>3. clock \in Nat /\ at[x] \in Nat /\ Retain \in Nat
      BY <1>5, LogConstants, Zenon
    <3> QED BY <1>2, <3>1, <3>2, <3>3
  <2>7. \A x \in Events : wrote'[c][x] = 1 => x \in Visible
    BY <1>4, <2>1, <2>2, Zenon
  <2>8. spc'[c] = "live" => \A f \in todo'[c] : spc[c] = "live" /\ f \in todo[c]
    BY <1>2, Zenon
  <2> QED BY <1>2, <1>3, <1>10, <2>1, <2>3, <2>4, <2>5, <2>6, <2>7, <2>8, ZenonT(30) DEF WriteInv
<1> QED BY <1>7, <1>9, <1>11, <1>12, <1>13, Zenon DEF ClientInv

-----------------------------------------------------------------------------
(* The hub and the log under a stream                                       *)

\* broadcast, for one subscriber: it gets the batch, is given up, or was not
\* there.
LEMMA HandEffect ==
  ASSUME StreamInv, NEW c \in Clients, Hand
  PROVE  /\ \/ queue'[c] = queue[c] /\ member'[c] = member[c] /\ since'[c] = since[c] /\ (Fresh = {} \/ ~member[c])
            \/ queue'[c] = Append(queue[c], Fresh) /\ Len(queue[c]) < Buffer /\ member'[c] = TRUE /\ member[c]
               /\ since'[c] = IF Idle(c) THEN clock ELSE since[c]
            \/ queue'[c] = queue[c] /\ Len(queue[c]) = Buffer /\ ~member'[c] /\ member[c]
               /\ since'[c] = IF Idle(c) THEN clock ELSE since[c]
         /\ spc'[c] = spc[c] /\ held'[c] = held[c] /\ lastSafe'[c] = lastSafe[c] /\ got'[c] = got[c]
         /\ todo'[c] = todo[c] /\ before'[c] = before[c] /\ sent'[c] = sent[c] /\ wrote'[c] = wrote[c]
<1> DEFINE reach == IF Fresh = {} THEN {} ELSE {d \in Clients : member[d]}
<1>1. /\ queue' = [d \in Clients |-> IF d \in reach /\ Len(queue[d]) < Buffer THEN Append(queue[d], Fresh)
                                     ELSE queue[d]]
      /\ member' = [d \in Clients |-> IF d \in reach THEN Len(queue[d]) < Buffer ELSE member[d]]
      /\ since' = [d \in Clients |-> IF d \in reach /\ Idle(d) THEN clock ELSE since[d]]
      /\ UNCHANGED <<spc, todo, sent, lastSafe, held, got, before, wrote>>
  BY Zenon DEF Hand, Broadcast
<1>2. c \in reach <=> Fresh # {} /\ member[c]
  BY Zenon
<1>3. Len(queue[c]) \in Nat /\ Len(queue[c]) <= Buffer /\ Buffer \in Nat /\ member[c] \in BOOLEAN
  BY ClientTypes, Zenon
<1> HIDE DEF reach
<1>4. CASE c \notin reach
  BY <1>1, <1>2, <1>4, Zenon
<1>5. CASE c \in reach /\ Len(queue[c]) < Buffer
  BY <1>1, <1>2, <1>5, ZenonT(30)
<1>6. CASE c \in reach /\ ~(Len(queue[c]) < Buffer)
  <2>1. Len(queue[c]) = Buffer
    BY <1>3, <1>6
  <2>2. ~member'[c] /\ queue'[c] = queue[c] /\ since'[c] = IF Idle(c) THEN clock ELSE since[c]
    BY <1>1, <1>6, ZenonT(30)
  <2> QED BY <1>1, <1>2, <1>6, <2>1, <2>2, Zenon
<1> QED BY <1>4, <1>5, <1>6, ZenonT(30)

LEMMA HandKeeps ==
  ASSUME StreamInv, NEW c \in Clients, Hand, HandsOut
  PROVE  ClientInv(c)'
<1>1. /\ UNCHANGED <<clock, row, at, id, skipped>> /\ tpc # "boot" /\ tpc' # "boot" /\ (Drain \/ Sweep)
  BY Zenon DEF Hand, Drain, Sweep, writerVars
<1>2. Visible' = Visible /\ Live' = Live /\ \A e : Pos(e)' = Pos(e)
  BY <1>1, Zenon DEF Visible, Live, Pos
<1>3. /\ \/ queue'[c] = queue[c] /\ member'[c] = member[c] /\ since'[c] = since[c] /\ (Fresh = {} \/ ~member[c])
         \/ queue'[c] = Append(queue[c], Fresh) /\ Len(queue[c]) < Buffer /\ member'[c] = TRUE /\ member[c]
            /\ since'[c] = IF Idle(c) THEN clock ELSE since[c]
         \/ queue'[c] = queue[c] /\ Len(queue[c]) = Buffer /\ ~member'[c] /\ member[c]
            /\ since'[c] = IF Idle(c) THEN clock ELSE since[c]
      /\ spc'[c] = spc[c] /\ held'[c] = held[c] /\ lastSafe'[c] = lastSafe[c] /\ got'[c] = got[c]
      /\ todo'[c] = todo[c] /\ before'[c] = before[c] /\ sent'[c] = sent[c] /\ wrote'[c] = wrote[c]
  BY HandEffect, ZenonT(30)
<1>4. /\ \A e \in Fresh : e \in Events /\ Awaited(e) /\ handed'[e] = 1
      /\ \A e \in Events : e \notin Fresh => handed'[e] = handed[e]
      /\ \A e \in Events : Delivered(e)' <=> Delivered(e) \/ e \in Fresh
      /\ \A e \in Events, x \in Fresh : Delivered(e) => at[e] <= at[x] + Overlap
      /\ \A x \in Events : Awaited(x)' => Awaited(x) /\ x \notin Fresh
  BY Zenon DEF HandsOut
<1>5. /\ queue[c] \in Seq(SUBSET Events) /\ Len(queue[c]) \in Nat /\ Len(queue[c]) <= Buffer /\ Buffer \in Nat
      /\ (\A i \in 1..Len(queue[c]) : queue[c][i] \subseteq Events) /\ todo[c] \subseteq Events
      /\ since[c] \in Nat /\ clock \in Nat /\ Lag \in Nat /\ Busy(c) \in {0, 1} /\ member[c] \in BOOLEAN
      /\ \A e \in Events : at[e] \in Nat /\ handed[e] \in Nat
  BY ClientTypes, Zenon
<1>6. Busy(c)' = Busy(c)
  BY <1>3, Zenon DEF Busy
<1> DEFINE n == Len(queue[c])
           m == Len(queue'[c])
<1>7. /\ m \in {n, n + 1} /\ m <= Buffer /\ (\A i \in 1..n : queue'[c][i] = queue[c][i])
      /\ m = n + 1 => queue'[c][n + 1] = Fresh
  <2>1. Fresh \in SUBSET Events
    BY Zenon DEF Fresh
  <2>2. CASE queue'[c] = queue[c]
    BY <1>5, <2>2
  <2>3. CASE queue'[c] = Append(queue[c], Fresh) /\ Len(queue[c]) < Buffer
    BY <1>5, <2>1, <2>3
  <2> QED BY <1>3, <2>2, <2>3, Zenon
<1>8. ASSUME NEW e \in Fresh, e \notin skipped PROVE clock <= at[e] + Prompt
  <2>1. e \in Visible /\ ~Delivered(e)
    BY <1>4, <1>8 DEF Awaited, Delivered
  <2> QED BY <1>1, <2>1, UnreadIsRecent, Zenon DEF StreamInv
<1>9. /\ since[c] <= clock /\ since'[c] <= clock /\ since'[c] \in Nat
      /\ since'[c] = since[c] \/ (n = 0 /\ todo[c] = {} /\ member[c])
  <2>1. since[c] <= clock
    BY Zenon DEF StreamInv, ClientInv, StateInv
  <2>2. Idle(c) => n = 0 /\ todo[c] = {}
    BY Zenon DEF Idle
  <2> HIDE DEF n
  <2> QED BY <1>3, <1>5, <2>1, <2>2
<1>10. ASSUME NEW e \in Fresh, e \notin skipped, NEW k \in Nat PROVE since'[c] <= at[e] + Prompt + Wait(k)
  <2>1. clock <= at[e] + Prompt /\ e \in Events
    BY <1>4, <1>8, <1>10, Zenon
  <2>2. Wait(k) \in Nat /\ Prompt \in Nat
    <3>1. MaxTx \in Nat /\ MaxFaults + 2 \in Nat
      BY LogConstants
    <3> QED BY <3>1, WaitTypes, CycleTypes DEF Prompt
  <2> QED BY <1>5, <1>9, <2>1, <2>2
<1> HIDE DEF n, m
<1>11. \A i \in 1..n : \A e \in queue[c][i] : /\ handed[e] = 1 /\ Delivered(e) /\ e \in Events /\ e \notin Fresh
                                              /\ (e \notin skipped => Waited(c, e, Buffer + 1 - i - Busy(c)))
  <2>1. \A i \in 1..n : \A e \in queue[c][i] : e \in Events
    BY <1>5, Zenon DEF n
  <2>2. \A i \in 1..n : \A e \in queue[c][i] : handed[e] = 1 /\ (e \notin skipped => Waited(c, e, Buffer + 1 - i - Busy(c)))
    BY Zenon DEF StreamInv, ClientInv, QueueInv, n
  <2> QED BY <1>4, <2>1, <2>2 DEF Awaited, Delivered
<1>12. spc[c] = "live" => \A e \in todo[c] : /\ handed[e] = 1 /\ Delivered(e) /\ e \in Events /\ e \notin Fresh
                                             /\ (e \notin skipped => Waited(c, e, Buffer))
  <2>1. spc[c] = "live" => \A e \in todo[c] : handed[e] = 1 /\ (e \notin skipped => Waited(c, e, Buffer))
    BY Zenon DEF StreamInv, ClientInv, QueueInv
  <2> QED BY <1>4, <1>5, <2>1 DEF Awaited, Delivered
<1>13. StateInv(c)'
  <2>1. /\ spc[c] = "off" => ~member[c] /\ queue[c] = <<>>
        /\ spc[c] \in {"off", "joined"} => /\ todo[c] = {} /\ sent[c] = {} /\ lastSafe[c] = Zero
                                           /\ \A e \in Events : wrote[c][e] = 0
        /\ spc[c] = "replay" => todo[c] # {}
        /\ todo[c] \cup sent[c] \subseteq Visible
        /\ spc[c] = "off" \/ (spc[c] = "live" /\ Idle(c)) \/ clock <= since[c] + Lag
    BY ZenonT(30) DEF StreamInv, ClientInv, StateInv
  <2>2. spc'[c] = "off" => ~member'[c] /\ queue'[c] = <<>>
    BY <1>3, <2>1, Zenon
  <2>3. spc'[c] = "off" \/ (spc'[c] = "live" /\ Idle(c)') \/ clock' <= since'[c] + Lag
    <3>1. clock \in Nat /\ Lag \in Nat
      BY <1>5, Zenon
    <3>2. clock <= clock + Lag
      BY <3>1
    <3> QED BY <1>1, <1>3, <2>1, <3>2, ZenonT(30) DEF Idle
  <2> QED BY <1>1, <1>2, <1>3, <1>7, <1>9, <2>1, <2>2, <2>3, ZenonT(30) DEF StateInv, m
<1>14. QueueInv(c)'
  <2>1. ASSUME NEW i \in 1..m, NEW e \in queue'[c][i]
        PROVE  handed'[e] = 1 /\ (e \notin skipped => Waited(c, e, Buffer + 1 - i - Busy(c))')
    <3>1. CASE i \in 1..n
      <4>1. e \in queue[c][i]
        BY <1>7, <2>1, <3>1, Zenon
      <4>0. n # 0
        <5>1. n \in Nat
          BY <1>5, Zenon DEF n
        <5> QED BY <3>1, <5>1
      <4>2. handed'[e] = 1
        BY <1>4, <1>11, <3>1, <4>1
      <4>3. since'[c] = since[c] /\ at' = at
        BY <1>1, <1>9, <4>0, Zenon
      <4> QED BY <1>6, <1>11, <3>1, <4>1, <4>2, <4>3, Zenon DEF Waited
    <3>2. CASE i \notin 1..n
      <4>1. i = n + 1 /\ e \in Fresh /\ i <= Buffer
        BY <1>5, <1>7, <3>2 DEF n
      <4>2. Buffer + 1 - i - Busy(c) \in Nat
        BY <1>5, <4>1 DEF n
      <4> QED BY <1>1, <1>4, <1>6, <1>10, <4>1, <4>2, Zenon DEF Waited
    <3> QED BY <3>1, <3>2, Zenon
  <2>2. spc'[c] = "live" => \A e \in todo'[c] : handed'[e] = 1 /\ (e \notin skipped => Waited(c, e, Buffer)')
    <3> SUFFICES ASSUME spc[c] = "live", NEW e \in todo[c]
                 PROVE  handed'[e] = 1 /\ (e \notin skipped => Waited(c, e, Buffer)')
      BY <1>3, Zenon
    <3>1. handed'[e] = 1
      BY <1>4, <1>12
    <3>2. since'[c] = since[c] /\ at' = at
      BY <1>1, <1>9, Zenon
    <3> QED BY <1>12, <3>1, <3>2, Zenon DEF Waited
  <2> QED BY <1>1, <2>1, <2>2, Zenon DEF QueueInv, m
<1>15. ASSUME NEW e, InQueue(c, e) PROVE InQueue(c, e)'
  <2>1. PICK i \in 1..n : e \in queue[c][i]
    BY <1>15, Zenon DEF InQueue, n
  <2>2. i \in 1..m /\ e \in queue'[c][i]
    BY <1>5, <1>7, <2>1 DEF n
  <2> QED BY <2>2, Zenon DEF InQueue, m
<1>16. ASSUME NEW e, InQueue(c, e)' PROVE InQueue(c, e) \/ e \in Fresh
  <2>1. PICK i \in 1..m : e \in queue'[c][i]
    BY <1>16, Zenon DEF InQueue, m
  <2>2. i \in 1..n \/ i = n + 1
    BY <1>5, <1>7, <2>1 DEF n
  <2> QED BY <1>5, <1>7, <2>1, <2>2, Zenon DEF InQueue, n
<1>17. ASSUME NEW e \in Events, Lost(c, e) PROVE Lost(c, e)'
  <2>1. ~member[c]
    BY <1>17, Zenon DEF Lost
  <2>2. queue'[c] = queue[c] /\ since'[c] = since[c] /\ member'[c] = member[c]
    BY <1>3, <2>1, Zenon
  <2> QED BY <1>1, <1>6, <1>17, <2>2, Zenon DEF Lost, Waited
<1>18. CoverInv(c)'
  <2> SUFFICES ASSUME spc[c] \in {"replay", "live"} \/ (spc[c] = "joined" /\ held[c] = Zero),
                      NEW e \in Events, Delivered(e)'
               PROVE  \/ e \in got[c] \cup before[c] \cup todo[c]
                      \/ e \notin skipped /\ InQueue(c, e)'
                      \/ Lost(c, e)'
    BY <1>1, <1>3, ZenonT(30) DEF CoverInv
  <2>1. CASE Delivered(e)
    <3>1. \/ e \in got[c] \cup before[c] \cup todo[c]
          \/ e \notin skipped /\ InQueue(c, e)
          \/ Lost(c, e)
      BY <2>1, Zenon DEF StreamInv, ClientInv, CoverInv
    <3> QED BY <1>15, <1>17, <3>1, Zenon
  <2>2. CASE ~Delivered(e)
    <3>1. e \in Fresh /\ e \notin skipped
      BY <1>4, <2>2, Zenon DEF Delivered
    <3>2. CASE queue'[c] = Append(queue[c], Fresh)
      <4>1. n + 1 \in 1..m /\ queue'[c][n + 1] = Fresh
        <5>1. Len(Append(queue[c], Fresh)) = n + 1 /\ n \in Nat
          BY <1>5 DEF n
        <5>2. m = n + 1
          BY <3>2, <5>1, Zenon DEF m
        <5> QED BY <1>7, <5>1, <5>2
      <4> QED BY <3>1, <4>1, ZenonT(30) DEF InQueue, m
    <3>3. CASE ~member'[c] /\ queue'[c] = queue[c]
      <4>1. Buffer + 1 - n - Busy(c) \in Nat
        <5>1. n \in Nat /\ Buffer \in Nat /\ n <= Buffer /\ Busy(c) \in {0, 1}
          BY <1>5, Zenon DEF n
        <5> QED BY <5>1
      <4>2. since'[c] <= at[e] + Prompt + Wait(Buffer + 1 - n - Busy(c))
        BY <1>10, <3>1, <4>1, Zenon
      <4> QED BY <1>1, <1>6, <3>1, <3>3, <4>2, Zenon DEF Lost, Waited, n
    <3> QED BY <1>3, <3>1, <3>2, <3>3, Zenon
  <2> QED BY <2>1, <2>2, Zenon
<1>19. ResumeInv(c)'
  <2>1. \A e \in Live : e \in Events
    BY Zenon DEF Live
  <2> QED BY <1>1, <1>2, <1>3, <1>4, <2>1, ZenonT(30) DEF StreamInv, ClientInv, ResumeInv, Reaches
<1>20. WriteInv(c)'
  <2>1. /\ \A e \in todo[c] : wrote[c][e] = 0
        /\ sent[c] \subseteq got[c]
        /\ \A e \in Events : wrote[c][e] <= 1
        /\ \A e \in Events : wrote[c][e] = 1 => e \in Visible /\ (Awaited(e) \/ InQueue(c, e) => e \in sent[c])
        /\ \A i, j \in 1..n : \A e \in queue[c][i], x \in queue[c][j] :
             i < j => at[e] <= at[x] + Overlap /\ e # x /\ (e \in skipped => x \notin skipped)
        /\ spc[c] = "live" => \A j \in 1..n : \A e \in todo[c], x \in queue[c][j] :
             at[e] <= at[x] + Overlap /\ e # x /\ (e \in skipped => x \notin skipped)
    BY Zenon DEF StreamInv, ClientInv, WriteInv, n
  <2>2. \A e \in Events : wrote[c][e] = 1 => (Awaited(e)' \/ InQueue(c, e)' => e \in sent[c])
    BY <1>4, <1>16, <2>1, ZenonT(30)
  <2>3. ASSUME NEW e \in Events, handed[e] = 1, NEW x \in Fresh
        PROVE  at[e] <= at[x] + Overlap /\ e # x /\ (e \in skipped => x \notin skipped)
    <3>1. Delivered(e) /\ e # x
      BY <1>4, <2>3 DEF Delivered, Awaited
    <3>2. e \in skipped => x \notin skipped
      BY <1>4, <2>3, Zenon DEF StreamInv, BusInv, OnceInv
    <3> QED BY <1>4, <3>1, <3>2, Zenon
  <2>4. ASSUME NEW i \in 1..m, NEW j \in 1..m, NEW e \in queue'[c][i], NEW x \in queue'[c][j], i < j
        PROVE  at[e] <= at[x] + Overlap /\ e # x /\ (e \in skipped => x \notin skipped)
    <3>1. i \in 1..n /\ (j \in 1..n \/ (j = n + 1 /\ m = n + 1))
      BY <1>5, <1>7, <2>4 DEF n
    <3>2. CASE j \in 1..n
      BY <1>7, <2>1, <2>4, <3>1, <3>2, Zenon
    <3>3. CASE j = n + 1 /\ m = n + 1
      <4>1. x \in Fresh /\ e \in queue[c][i]
        BY <1>7, <2>4, <3>1, <3>3, ZenonT(30)
      <4> QED BY <1>11, <2>3, <3>1, <4>1, Zenon
    <3> QED BY <3>1, <3>2, <3>3, Zenon
  <2>5. ASSUME spc[c] = "live", NEW j \in 1..m, NEW e \in todo[c], NEW x \in queue'[c][j]
        PROVE  at[e] <= at[x] + Overlap /\ e # x /\ (e \in skipped => x \notin skipped)
    <3>1. j \in 1..n \/ (j = n + 1 /\ m = n + 1)
      BY <1>5, <1>7, <2>5 DEF n
    <3>2. (j \in 1..n /\ x \in queue[c][j]) \/ x \in Fresh
      BY <1>7, <2>5, <3>1, ZenonT(30)
    <3> QED BY <1>12, <2>1, <2>3, <2>5, <3>2, ZenonT(30)
  <2> QED BY <1>1, <1>2, <1>3, <2>1, <2>2, <2>4, <2>5 DEF WriteInv, m
<1> QED BY <1>13, <1>14, <1>18, <1>19, <1>20, Zenon DEF ClientInv

\* What a stream holds is visible.
LEMMA HoldsVisible ==
  ASSUME StreamInv, NEW c \in Clients
  PROVE  /\ \A i \in 1..Len(queue[c]) : \A e \in queue[c][i] : e \in Visible
         /\ todo[c] \subseteq Visible /\ sent[c] \subseteq Visible /\ skipped \subseteq Visible
<1>1. \A i \in 1..Len(queue[c]) : \A e \in queue[c][i] : e \in Events /\ handed[e] = 1
  <2>1. \A i \in 1..Len(queue[c]) : queue[c][i] \subseteq Events
    BY ClientTypes, Zenon
  <2> QED BY <2>1, Zenon DEF StreamInv, ClientInv, QueueInv
<1>2. \A e \in Events : handed[e] = 1 \/ e \in skipped => e \in Visible
  BY DEF StreamInv, BusInv, LogInv, ReadInv, Delivered
<1>3. skipped \subseteq Events
  BY Zenon DEF StreamInv, BusInv, LogInv, TypeOK
<1>4. todo[c] \subseteq Visible /\ sent[c] \subseteq Visible
  BY Zenon DEF StreamInv, ClientInv, StateInv
<1> QED BY <1>1, <1>2, <1>3, <1>4, Zenon

\* A new row is past every position a client holds.
LEMMA AppendIsAhead ==
  ASSUME OverlapCovers, StreamInv, NEW c \in Clients, NEW e \in Events, AppendEvent(e), UNCHANGED streamVars
  PROVE  ClientInv(c)'
<1>0. StateInv(c) /\ QueueInv(c) /\ CoverInv(c) /\ ResumeInv(c) /\ WriteInv(c)
  BY Zenon DEF StreamInv, ClientInv
<1>1. /\ row[e] = "none" /\ row' = [row EXCEPT ![e] = "open"] /\ at' = [at EXCEPT ![e] = clock]
      /\ id' = [id EXCEPT ![e] = Cardinality(Inserted) + 1]
      /\ UNCHANGED <<clock, tpc, cursor, seen, settled, handed, skipped>>
  BY Zenon DEF AppendEvent, tailVars
<1>2. UNCHANGED <<spc, member, queue, todo, sent, lastSafe, held, got, before, wrote, since>>
  BY Zenon DEF streamVars
<1>3. /\ row \in [Events -> {"none", "open", "committed", "aborted"}]
      /\ at \in [Events -> Nat] /\ id \in [Events -> Nat] /\ clock \in Nat
  BY Zenon DEF StreamInv, BusInv, LogInv, TypeOK
<1>4. Visible' = Visible /\ e \notin Visible /\ Live' = Live \cup {e} /\ Visible \subseteq Events /\ Live \subseteq Events
      /\ e \notin Live
  BY <1>1, <1>3, Zenon DEF Visible, Live
<1>5. \A f \in Events : f # e => at'[f] = at[f] /\ Pos(f)' = Pos(f)
  BY <1>1, <1>3, Zenon DEF Pos
<1>6. /\ \A i \in 1..Len(queue[c]) : \A f \in queue[c][i] : f \in Events /\ f # e
      /\ (\A f \in todo[c] : f \in Events /\ f # e) /\ \A f \in skipped : f \in Events /\ f # e
  BY <1>4, HoldsVisible, Zenon
<1>7. \A f \in Events : (Delivered(f)' <=> Delivered(f)) /\ (Delivered(f) => f # e)
  <2>1. \A f \in Events : Delivered(f) => f \in Visible
    BY Zenon DEF StreamInv, BusInv, LogInv, ReadInv
  <2> QED BY <1>1, <1>4, <2>1, Zenon DEF Delivered
<1>8. \A f \in Events : Awaited(f)' <=> Awaited(f)
  BY <1>1, <1>4, <1>5, Zenon DEF Awaited
<1>9. Busy(c)' = Busy(c) /\ \A f : InQueue(c, f)' <=> InQueue(c, f)
  BY <1>2, Zenon DEF Busy, InQueue
<1>10. StateInv(c)'
  BY <1>0, <1>1, <1>2, <1>4, Zenon DEF StateInv, Idle
<1>11. QueueInv(c)'
  BY <1>0, <1>1, <1>2, <1>5, <1>6, <1>9, ZenonT(30) DEF QueueInv, Waited
<1>12. CoverInv(c)'
  <2>1. \A f \in Events : f # e => (Lost(c, f)' <=> Lost(c, f))
    BY <1>1, <1>2, <1>5, <1>9, Zenon DEF Lost, Waited
  <2> QED BY <1>0, <1>1, <1>2, <1>7, <1>9, <2>1, ZenonT(30) DEF CoverInv
<1>13. ResumeInv(c)'
  <2>1. ASSUME NEW p \in Positions, p[1] + Overlap <= clock, Reaches(c, p) PROVE Reaches(c, p)'
    <3>1. Overlap \in Nat /\ Overlap > 0
      <4>1. Buffer + 2 \in Nat
        BY StreamConstants
      <4> QED BY <4>1, OverlapBounds, WaitTypes
    <3>2. at'[e] = clock /\ p[1] \in Nat
      BY <1>1, <1>3, <2>1, Zenon DEF Positions
    <3>3. Before(p, Pos(e)')
      BY <1>3, <2>1, <3>1, <3>2 DEF Before, Pos
    <3> QED BY <1>1, <1>2, <1>4, <1>5, <1>7, <2>1, <3>3, ZenonT(30) DEF Reaches
  <2>2. held[c] \in Positions /\ lastSafe[c] \in Positions
    BY ClientTypes, Zenon
  <2>3. /\ held[c][1] + Overlap <= clock /\ lastSafe[c][1] + Overlap <= clock
        /\ Reaches(c, held[c]) /\ Reaches(c, lastSafe[c])
    BY <1>0, Zenon DEF ResumeInv
  <2>4. \A p \in {held[c], lastSafe[c]} : Reaches(c, p)'
    BY <2>1, <2>2, <2>3, Zenon
  <2> QED BY <1>1, <1>2, <2>3, <2>4, ZenonT(30) DEF ResumeInv, Reaches
<1>14. WriteInv(c)'
  <2>1. \A f \in Events : wrote[c][f] = 1 => f \in Visible' /\ (Awaited(f)' \/ InQueue(c, f) => f \in sent[c])
    BY <1>0, <1>4, <1>8, Zenon DEF WriteInv
  <2> QED BY <1>0, <1>1, <1>2, <1>5, <1>6, <2>1, WriteStays, ZenonT(30)
<1> QED BY <1>10, <1>11, <1>12, <1>13, <1>14, Zenon DEF ClientInv

\* A row that becomes visible was written by nobody.
LEMMA EndIsUnwritten ==
  ASSUME StreamInv, NEW c \in Clients, NEW e \in Events, Commit(e) \/ Abort(e), UNCHANGED streamVars
  PROVE  ClientInv(c)'
<1>0. StateInv(c) /\ QueueInv(c) /\ CoverInv(c) /\ ResumeInv(c) /\ WriteInv(c)
  BY Zenon DEF StreamInv, ClientInv
<1>1. /\ row[e] = "open" /\ (row' = [row EXCEPT ![e] = "committed"] \/ row' = [row EXCEPT ![e] = "aborted"])
      /\ UNCHANGED <<clock, at, id, tpc, cursor, seen, settled, handed, skipped>>
  BY Zenon DEF Commit, Abort, tailVars
<1>2. UNCHANGED <<spc, member, queue, todo, sent, lastSafe, held, got, before, wrote, since>>
  BY Zenon DEF streamVars
<1>3. row \in [Events -> {"none", "open", "committed", "aborted"}]
  BY Zenon DEF StreamInv, BusInv, LogInv, TypeOK
<1>4. Visible \subseteq Visible' /\ Visible' \subseteq Visible \cup {e} /\ e \notin Visible /\ Live' \subseteq Live
  BY <1>1, <1>3, Zenon DEF Visible, Live
<1>5. \A f : Pos(f)' = Pos(f) /\ (Delivered(f)' <=> Delivered(f))
  BY <1>1, Zenon DEF Pos, Delivered
<1>6. \A f \in Events : f # e => (Awaited(f)' <=> Awaited(f))
  BY <1>1, <1>4, Zenon DEF Awaited
<1>7. Busy(c)' = Busy(c) /\ (\A f : InQueue(c, f)' <=> InQueue(c, f)) /\ \A f : Lost(c, f)' <=> Lost(c, f)
  BY <1>1, <1>2, Zenon DEF Busy, InQueue, Lost, Waited
<1>8. StateInv(c)'
  BY <1>0, <1>1, <1>2, <1>4, ZenonT(30) DEF StateInv, Idle
<1>9. QueueInv(c)'
  BY <1>0, <1>1, <1>2, <1>7, ZenonT(30) DEF QueueInv, Waited
<1>10. CoverInv(c)'
  BY <1>0, <1>1, <1>2, <1>5, <1>7, ZenonT(30) DEF CoverInv
<1>11. ResumeInv(c)'
  BY <1>0, <1>1, <1>2, <1>4, <1>5, ZenonT(30) DEF ResumeInv, Reaches
<1>12. WriteInv(c)'
  <2>1. \A f \in Events : wrote[c][f] = 1 => f # e
    BY <1>0, <1>4, ZenonT(30) DEF WriteInv
  <2>2. \A f \in Events : wrote[c][f] = 1 => f \in Visible' /\ (Awaited(f)' \/ InQueue(c, f) => f \in sent[c])
    BY <1>0, <1>4, <1>6, <2>1, ZenonT(30) DEF WriteInv
  <2> QED BY <1>0, <1>1, <1>2, <2>2, WriteStays, ZenonT(30)
<1> QED BY <1>8, <1>9, <1>10, <1>11, <1>12, Zenon DEF ClientInv

\* A stream that is off holds nothing.
LEMMA OffIsEmpty ==
  ASSUME NEW c \in Clients, spc'[c] = "off", ~member'[c], queue'[c] = <<>>, todo'[c] = {}, sent'[c] = {},
         lastSafe'[c] = Zero, \A e \in Events : wrote'[c][e] = 0, since'[c] <= clock', ResumeInv(c)'
  PROVE  ClientInv(c)'
<1>1. Len(queue'[c]) <= Buffer /\ 1..Len(queue'[c]) = {}
  BY StreamConstants
<1>2. StateInv(c)'
  BY <1>1, ZenonT(30) DEF StateInv
<1>3. QueueInv(c)'
  BY <1>1, Zenon DEF QueueInv
<1>4. CoverInv(c)'
  BY Zenon DEF CoverInv
<1>5. WriteInv(c)'
  BY <1>1 DEF WriteInv
<1> QED BY <1>2, <1>3, <1>4, <1>5, ZenonT(30) DEF ClientInv

\* Before the tailer is up nobody is served.
LEMMA BootIsAlone ==
  ASSUME StreamInv, NEW c \in Clients, Boot, UNCHANGED streamVars
  PROVE  ClientInv(c)'
<1>1. UNCHANGED <<clock, row, at, id>> /\ tpc = "boot" /\ tpc' = "drain"
  BY Zenon DEF Boot, writerVars
<1>2. UNCHANGED <<spc, member, queue, todo, sent, lastSafe, held, got, before, wrote, since>>
  BY Zenon DEF streamVars
<1>3. /\ spc[c] = "off" /\ ~member[c] /\ queue[c] = <<>> /\ todo[c] = {} /\ sent[c] = {} /\ lastSafe[c] = Zero
      /\ (\A e \in Events : wrote[c][e] = 0) /\ since[c] <= clock
  BY <1>1, Zenon DEF StreamInv, ClientInv, StateInv
<1>4. Visible' = Visible /\ Live' = Live /\ (\A e : Pos(e)' = Pos(e)) /\ \A e \in Visible : Delivered(e)'
  BY <1>1, Zenon DEF Boot, writerVars, Visible, Live, Pos, Delivered
<1>5. ResumeInv(c)'
  BY <1>1, <1>2, <1>4, ZenonT(30) DEF StreamInv, ClientInv, ResumeInv, Reaches
<1> QED BY <1>1, <1>2, <1>3, <1>5, OffIsEmpty, ZenonT(30)

LEMMA StreamRestartKeeps ==
  ASSUME StreamInv, NEW c \in Clients, StreamRestart
  PROVE  ClientInv(c)'
<1>1. UNCHANGED <<clock, row, at, id>> /\ tpc' = "boot"
  BY Zenon DEF StreamRestart, Restart, writerVars
<1>2. /\ spc'[c] = "off" /\ ~member'[c] /\ queue'[c] = <<>> /\ todo'[c] = {} /\ sent'[c] = {} /\ lastSafe'[c] = Zero
      /\ (\A e \in Events : wrote'[c][e] = 0) /\ since'[c] = since[c]
      /\ held'[c] = held[c] /\ got'[c] = got[c] /\ before'[c] = before[c]
  BY Zenon DEF StreamRestart
<1>3. Visible' = Visible /\ Live' = Live /\ \A e : Pos(e)' = Pos(e)
  BY <1>1, Zenon DEF Visible, Live, Pos
<1>4. /\ since[c] <= clock /\ Overlap \in Nat /\ clock \in Nat /\ Overlap <= clock /\ Zero[1] = 0
  BY PastOverlap, Zenon
<1>5. ResumeInv(c)'
  <2>1. held[c][1] + Overlap <= clock /\ Reaches(c, held[c])
    BY ZenonT(30) DEF StreamInv, ClientInv, ResumeInv
  <2>2. Reaches(c, held[c])'
    BY <1>1, <1>2, <1>3, <2>1, ZenonT(30) DEF Reaches
  <2>3. Reaches(c, Zero)'
    BY <1>1, <1>2, <1>3, ZenonT(30) DEF Reaches
  <2>4. Zero[1] + Overlap <= clock
    BY PastOverlap, Zenon
  <2> QED BY <1>1, <1>2, <2>1, <2>2, <2>3, <2>4, ZenonT(30) DEF ResumeInv
<1> QED BY <1>1, <1>2, <1>4, <1>5, OffIsEmpty, ZenonT(30)

LEMMA StreamTickKeeps ==
  ASSUME StreamInv, NEW c \in Clients, StreamTick
  PROVE  ClientInv(c)'
<1>0. StateInv(c) /\ QueueInv(c) /\ CoverInv(c) /\ ResumeInv(c) /\ WriteInv(c)
  BY Zenon DEF StreamInv, ClientInv
<1>1. /\ clock' = clock + 1 /\ UNCHANGED <<row, at, id, tpc, cursor, seen, settled, handed, skipped>>
      /\ spc[c] = "off" \/ (spc[c] = "live" /\ Idle(c)) \/ clock < since[c] + Lag
  BY Zenon DEF StreamTick, Tick, tailVars
<1>2. UNCHANGED <<spc, member, queue, todo, sent, lastSafe, held, got, before, wrote, since>>
  BY Zenon DEF StreamTick, streamVars
<1>3. Visible' = Visible /\ Live' = Live
      /\ \A e : Pos(e)' = Pos(e) /\ (Delivered(e)' <=> Delivered(e)) /\ (Awaited(e)' <=> Awaited(e))
  BY <1>1, Zenon DEF Visible, Live, Pos, Delivered, Awaited
<1>4. Busy(c)' = Busy(c) /\ (\A f : InQueue(c, f)' <=> InQueue(c, f)) /\ \A f : Lost(c, f)' <=> Lost(c, f)
  BY <1>1, <1>2, Zenon DEF Busy, InQueue, Lost, Waited
<1>5. /\ clock \in Nat /\ since[c] \in Nat /\ Lag \in Nat /\ Overlap \in Nat
      /\ held[c] \in Positions /\ lastSafe[c] \in Positions
  BY ClientTypes, Zenon
<1>6. StateInv(c)'
  <2>1. since'[c] <= clock' /\ (spc'[c] = "off" \/ (spc'[c] = "live" /\ Idle(c)') \/ clock' <= since'[c] + Lag)
    <3>1. since[c] <= clock /\ (spc[c] = "off" \/ (spc[c] = "live" /\ Idle(c)) \/ clock < since[c] + Lag)
      BY <1>0, <1>1, Zenon DEF StateInv
    <3>2. since[c] <= clock + 1 /\ (clock < since[c] + Lag => clock + 1 <= since[c] + Lag)
      BY <1>5, <3>1
    <3> QED BY <1>1, <1>2, <3>1, <3>2, ZenonT(30) DEF Idle
  <2> QED BY <1>0, <1>1, <1>2, <1>3, <2>1, ZenonT(30) DEF StateInv
<1>7. QueueInv(c)'
  BY <1>0, <1>1, <1>2, <1>4, ZenonT(30) DEF QueueInv, Waited
<1>8. CoverInv(c)'
  BY <1>0, <1>1, <1>2, <1>3, <1>4, ZenonT(30) DEF CoverInv
<1>9. ResumeInv(c)'
  <2>1. /\ held[c][1] + Overlap <= clock /\ lastSafe[c][1] + Overlap <= clock
        /\ Reaches(c, held[c]) /\ Reaches(c, lastSafe[c])
    BY <1>0, Zenon DEF ResumeInv
  <2>2. held[c][1] + Overlap <= clock + 1 /\ lastSafe[c][1] + Overlap <= clock + 1
    BY <1>5, <2>1 DEF Positions
  <2> QED BY <1>1, <1>2, <1>3, <2>1, <2>2, ZenonT(30) DEF ResumeInv, Reaches
<1>10. WriteInv(c)'
  BY <1>0, <1>1, <1>2, <1>3, WriteKept, ZenonT(30)
<1> QED BY <1>6, <1>7, <1>8, <1>9, <1>10, Zenon DEF ClientInv

-----------------------------------------------------------------------------
(* Every step of the streams                                                *)

LEMMA EmitTypes ==
  ASSUME StreamInv, NEW d \in Clients, Emit(d)
  PROVE  StreamType'
<1>0. StreamType /\ clock \in Nat
  BY Zenon DEF StreamInv, BusInv, LogInv, TypeOK
<1>1. PICK e \in todo[d] :
        /\ todo' = [todo EXCEPT ![d] = @ \ {e}]
        /\ \E S \in SUBSET (sent[d] \cup {e}) : sent' = [sent EXCEPT ![d] = S]
        /\ got' = [got EXCEPT ![d] = @ \cup {e}]
        /\ wrote' = [wrote EXCEPT ![d][e] = @ + 1]
        /\ lastSafe' = [lastSafe EXCEPT ![d] = Pos(e)] \/ UNCHANGED lastSafe
        /\ held' = [held EXCEPT ![d] = Pos(e)] \/ UNCHANGED held
        /\ spc' = [spc EXCEPT ![d] = "live"] \/ spc' = [spc EXCEPT ![d] = spc[d]]
        /\ since' = [since EXCEPT ![d] = clock] \/ since' = [since EXCEPT ![d] = since[d]]
        /\ UNCHANGED <<queue, member, before>>
  BY ZenonT(30) DEF Emit
<1>2. e \in Events
  BY <1>0, Zenon DEF StreamType
<1>3. Pos(e) \in Positions
  BY <1>2, RowTypes, Zenon DEF StreamInv
<1>4. wrote' \in [Clients -> [Events -> Nat]]
  BY <1>0, <1>2, <1>1 DEF StreamType
<1>5. sent' \in [Clients -> SUBSET Events] /\ todo' \in [Clients -> SUBSET Events] /\ got' \in [Clients -> SUBSET Events]
  BY <1>0, <1>2, <1>1 DEF StreamType
<1>6. lastSafe' \in [Clients -> Positions]
  <2>1. lastSafe \in [Clients -> Positions]
    BY <1>0, Zenon DEF StreamType
  <2> QED BY <1>3, <1>1, <2>1, Zenon
<1>7. held' \in [Clients -> Positions]
  <2>1. held \in [Clients -> Positions]
    BY <1>0, Zenon DEF StreamType
  <2> QED BY <1>3, <1>1, <2>1, Zenon
<1>8. spc' \in [Clients -> {"off", "joined", "replay", "live"}]
  <2>1. spc \in [Clients -> {"off", "joined", "replay", "live"}]
    BY <1>0, Zenon DEF StreamType
  <2> QED BY <1>1, <2>1, Zenon
<1>9. since' \in [Clients -> Nat]
  <2>1. since \in [Clients -> Nat]
    BY <1>0, Zenon DEF StreamType
  <2> QED BY <1>0, <1>1, <2>1, Zenon
<1> QED BY <1>0, <1>1, <1>4, <1>5, <1>6, <1>7, <1>8, <1>9, Zenon DEF StreamType

\* One stream's step keeps the types and leaves the log and the others alone.
LEMMA StreamStepTypes ==
  ASSUME StreamInv, NEW d \in Clients, Stream(d)
  PROVE  StreamType'
<1> USE DEF StreamType
<1>0. /\ StreamType /\ Zero \in Positions /\ <<settled, 0>> \in Positions /\ clock \in Nat
      /\ Visible \subseteq Events /\ Past \subseteq Events /\ Backlog(d) \subseteq Events
  <2>1. settled \in Nat /\ clock \in Nat /\ StreamType
    BY Zenon DEF StreamInv, BusInv, LogInv, TypeOK
  <2> QED BY <2>1, Zenon DEF Zero, Positions, Visible, Past, Backlog
<1>1. CASE Join(d)
  BY <1>0, <1>1, Zenon DEF Join
<1>2. CASE StartFresh(d)
  BY <1>0, <1>2, Zenon DEF StartFresh
<1>3. CASE Replay(d)
  BY <1>0, <1>3, Zenon DEF Replay
<1>4. CASE Resync(d)
  BY <1>0, <1>4, Zenon DEF Resync
<1>5. CASE Emit(d)
  BY <1>5, EmitTypes, Zenon
<1>6. CASE Receive(d)
  <2>1. queue[d] # <<>> /\ queue[d] \in Seq(SUBSET Events)
    BY <1>0, <1>6, Zenon DEF Receive
  <2>2. Head(queue[d]) \in SUBSET Events /\ Tail(queue[d]) \in Seq(SUBSET Events)
    BY <2>1
  <2>3. /\ todo' = [todo EXCEPT ![d] = Head(queue[d]) \ sent[d]] /\ queue' = [queue EXCEPT ![d] = Tail(queue[d])]
        /\ UNCHANGED <<spc, member, sent, lastSafe, held, got, before, wrote, since>>
    BY <1>6, ZenonT(30) DEF Receive
  <2> QED BY <1>0, <2>2, <2>3, Zenon
<1>7. CASE GivenUp(d) \/ Drop(d)
  <2>1. /\ Ends(d) /\ got' = got
        /\ \/ UNCHANGED held
           \/ held' = [held EXCEPT ![d] = lastSafe[d]]
           \/ held' = [held EXCEPT ![d] = held[d]]
    BY <1>7, Zenon DEF GivenUp, Drop, Max2
  <2>2. [e \in Events |-> 0] \in [Events -> Nat] /\ <<>> \in Seq(SUBSET Events)
    OBVIOUS
  <2> QED BY <1>0, <2>1, <2>2, ZenonT(30) DEF Ends
<1>8. CASE KeepAlive(d)
  BY <1>0, <1>8, Zenon DEF KeepAlive
<1> QED BY <1>1, <1>2, <1>3, <1>4, <1>5, <1>6, <1>7, <1>8, ZenonT(30) DEF Stream

LEMMA StreamStepFrame ==
  ASSUME StreamType, NEW d \in Clients, Stream(d), NEW c \in Clients, c # d
  PROVE  UNCHANGED clientView(c) /\ UNCHANGED logView
<1>1. CASE Join(d)
  BY <1>1, Zenon DEF Join, StreamType, clientView, logView, logVars, writerVars, tailVars
<1>2. CASE StartFresh(d)
  BY <1>2, Zenon DEF StartFresh, StreamType, clientView, logView, logVars, writerVars, tailVars
<1>3. CASE Replay(d)
  BY <1>3, Zenon DEF Replay, StreamType, clientView, logView, logVars, writerVars, tailVars
<1>4. CASE Resync(d)
  BY <1>4, Zenon DEF Resync, StreamType, clientView, logView, logVars, writerVars, tailVars
<1>5. CASE Emit(d)
  BY <1>5 DEF Emit, StreamType, clientView, logView, logVars, writerVars, tailVars
<1>6. CASE Receive(d)
  BY <1>6, Zenon DEF Receive, StreamType, clientView, logView, logVars, writerVars, tailVars
<1>7. CASE GivenUp(d)
  BY <1>7, Zenon DEF GivenUp, Ends, StreamType, clientView, logView, logVars, writerVars, tailVars
<1>8. CASE Drop(d)
  BY <1>8, Zenon DEF Drop, Ends, StreamType, clientView, logView, logVars, writerVars, tailVars
<1>9. CASE KeepAlive(d)
  BY <1>9, Zenon DEF KeepAlive, StreamType, clientView, logView, logVars, writerVars, tailVars
<1> QED BY <1>1, <1>2, <1>3, <1>4, <1>5, <1>6, <1>7, <1>8, <1>9, Zenon DEF Stream

LEMMA StreamStepKeeps ==
  ASSUME ReadyFirst, OverlapCovers, StreamInv, NEW d \in Clients, Stream(d), NEW c \in Clients
  PROVE  ClientInv(c)'
<1>1. CASE c = d
  <2>1. Stream(c)
    BY <1>1, Zenon
  <2> QED BY Zenon, <2>1, JoinKeeps, StartFreshKeeps, ReplayKeeps, ResyncKeeps, EmitKeeps, ReceiveKeeps, KeepAliveKeeps,
             EndsKeeps DEF Stream
<1>2. CASE c # d
  <2>1. UNCHANGED clientView(c) /\ UNCHANGED logView
    BY <1>2, StreamStepFrame, Zenon DEF StreamInv
  <2>2. UNCHANGED <<clock, row, at, id, cursor, seen, settled, handed, skipped>> /\ tpc' = tpc
    BY <2>1, Zenon DEF logView
  <2>3. ClientInv(c)
    BY Zenon DEF StreamInv
  <2> QED BY <2>1, <2>2, <2>3, OtherClient, Zenon
<1> QED BY <1>1, <1>2, Zenon

LEMMA QuietKeeps ==
  ASSUME OverlapCovers, StreamInv, Quiet, NEW c \in Clients
  PROVE  ClientInv(c)'
<1>1. UNCHANGED streamVars
  BY Zenon DEF Quiet
<1>2. CASE Write
  BY <1>1, <1>2, AppendIsAhead, EndIsUnwritten, Zenon DEF Write
<1>3. CASE Boot
  BY <1>1, <1>3, BootIsAlone, Zenon
<1>4. CASE Listen \/ Woken \/ Polled \/ CycleFails
  <2>1. /\ UNCHANGED <<clock, row, at, id, cursor, seen, settled, handed, skipped>>
        /\ tpc = "boot" <=> tpc' = "boot"
    BY <1>4, Zenon DEF Listen, Woken, Polled, CycleStarts, CycleFails, writerVars, tailVars
  <2>2. UNCHANGED clientView(c)
    BY <1>1, ZenonT(30) DEF streamVars, clientView
  <2>3. ClientInv(c)
    BY Zenon DEF StreamInv
  <2> QED BY <2>1, <2>2, <2>3, OtherClient, Zenon
<1> QED BY <1>2, <1>3, <1>4, Zenon DEF Quiet

LEMMA StreamTypeNext ==
  ASSUME StreamInv, [StreamNext]_allVars
  PROVE  StreamType'
<1>0. StreamType /\ clock \in Nat /\ Fresh \in SUBSET Events
  BY Zenon DEF StreamInv, BusInv, LogInv, TypeOK, Fresh
<1>1. CASE Hand
  <2>1. /\ queue' \in [Clients -> Seq(SUBSET Events)]
    <3>1. \A c \in Clients : queue[c] \in Seq(SUBSET Events) /\ Append(queue[c], Fresh) \in Seq(SUBSET Events)
      BY <1>0 DEF StreamType
    <3> QED BY <1>1, <3>1, Zenon DEF Hand, Broadcast
  <2>2. member' \in [Clients -> BOOLEAN]
    <3> DEFINE reach == IF Fresh = {} THEN {} ELSE {c \in Clients : member[c]}
               next(c) == IF c \in reach THEN Len(queue[c]) < Buffer ELSE member[c]
    <3>1. member' = [c \in Clients |-> next(c)]
      BY <1>1, Zenon DEF Hand, Broadcast
    <3>2. \A c \in Clients : next(c) \in BOOLEAN
      <4> SUFFICES ASSUME NEW c \in Clients PROVE next(c) \in BOOLEAN
        BY Zenon
      <4>1. member[c] \in BOOLEAN
        BY <1>0, Zenon DEF StreamType
      <4>2. (Len(queue[c]) < Buffer) \in BOOLEAN
        OBVIOUS
      <4>3. next(c) = (Len(queue[c]) < Buffer) \/ next(c) = member[c]
        BY Zenon
      <4> QED BY <4>1, <4>2, <4>3, ZenonT(30)
    <3> HIDE DEF next
    <3> QED BY <3>1, <3>2, Zenon
  <2>3. since' \in [Clients -> Nat]
    <3>1. \A c \in Clients : since[c] \in Nat
      BY <1>0, Zenon DEF StreamType
    <3> QED BY <1>0, <1>1, <3>1, Zenon DEF Hand, Broadcast
  <2>4. UNCHANGED <<spc, todo, sent, lastSafe, held, got, before, wrote>>
    BY <1>1, Zenon DEF Hand
  <2> QED BY <1>0, <2>1, <2>2, <2>3, <2>4, Zenon DEF StreamType
<1>2. CASE UNCHANGED streamVars
  BY <1>0, <1>2, Zenon DEF StreamType, streamVars
<1>3. CASE StreamRestart
  <2>1. Zero \in Positions /\ [e \in Events |-> 0] \in [Events -> Nat] /\ <<>> \in Seq(SUBSET Events)
    BY DEF Zero, Positions
  <2> QED BY <1>0, <1>3, <2>1, Zenon DEF StreamRestart, StreamType
<1>4. Quiet \/ StreamTick \/ UNCHANGED allVars => UNCHANGED streamVars
  BY ZenonT(30) DEF Quiet, StreamTick, allVars
<1>5. CASE \E d \in Clients : Stream(d)
  BY <1>5, StreamStepTypes, Zenon
<1> QED BY <1>1, <1>2, <1>3, <1>4, <1>5, Zenon DEF StreamNext

LEMMA ClientsInit ==
  ASSUME StreamInit
  PROVE  StreamType /\ \A c \in Clients : ClientInv(c)
<1>2. /\ clock = Start /\ Start \in Nat /\ Overlap \in Nat /\ Overlap <= Start /\ Live = {} /\ tpc = "boot"
  <2>1. Overlap \in Nat
    BY LogConstants, Zenon
  <2>2. clock = Start /\ Live = {} /\ tpc = "boot"
    BY Zenon DEF StreamInit, LogInit, Live
  <2> QED BY <2>1, <2>2 DEF Start
<1>3. StreamType
  <2>1. Zero \in Positions /\ [e \in Events |-> 0] \in [Events -> Nat] /\ <<>> \in Seq(SUBSET Events)
    BY DEF Zero, Positions
  <2> QED BY <1>2, <2>1, Zenon DEF StreamInit, StreamType
<1>4. ASSUME NEW c \in Clients PROVE ClientInv(c)
  <2>1. /\ spc[c] = "off" /\ ~member[c] /\ queue[c] = <<>> /\ todo[c] = {} /\ sent[c] = {} /\ lastSafe[c] = Zero
        /\ held[c] = Zero /\ since[c] = Start /\ \A e \in Events : wrote[c][e] = 0
    BY Zenon DEF StreamInit
  <2>2. Len(queue[c]) = 0 /\ 1..Len(queue[c]) = {} /\ Buffer \in Nat /\ Zero[1] = 0
    BY <2>1, StreamConstants DEF Zero
  <2>3. StateInv(c)
    BY <1>2, <2>1, <2>2 DEF StateInv
  <2>4. QueueInv(c) /\ CoverInv(c)
    BY <2>1, <2>2, ZenonT(30) DEF QueueInv, CoverInv
  <2>5. ResumeInv(c)
    BY <1>2, <2>1, <2>2, SMTT(20) DEF ResumeInv, Reaches
  <2>6. WriteInv(c)
    BY <2>1, <2>2 DEF WriteInv
  <2> QED BY <2>3, <2>4, <2>5, <2>6, Zenon DEF ClientInv
<1> QED BY <1>3, <1>4, Zenon

LEMMA ClientsNext ==
  ASSUME ReadyFirst, OverlapCovers, StreamInv, [StreamNext]_allVars, Hand => HandsOut
  PROVE  StreamType' /\ \A c \in Clients : ClientInv(c)'
<1>1. StreamType'
  BY StreamTypeNext, Zenon
<1>2. ASSUME NEW c \in Clients PROVE ClientInv(c)'
  <2>1. CASE UNCHANGED allVars
    <3>1. /\ UNCHANGED <<clock, row, at, id, cursor, seen, settled, handed, skipped>> /\ tpc' = tpc
          /\ UNCHANGED clientView(c) /\ ClientInv(c)
      BY <2>1, Zenon DEF allVars, logVars, writerVars, tailVars, streamVars, clientView, StreamInv
    <3> QED BY <3>1, OtherClient, Zenon
  <2>2. CASE \E d \in Clients : Stream(d)
    BY <2>2, StreamStepKeeps, Zenon
  <2>3. CASE Hand
    BY <2>3, HandKeeps, Zenon
  <2> QED BY <2>1, <2>2, <2>3, QuietKeeps, StreamRestartKeeps, StreamTickKeeps, Zenon DEF StreamNext
<1> QED BY <1>1, <1>2, Zenon

\* What a stream does to the log: nothing, or a fault.
LEMMA StreamsOnLog ==
  ASSUME [StreamNext]_allVars
  PROVE  [LogNext]_logVars \/ OtherFault
<1>1. ASSUME NEW c \in Clients, Stream(c)
      PROVE  UNCHANGED logVars \/ OtherFault
  <2>1. CASE Drop(c)
    BY <2>1, Zenon DEF Drop, LogFault, OtherFault, writerVars, tailVars
  <2>2. CASE ~Drop(c)
    BY <1>1, <2>2, Zenon DEF Stream, Join, StartFresh, Replay, Resync, Emit, Receive, GivenUp, KeepAlive
  <2> QED BY <2>1, <2>2, Zenon
<1>2. Hand \/ Quiet \/ StreamRestart \/ StreamTick => LogNext
  BY Zenon DEF Hand, Quiet, StreamRestart, StreamTick, LogNext, TailLoop
<1>3. UNCHANGED allVars => UNCHANGED logVars
  BY Zenon DEF allVars
<1> QED BY <1>1, <1>2, <1>3, Zenon DEF StreamNext
=============================================================================
