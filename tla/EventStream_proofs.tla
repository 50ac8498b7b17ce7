------------------------- MODULE EventStream_proofs -------------------------
(***************************************************************************)
(* Theorems about the streams over the event log, for any number of rows   *)
(* and clients, any batch limit, queue, failed cycles and restarts.  The   *)
(* invariant and its steps are in EventClients_proofs for the streams and  *)
(* in EventLog_proofs for the log under them; here they come together.     *)
(***************************************************************************)
EXTENDS EventClients_proofs, EventLog_proofs

LEMMA StreamInvInit == StreamInit => StreamInv
BY ClientsInit, BusInvInit DEF StreamInit, StreamInv

LEMMA StreamInvNext ==
  ASSUME ReadyFirst, OverlapCovers, StreamInv, WindowFits, [StreamNext]_allVars
  PROVE  StreamInv'
<1>1. BusInv
  BY DEF StreamInv
<1>2. Overlap >= MaxTx + (MaxFaults + 1) * Poll
  BY OverlapBounds
<1>3. BusInv'
  BY <1>1, <1>2, StreamsOnLog, BusInvNext, OtherFaultKeeps, SMTT(20)
<1>4. Hand => HandsOut
  BY <1>1, HandingOut DEF Hand
<1> QED BY <1>3, <1>4, ClientsNext DEF StreamInv

\* The resume points sse.rs hands out are safe: a client never holds one past a
\* row it has not received, however writers' transactions overlap, reads fail,
\* connections break, the hub gives up on a slow client or the daemon restarts.
\* Traffic must wait for the tailer, the window's read must fit its limit, and
\* the overlap must outlast a transaction, the failed cycles and a full queue.
THEOREM ResumeIsSafe ==
  ASSUME ReadyFirst, OverlapCovers
  PROVE  StreamSpec /\ []WindowFits => []ResumeNeverSkips
<1>1. StreamInit => StreamInv
  BY StreamInvInit
<1>2. StreamInv /\ WindowFits /\ [StreamNext]_allVars => StreamInv'
  BY StreamInvNext
<1>3. StreamInv => ResumeNeverSkips
  BY ZenonT(30) DEF StreamInv, ClientInv, ResumeInv, Reaches, ResumeNeverSkips
<1> QED BY <1>1, <1>2, <1>3, PTL DEF StreamSpec

\* One stream never writes a row twice: what a replay and a batch both hold, or a
\* second read of the window brings back, is in the dedupe set of the stream or
\* of the tailer until it can no longer arrive.
THEOREM NothingIsWrittenTwice ==
  ASSUME ReadyFirst, OverlapCovers
  PROVE  StreamSpec /\ []WindowFits => []WrittenOnce
<1>1. StreamInit => StreamInv
  BY StreamInvInit
<1>2. StreamInv /\ WindowFits /\ [StreamNext]_allVars => StreamInv'
  BY StreamInvNext
<1>3. StreamInv => WrittenOnce
  BY ZenonT(30) DEF StreamInv, ClientInv, WriteInv, WrittenOnce
<1> QED BY <1>1, <1>2, <1>3, PTL DEF StreamSpec
=============================================================================
