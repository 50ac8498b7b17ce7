---------------------------- MODULE EventStream ----------------------------
(***************************************************************************)
(* The bus's hub and the /events streams over the event log.               *)
(*                                                                         *)
(* The hub (hive-bus/src/hub.rs) hands each batch of the tailer to every   *)
(* subscriber's queue and gives up on one whose queue is full.  A stream   *)
(* (hive-bus/src/sse.rs) joins the hub, catches its client up from the     *)
(* cursor the client sent, then writes what arrives, attaching a resume    *)
(* point only to positions the watermark has settled.  The client comes    *)
(* back with the last resume point it was given.                           *)
(*                                                                         *)
(* A frame carries its event and its resume point together, and a lost     *)
(* connection loses a suffix of the frames: losing frames in flight is the *)
(* same as the connection breaking before they were written.  Visibility   *)
(* is not modelled here: every client may see every row.                   *)
(***************************************************************************)
EXTENDS EventLog, Sequences

CONSTANTS
  Clients,    \* the clients of /events, one stream each at a time
  ReadyFirst, \* traffic waits for /readyz, which waits for the tailer
  Buffer,     \* batches a subscriber's queue holds
  MaxReplay,  \* the values of SseOptions::max_replay a request may be served with
  Lag         \* how long a batch may wait in a queue or a writer

ASSUME StreamConstants == MaxReplay \cup {Buffer, Lag} \subseteq Nat /\ ReadyFirst \in BOOLEAN

VARIABLES
  spc,       \* a stream: "off", "joined", "replay", "live"
  member,    \* the hub still holds the subscriber's sender
  queue,     \* batches in the subscriber's channel
  todo,      \* rows of the replay or the batch still to be written
  sent,      \* ids this stream wrote
  lastSafe,  \* the stream's last_safe
  held,      \* the resume point the client holds; <<0, 0>> is none
  got,       \* rows a client has received, or reloaded after a resync
  before,    \* rows handed out before the client first asked
  wrote,     \* how often the current stream wrote a row
  since      \* when the oldest work of a stream that is not done arrived

streamVars == <<spc, member, queue, todo, sent, lastSafe, held, got, before, wrote, since>>
allVars == <<logVars, streamVars>>

Max2(p, q) == IF Before(p, q) THEN q ELSE p
Idle(c) == queue[c] = <<>> /\ todo[c] = {} /\ member[c]

StreamInit ==
  /\ LogInit
  /\ spc = [c \in Clients |-> "off"]
  /\ member = [c \in Clients |-> FALSE]
  /\ queue = [c \in Clients |-> <<>>]
  /\ todo = [c \in Clients |-> {}]
  /\ sent = [c \in Clients |-> {}]
  /\ lastSafe = [c \in Clients |-> Zero]
  /\ held = [c \in Clients |-> Zero]
  /\ got = [c \in Clients |-> {}]
  /\ before = [c \in Clients |-> {}]
  /\ wrote = [c \in Clients |-> [e \in Events |-> 0]]
  /\ since = [c \in Clients |-> Start]

-----------------------------------------------------------------------------
(* The hub.                                                                 *)


\* broadcast: a subscriber whose queue is full is dropped, never waited for.
Broadcast(batch) ==
  LET room(c) == Len(queue[c]) < Buffer
      reach == IF batch = {} THEN {} ELSE {c \in Clients : member[c]}
  IN /\ queue' = [c \in Clients |-> IF c \in reach /\ room(c) THEN Append(queue[c], batch)
                                    ELSE queue[c]]
     /\ member' = [c \in Clients |-> IF c \in reach THEN room(c) ELSE member[c]]
     /\ since' = [c \in Clients |-> IF c \in reach /\ Idle(c) THEN clock ELSE since[c]]

\* Everything a stream held is dropped with it.
Ends(c) ==
  /\ spc' = [spc EXCEPT ![c] = "off"]
  /\ member' = [member EXCEPT ![c] = FALSE]
  /\ queue' = [queue EXCEPT ![c] = <<>>]
  /\ todo' = [todo EXCEPT ![c] = {}]
  /\ sent' = [sent EXCEPT ![c] = {}]
  /\ lastSafe' = [lastSafe EXCEPT ![c] = Zero]
  /\ wrote' = [wrote EXCEPT ![c] = [e \in Events |-> 0]]
  /\ UNCHANGED <<before, since>>

-----------------------------------------------------------------------------
(* A stream.                                                                *)

\* What a client that first asks now has no claim to: the rows that are out.
Past == IF tpc = "boot" THEN Visible ELSE {e \in Events : Delivered(e)}

\* serve_events: join the hub before anything is read, whether or not the tailer
\* has found the head of the log yet.
Join(c) ==
  /\ spc[c] = "off"
  /\ ReadyFirst => tpc # "boot"
  /\ spc' = [spc EXCEPT ![c] = "joined"]
  /\ member' = [member EXCEPT ![c] = TRUE]
  /\ before' = [before EXCEPT ![c] = IF held[c] = Zero THEN Past ELSE @]
  /\ since' = [since EXCEPT ![c] = clock]
  /\ UNCHANGED <<logVars, queue, todo, sent, lastSafe, held, got, wrote>>

\* A client without a resume point starts at the live edge, with the watermark
\* as the floor of its checkpoints.
StartFresh(c) ==
  /\ spc[c] = "joined" /\ held[c] = Zero
  /\ spc' = [spc EXCEPT ![c] = "live"]
  /\ lastSafe' = [lastSafe EXCEPT ![c] = <<settled, 0>>]
  /\ UNCHANGED <<logVars, member, queue, todo, sent, held, got, before, wrote, since>>

Backlog(c) == {e \in Visible : Before(held[c], Pos(e))}

\* A client with one is sent what it missed.
Replay(c) ==
  /\ spc[c] = "joined" /\ held[c] # Zero
  /\ \E limit \in MaxReplay : Cardinality(Backlog(c)) <= limit
  /\ todo' = [todo EXCEPT ![c] = Backlog(c)]
  /\ spc' = [spc EXCEPT ![c] = IF Backlog(c) = {} THEN "live" ELSE "replay"]
  /\ UNCHANGED <<logVars, member, queue, sent, lastSafe, held, got, before, wrote, since>>

\* Past the bound it is told to reload and to restart from the watermark; with
\* no watermark the stream ends and the client keeps its resume point.
Resync(c) ==
  /\ spc[c] = "joined" /\ held[c] # Zero
  /\ \E limit \in MaxReplay : Cardinality(Backlog(c)) > limit
  /\ settled # 0
  /\ got' = [got EXCEPT ![c] = @ \cup Visible]
  /\ held' = [held EXCEPT ![c] = <<settled, 0>>]
  /\ lastSafe' = [lastSafe EXCEPT ![c] = <<settled, 0>>]
  /\ spc' = [spc EXCEPT ![c] = "live"]
  /\ UNCHANGED <<logVars, member, queue, todo, sent, before, wrote, since>>


\* emit: a resume point only for a settled row past the last one.
Safe(c, e) == settled # 0 /\ at[e] <= settled /\ Before(lastSafe[c], Pos(e))

\* emit: the next row of the replay or of the batch, oldest first.  After a
\* live batch the dedupe set is pruned behind the newest row written.
Emit(c) ==
  /\ \E e \in todo[c] :
       LET ids  == sent[c] \cup {e}
           done == todo[c] = {e}
       IN /\ \A y \in todo[c] : y = e \/ Before(Pos(e), Pos(y))
          /\ todo' = [todo EXCEPT ![c] = @ \ {e}]
          /\ sent' = [sent EXCEPT ![c] = IF done /\ spc[c] = "live"
                                         THEN {x \in ids : \A y \in ids : at[x] >= at[y] - Retain}
                                         ELSE ids]
          /\ got' = [got EXCEPT ![c] = @ \cup {e}]
          /\ wrote' = [wrote EXCEPT ![c][e] = @ + 1]
          /\ IF Safe(c, e)
             THEN /\ lastSafe' = [lastSafe EXCEPT ![c] = Pos(e)]
                  /\ held' = [held EXCEPT ![c] = Pos(e)]
             ELSE UNCHANGED <<lastSafe, held>>
          /\ spc' = [spc EXCEPT ![c] = IF done THEN "live" ELSE @]
          /\ since' = [since EXCEPT ![c] = IF done THEN clock ELSE @]
  /\ UNCHANGED <<logVars, member, queue, before>>


\* Mutant: the stream's own dedupe set is not consulted.
ReceiveAll(c) ==
  /\ spc[c] = "live" /\ todo[c] = {} /\ queue[c] # <<>>
  /\ todo' = [todo EXCEPT ![c] = Head(queue[c])]
  /\ queue' = [queue EXCEPT ![c] = Tail(@)]
  /\ UNCHANGED <<logVars, spc, member, sent, lastSafe, held, got, before, wrote, since>>

\* sub.recv: the next batch, without what the replay already wrote.
Receive(c) ==
  /\ spc[c] = "live" /\ todo[c] = {} /\ queue[c] # <<>>
  /\ todo' = [todo EXCEPT ![c] = Head(queue[c]) \ sent[c]]
  /\ queue' = [queue EXCEPT ![c] = Tail(@)]
  /\ UNCHANGED <<logVars, spc, member, sent, lastSafe, held, got, before, wrote, since>>

\* sub.recv once the hub gave up: the client is told to come back from the
\* stream's resume point.
GivenUp(c) ==
  /\ spc[c] = "live" /\ todo[c] = {} /\ queue[c] = <<>> /\ ~member[c]
  /\ held' = [held EXCEPT ![c] = Max2(@, lastSafe[c])]
  /\ Ends(c)
  /\ UNCHANGED <<logVars, got>>


\* Mutant: the checkpoint is the newest row the tailer read.
KeepAliveAtCursor(c) ==
  /\ spc[c] = "live" /\ todo[c] = {}
  /\ settled # 0 /\ lastSafe[c][1] < cursor[1]
  /\ lastSafe' = [lastSafe EXCEPT ![c] = cursor]
  /\ held' = [held EXCEPT ![c] = cursor]
  /\ UNCHANGED <<logVars, spc, member, queue, todo, sent, got, before, wrote, since>>

\* The keepalive moves the client's resume point up to the watermark.
KeepAlive(c) ==
  /\ spc[c] = "live" /\ todo[c] = {}
  /\ settled # 0 /\ lastSafe[c][1] < settled
  /\ lastSafe' = [lastSafe EXCEPT ![c] = <<settled, 0>>]
  /\ held' = [held EXCEPT ![c] = <<settled, 0>>]
  /\ UNCHANGED <<logVars, spc, member, queue, todo, sent, got, before, wrote, since>>

\* The connection breaks, a write times out, a read fails or the credential is
\* no longer good: the stream ends without a word.
Drop(c) ==
  /\ spc[c] # "off"
  /\ LogFault
  /\ Ends(c)
  /\ UNCHANGED <<writerVars, bell, wake, tailVars, held, got>>

Stream(c) ==
  \/ Join(c) \/ StartFresh(c) \/ Replay(c) \/ Resync(c)
  \/ Emit(c) \/ Receive(c) \/ GivenUp(c) \/ KeepAlive(c) \/ Drop(c)

-----------------------------------------------------------------------------
(* The bus and its streams together.                                        *)

\* The tailer's reads hand their fresh rows to the hub.
Hand ==
  /\ Drain \/ Sweep
  /\ Broadcast(Fresh)
  /\ UNCHANGED <<spc, todo, sent, lastSafe, held, got, before, wrote>>

\* The log's other steps do not touch the streams.
Quiet ==
  /\ Write \/ Listen \/ Boot \/ Woken \/ Polled \/ CycleFails
  /\ UNCHANGED streamVars

\* The daemon restarts: the connections break with it.
StreamRestart ==
  /\ Restart
  /\ spc' = [c \in Clients |-> "off"]
  /\ member' = [c \in Clients |-> FALSE]
  /\ queue' = [c \in Clients |-> <<>>]
  /\ todo' = [c \in Clients |-> {}]
  /\ sent' = [c \in Clients |-> {}]
  /\ lastSafe' = [c \in Clients |-> Zero]
  /\ wrote' = [c \in Clients |-> [e \in Events |-> 0]]
  /\ UNCHANGED <<held, got, before, since>>

\* Time passes while no stream has had work for longer than Lag.
StreamTick ==
  /\ Tick
  /\ \A c \in Clients : spc[c] = "off" \/ (spc[c] = "live" /\ Idle(c)) \/ clock < since[c] + Lag
  /\ UNCHANGED streamVars

StreamNext == Hand \/ Quiet \/ StreamRestart \/ StreamTick \/ \E c \in Clients : Stream(c)

StreamSpec == StreamInit /\ [][StreamNext]_allVars

-----------------------------------------------------------------------------
(* Properties.                                                              *)

\* "The watermark a subscriber may safely resume from": a client never holds a
\* resume point past a row it has not received, however writers commit, the
\* connection breaks or the hub gives up on it.
ResumeNeverSkips ==
  \A c \in Clients : \A e \in Live :
    held[c] # Zero /\ ~Before(held[c], Pos(e)) => e \in got[c] \cup before[c]

\* The hub is joined before history is read and ids are remembered: a row that
\* is in the replay and in a batch is written once.
WrittenOnce == \A c \in Clients : \A e \in Events : wrote[c][e] <= 1
=============================================================================
