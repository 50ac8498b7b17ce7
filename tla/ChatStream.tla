----------------------------- MODULE ChatStream -----------------------------
(***************************************************************************)
(* A reply as it streams: hive-httpapi's chatstream over hive-chat's Hub.  *)
(*                                                                         *)
(* A worker writes every event of its run to agent_run_events and then     *)
(* publishes it to the hub, which hands it to a subscriber whose buffer    *)
(* has room and drops it otherwise.  A stream subscribes, replays from the *)
(* table what is after the client's cursor, page by page, and then follows *)
(* the hub, going back to the table when it sees a gap within a turn.      *)
(*                                                                         *)
(* A frame is <<request_seq, seq>>; its text and its type are left out.    *)
(* One conversation and one client, which loses its connection and comes   *)
(* back with the last id it has, or reloads the page and comes back with   *)
(* none.  Time is counted in ticks of the authorisation's recheck.         *)
(***************************************************************************)
EXTENDS Naturals, Sequences, FiniteSets

CONSTANTS
  Turns,         \* requests of the conversation are 1..Turns
  Buffer,        \* the subscriber's channel
  Page, Pages,   \* REPLAY_PAGE and REPLAY_PAGES
  Window,        \* STREAM_AUTH_RECHECK in ticks
  Budgets        \* bounds to explore: frames of one run, connects, crashes, failed
                 \* reads and revocations

ASSUME ChatStreamConstants ==
  /\ {Turns, Window} \subseteq Nat /\ {Buffer, Page, Pages} \subseteq Nat \ {0}
  /\ Budgets \subseteq [{"frames", "connects", "crashes", "errors", "revokes"} -> Nat]

VARIABLES
  turn, table,   \* chat_turns' state, and how many events of its run are stored
  writer,        \* the worker of a turn: idle, running, stored (not yet published), over
  sub,           \* the subscriber's channel, or <<None>> when there is none
  pc,            \* the stream: off, open, replay, live, or fill (a gap)
  last,          \* the position of the last frame sent
  rows, pages,   \* what is left of a page that was read, and of the pages
  pend,          \* the hub's frame that showed a gap
  confirmed,     \* ticks since the authorisation was confirmed
  revoked,       \* no, or what was revoked: the grant or the token
  got,           \* the frames sent to the client since its page was loaded
  budget,        \* what may still happen in this behaviour
  (* history: *)
  from, kept,    \* where the connection began, and how much of got was before it
  dropped,       \* frames the hub dropped for this connection
  short,         \* a replay of this connection failed or ran out of pages
  late,          \* turns that were reclaimed while their worker lived
  since          \* ticks since a live stream was revoked

workVars == <<turn, table, writer, late>>
connVars == <<from, kept, short>>
vars == <<turn, table, writer, late, sub, pc, last, rows, pages, pend, confirmed, revoked,
          got, budget, from, kept, dropped, short, since>>

\* No subscriber, and no cursor: there is no turn 0.
None  == <<0, 0>>
Start == <<0, 0>>
Turn  == 1..Turns

Init ==
  /\ turn = [t \in Turn |-> "none"] /\ table = [t \in Turn |-> 0]
  /\ writer = [t \in Turn |-> "idle"]
  /\ sub = <<None>> /\ pc = "off" /\ last = Start /\ rows = {} /\ pages = 0 /\ pend = Start
  /\ confirmed = 0 /\ revoked = "no" /\ got = <<>> /\ budget \in Budgets
  /\ from = Start /\ kept = 0 /\ dropped = {} /\ short = FALSE /\ late = {} /\ since = 0

\* StreamCursor::before.
Before(f, g) == f[1] < g[1] \/ (f[1] = g[1] /\ f[2] < g[2])

Stored == {f \in Turn \X (1..budget.frames) : f[2] <= table[f[1]]}
Spend(what) == budget[what] > 0 /\ budget' = [budget EXCEPT ![what] = @ - 1]

-----------------------------------------------------------------------------
(* The worker and the hub *)

\* Hub::publish: try_send to the subscriber.
Publish(u) ==
  LET room == Len(sub) < Buffer
  IN IF sub = <<None>> THEN UNCHANGED <<sub, dropped>>
     ELSE /\ sub' = IF room THEN Append(sub, u) ELSE sub
          /\ dropped' = IF room \/ u[2] = 0 THEN dropped ELSE dropped \cup {u}

\* An update that is not a frame has sequence 0.
TurnUpdate(t) == <<t, 0>>

streamVars == <<pc, last, rows, pages, pend, confirmed, revoked, got, from, kept, short, since>>

\* post_message opens a turn.
Post(t) ==
  /\ turn[t] = "none" /\ \A u \in 1..(t - 1) : turn[u] # "none"
  /\ turn' = [turn EXCEPT ![t] = "pending"]
  /\ UNCHANGED <<table, writer, late, sub, dropped, budget>> /\ UNCHANGED streamVars

\* run_one: the turn is claimed, announced and run.
Claim(t) ==
  /\ turn[t] = "pending" /\ \A u \in 1..(t - 1) : turn[u] # "claimed" /\ turn[u] # "pending"
  /\ turn' = [turn EXCEPT ![t] = "claimed"] /\ writer' = [writer EXCEPT ![t] = "running"]
  /\ Publish(TurnUpdate(t))
  /\ UNCHANGED <<table, late, budget>> /\ UNCHANGED streamVars

\* on_event, "Durable FIRST": append_event ...
AppendEvent(t) ==
  /\ writer[t] = "running" /\ table[t] < budget.frames
  /\ table' = [table EXCEPT ![t] = @ + 1] /\ writer' = [writer EXCEPT ![t] = "stored"]
  /\ UNCHANGED <<turn, late, sub, dropped, budget>> /\ UNCHANGED streamVars

\* ... and then publish.
PublishEvent(t) ==
  /\ writer[t] = "stored" /\ writer' = [writer EXCEPT ![t] = "running"]
  /\ Publish(<<t, table[t]>>)
  /\ UNCHANGED <<turn, table, late, budget>> /\ UNCHANGED streamVars

\* finish or fail: the turn is closed if it is still open, and announced.
Answer(t, state) ==
  /\ writer[t] = "running" /\ writer' = [writer EXCEPT ![t] = "over"]
  /\ turn' = [turn EXCEPT ![t] = IF @ = "claimed" THEN state ELSE @]
  /\ Publish(TurnUpdate(t))
  /\ UNCHANGED <<table, late, budget>> /\ UNCHANGED streamVars

\* reclaim: a lapsed turn is failed, its worker dead or only slow.
Reclaim(t) ==
  /\ turn[t] = "claimed" /\ turn' = [turn EXCEPT ![t] = "failed"]
  /\ late' = IF writer[t] = "over" THEN late ELSE late \cup {t}
  /\ Publish(TurnUpdate(t))
  /\ UNCHANGED <<table, writer, budget>> /\ UNCHANGED streamVars

-----------------------------------------------------------------------------
(* The stream *)

\* Mutant: the hub is joined once the replay is over.
JoinsLate(step) == step = "live"

\* "Subscribed BEFORE the connect-time replay".
Joins(step) == step = "connect"

\* The cursor a client comes back with: the last id it saw, or none.
Cursor(seen) == IF seen = <<>> THEN Start ELSE seen[Len(seen)]

\* resolve_credential, as the request's authenticator asks it: the token is not
\* revoked or expired, and its actor is not disabled.
TokenResolves == revoked # "token"

\* A request, with the credential resolved and the hub joined; a page that is
\* reloaded has no cursor.
Connect(reload) ==
  /\ pc = "off" /\ TokenResolves /\ Spend("connects")
  /\ got' = IF reload THEN <<>> ELSE got
  /\ pc' = "open" /\ last' = Cursor(got') /\ sub' = IF Joins("connect") THEN <<>> ELSE <<None>>
  /\ kept' = Len(got') /\ dropped' = {} /\ short' = FALSE
  /\ UNCHANGED <<rows, pages, pend, confirmed, revoked, from, since>> /\ UNCHANGED workVars

\* The stream ends: dropped with its subscription, and the client has some of
\* what was sent.
Ends ==
  /\ pc' = "off" /\ sub' = <<None>> /\ rows' = {} /\ pages' = 0 /\ pend' = Start
  /\ \E n \in kept..Len(got) : got' = SubSeq(got, 1, n)
  /\ last' = Start /\ confirmed' = 0 /\ since' = 0 /\ dropped' = {} /\ from' = Start /\ kept' = 0
  /\ short' = FALSE

\* open_turns: the turns that have not been answered yet.
Unanswered == {t \in Turn : turn[t] \in {"pending", "claimed"}}

\* open_turns is also the authorisation.  A fresh subscriber starts with the
\* turn in flight.
OpenTurns ==
  /\ pc = "open"
  /\ IF revoked # "grant"
     THEN LET at == IF last = Start /\ Unanswered # {}
                    THEN <<CHOOSE t \in Unanswered : \A u \in Unanswered : t <= u, 0>> ELSE last
          IN /\ last' = at /\ from' = at /\ pc' = "replay" /\ pages' = Pages
             /\ UNCHANGED <<sub, rows, pend, confirmed, got, kept, dropped, short, since>>
     ELSE Ends
  /\ UNCHANGED <<revoked, budget>> /\ UNCHANGED workVars

\* turn_events, with the grant asked again, up to the gap that is filled; a
\* short page, a row past the gap or an error is the last.
Replaying == pc \in {"replay", "fill"} /\ rows = {} /\ pages > 0

\* ORDER BY request_seq, seq LIMIT n: the frames with fewer than n before them.
Firsts(fs, n) == {f \in fs : Cardinality({g \in fs : Before(g, f)}) < n}

TurnEvents == Firsts({f \in Stored : Before(last, f)}, Page)

ReadPage ==
  /\ Replaying /\ revoked # "grant"
  /\ LET page == TurnEvents
         want == {f \in page : pc = "replay" \/ ~Before(pend, f)}
         end  == Cardinality(page) < Page \/ want # page
     IN /\ rows' = want
        /\ pages' = IF end THEN 0 ELSE pages - 1
        /\ short' = (short \/ (~end /\ pages = 1))
  /\ UNCHANGED <<sub, pc, last, pend, confirmed, revoked, got, budget, from, kept, dropped, since>>
  /\ UNCHANGED workVars

ReadFails ==
  /\ Replaying
  /\ IF revoked = "grant" THEN UNCHANGED budget ELSE Spend("errors")
  /\ pages' = 0 /\ short' = TRUE
  /\ UNCHANGED <<sub, pc, last, rows, pend, confirmed, revoked, got, from, kept, dropped, since>>
  /\ UNCHANGED workVars

\* emit_frame.
Emit(f) == got' = Append(got, f) /\ last' = f

EmitRow ==
  /\ \E f \in rows : /\ \A g \in rows : g = f \/ Before(f, g)
                     /\ Emit(f) /\ rows' = rows \ {f}
  /\ UNCHANGED <<sub, pc, pages, pend, confirmed, revoked, budget, from, kept, dropped, short, since>>
  /\ UNCHANGED workVars

\* The replay is over: the stream is live, or sends the frame that showed the gap.
ReplayDone ==
  /\ pc \in {"replay", "fill"} /\ rows = {} /\ pages = 0
  /\ pc' = "live" /\ pend' = Start
  /\ IF pc = "replay"
     THEN /\ confirmed' = 0 /\ since' = 0 /\ sub' = IF Joins("live") THEN <<>> ELSE sub
          /\ UNCHANGED <<got, last>>
     ELSE /\ IF Before(last, pend) THEN Emit(pend) ELSE UNCHANGED <<got, last>>
          /\ UNCHANGED <<confirmed, since, sub>>
  /\ UNCHANGED <<rows, pages, revoked, budget, from, kept, dropped, short>> /\ UNCHANGED workVars

\* Mutant: the grant is not asked again.
AuthorisedByToken == confirmed < Window \/ TokenResolves

\* authorised: confirmed lately, or again now.
Authorised == confirmed < Window \/ (TokenResolves /\ revoked # "grant")
Reconfirm  == confirmed' = IF confirmed < Window THEN confirmed ELSE 0

\* Mutant: what the replay sent is sent again.
AlreadySentLater(f) == FALSE

\* "Already sent during replay, or an older frame".
AlreadySent(f) == ~Before(last, f)

\* gap_before.
GapBefore(f) == f[1] = last[1] /\ f[2] > last[2] + 1

Receive ==
  /\ pc = "live" /\ sub # <<>> /\ sub # <<None>>
  /\ IF Authorised
     THEN LET f == Head(sub)
              skip == f[2] = 0 \/ AlreadySent(f)
          IN /\ sub' = Tail(sub) /\ Reconfirm
             /\ IF skip THEN UNCHANGED <<got, last, pc, pages, pend>>
                ELSE IF GapBefore(f)
                THEN pc' = "fill" /\ pend' = f /\ pages' = Pages /\ UNCHANGED <<got, last>>
                ELSE Emit(f) /\ UNCHANGED <<pc, pages, pend>>
             /\ UNCHANGED <<rows, from, kept, dropped, short, since>>
     ELSE Ends
  /\ UNCHANGED <<revoked, budget>> /\ UNCHANGED workVars

\* The keepalive asks as well.
KeepAlive ==
  /\ pc = "live" /\ confirmed >= Window
  /\ IF Authorised
     THEN Reconfirm /\ UNCHANGED <<sub, pc, last, rows, pages, pend, got, from, kept, dropped,
                                   short, since>>
     ELSE Ends
  /\ UNCHANGED <<revoked, budget>> /\ UNCHANGED workVars

\* The client goes away, or a write times out.
Disconnect == pc # "off" /\ Ends /\ UNCHANGED <<revoked, budget>> /\ UNCHANGED workVars

-----------------------------------------------------------------------------

\* "log out everywhere", or "unshare this thread".
Revoke(what) ==
  /\ Spend("revokes") /\ revoked' = what /\ since' = 0
  /\ UNCHANGED <<sub, pc, last, rows, pages, pend, confirmed, got, dropped>>
  /\ UNCHANGED connVars /\ UNCHANGED workVars

\* Time passes while a stream waits; it matters only where something is or
\* will be revoked.
Tick ==
  /\ pc = "live" /\ confirmed <= Window /\ (budget.revokes > 0 \/ revoked # "no")
  /\ confirmed' = confirmed + 1 /\ since' = IF revoked = "no" THEN 0 ELSE since + 1
  /\ UNCHANGED <<sub, pc, last, rows, pages, pend, revoked, got, budget, dropped>>
  /\ UNCHANGED connVars /\ UNCHANGED workVars

\* The daemon dies with its workers, its hub and its streams.
Crash ==
  /\ Spend("crashes") /\ Ends
  /\ writer' = [t \in Turn |-> IF writer[t] = "idle" THEN "idle" ELSE "over"]
  /\ UNCHANGED <<turn, table, late, revoked>>

Next ==
  \/ \E t \in Turn : \/ Post(t) \/ Claim(t) \/ AppendEvent(t) \/ PublishEvent(t) \/ Reclaim(t)
                     \/ \E state \in {"done", "failed"} : Answer(t, state)
  \/ \E reload \in BOOLEAN : Connect(reload)
  \/ OpenTurns \/ ReadPage \/ ReadFails \/ EmitRow \/ ReplayDone \/ Receive \/ KeepAlive
  \/ Disconnect \/ Tick \/ Crash
  \/ \E what \in {"grant", "token"} : Revoke(what)

Spec == Init /\ [][Next]_vars

-----------------------------------------------------------------------------

\* The client sees the frames in order and each once, across replays, gaps that
\* are filled and reconnects with the last id it has (`run`, `replay`).
FramesInOrder == \A i \in 1..(Len(got) - 1) : Before(got[i], got[i + 1])

\* A stored frame after the point a connection began at that a live stream
\* neither sent nor will be handed.
Sent(f)    == \E i \in DOMAIN got : got[i] = f
Queued(f)  == \E i \in DOMAIN sub : sub[i] = f
Missing(f) == /\ Before(from, f) /\ ~Sent(f) /\ ~Queued(f)
              /\ ~(writer[f[1]] = "stored" /\ f[2] = table[f[1]])
Inside(f)  == \E i \in (kept + 1)..(Len(got) - 1) :
                got[i][1] = f[1] /\ got[i + 1][1] = f[1] /\ Before(got[i], f) /\ Before(f, got[i + 1])

\* A live stream whose reads succeeded has missed a frame only if the hub
\* dropped it, and never one between two frames of its turn; the exception is
\* a turn that was reclaimed under its worker, whose late frames sort behind
\* what was sent.  Nothing falls between the replay and the hub.
MissedOnlyIfDropped ==
  pc = "live" /\ ~short =>
    \A f \in Stored : Missing(f) => f[1] \in late \/ (f \in dropped /\ ~Inside(f))

\* "Log out everywhere" and "unshare this thread" each "end delivery within the
\* window": no frame of the hub is sent to a stream that was live and revoked
\* for longer than it (`authorised`).
RevokedIsCutOff == [][pc = "live" /\ since > Window => Len(got') <= Len(got) /\ pc' # "fill"]_vars

\* Does not hold (README, "Divergences").  "A subscriber that misses one
\* reconnects and reads it": no stored frame is behind the cursor the client
\* would come back with that it has not seen.
MissedIsReadAgain ==
  pc = "live" /\ ~short => \A f \in Stored : Missing(f) => Before(Cursor(got), f)
=============================================================================
