------------------------------ MODULE ChatTurns ------------------------------
(***************************************************************************)
(* The chat turn ledger and the workers that answer it.                    *)
(*                                                                         *)
(* A user message opens a turn in the transaction that stores the message  *)
(* (hive-store/src/chat.rs).  A worker loop (hive-chat/src/worker.rs)      *)
(* claims the oldest ready turn with a lease, records a run                *)
(* (hive-store/src/agentruns.rs), supervises one agent process, posts the  *)
(* answer and closes the turn.  A heartbeat extends the lease while the    *)
(* process runs; a reclaimer fails turns whose lease lapsed.               *)
(*                                                                         *)
(* Every database call is one step, so everything that can happen between  *)
(* two calls of a worker can happen here.  A call may also fail (Fault),   *)
(* a lease may lapse under a live worker, and a daemon may crash and       *)
(* restart; one budget, MaxFaults, bounds the three together.              *)
(***************************************************************************)
EXTENDS Naturals, Sequences

CONSTANTS
  Conversations, Turns,  \* the threads, and the user messages people may post
  ConvOf,                \* the conversation a message is posted to
  Procs, Loops, ProcOf,  \* daemons, their work loops; claims carry the daemon's name
  NoTurn, NoProc,        \* no row, no name
  MaxFaults,             \* failed calls, slow workers and crashes in one behaviour
  MaxLines               \* lines one agent process may print

ASSUME ConvOfAssumption == ConvOf \in [Turns -> Conversations]
ASSUME ProcOfAssumption == ProcOf \in [Loops -> Procs]
ASSUME NoTurnAssumption == NoTurn \notin Turns
ASSUME NoProcAssumption == NoProc \notin Procs
ASSUME BoundsAssumption == MaxFaults \in Nat /\ MaxLines \in Nat

VARIABLES
  turn,       \* chat_turns.state; "absent" before the message is posted
  born,       \* order of creation: chat_turns.created_at and request_seq
  claimedBy,  \* chat_turns.claimed_by
  lapsed,     \* chat_turns.lease_expires_at < now
  run,        \* agent_runs.state of the turn's run; "none" when there is no row
  overdue,    \* agent_runs.deadline_at + grace < now
  log,        \* agent_run_events of a conversation, in the order they became visible
  thread,     \* chat_messages of a conversation
  session,    \* chat_sessions.session_id, as the turn whose run announced it
  posts,      \* how many turns were opened
  pc,         \* where a work loop is
  cur,        \* the ClaimedTurn a loop holds
  resumed,    \* the session the loop read before it launched
  lost,       \* the loop's cancellation token
  drainErr,   \* an event callback failed: nothing more is delivered
  seq,        \* the Drainer's line counter
  outcome,    \* RunResult.state
  notifying,  \* turns a daemon's reclaimer failed and has not announced yet
  launched,   \* how many agent processes were started for a turn
  faults

turnRows == <<turn, born, claimedBy, lapsed>>
runRows  == <<run, overdue, log>>
drain    == <<drainErr, seq>>
loopVars == <<pc, cur, resumed, lost, drain, outcome>>
vars == <<turnRows, runRows, thread, session, posts, loopVars, notifying, launched, faults>>

TurnStates == {"absent", "pending", "claimed", "done", "failed"}
Open       == {"pending", "claimed"}
RunEnds    == {"succeeded", "failed", "cancelled"}  \* "failed": deadline_exceeded too
RunStates  == {"none", "running", "indeterminate"} \cup RunEnds
Roles      == {"user", "agent", "system"}
Steps      == {"idle", "prepare", "create", "launch", "running", "record", "session",
               "post", "close", "notify", "closeFailed"}

Message(role, t) == [role |-> role, turn |-> t]

\* A call that fails, a worker that is slow, a daemon that dies.
Fault == faults < MaxFaults /\ faults' = faults + 1

Init ==
  /\ turn = [t \in Turns |-> "absent"]
  /\ born = [t \in Turns |-> 0]
  /\ claimedBy = [t \in Turns |-> NoProc]
  /\ lapsed = [t \in Turns |-> FALSE]
  /\ run = [t \in Turns |-> "none"]
  /\ overdue = [t \in Turns |-> FALSE]
  /\ log = [c \in Conversations |-> <<>>]
  /\ thread = [c \in Conversations |-> <<>>]
  /\ session = [c \in Conversations |-> NoTurn]
  /\ posts = 0
  /\ pc = [l \in Loops |-> "idle"]
  /\ cur = [l \in Loops |-> NoTurn]
  /\ resumed = [l \in Loops |-> NoTurn]
  /\ lost = [l \in Loops |-> FALSE]
  /\ drainErr = [l \in Loops |-> FALSE]
  /\ seq = [l \in Loops |-> 0]
  /\ outcome = [l \in Loops |-> "failed"]
  /\ notifying = [p \in Procs |-> {}]
  /\ launched = [t \in Turns |-> 0]
  /\ faults = 0

-----------------------------------------------------------------------------
(* The store: one operator per statement or transaction.                    *)

\* post_message: the sequence is assigned in the transaction that appends.
PostMessage(role, t) ==
  thread' = [thread EXCEPT ![ConvOf[t]] = Append(@, Message(role, t))]

\* post_message with role "user" also opens the turn, in the same transaction.
PostUserMessage(t) ==
  /\ turn[t] = "absent"
  /\ PostMessage("user", t)
  /\ turn' = [turn EXCEPT ![t] = "pending"]
  /\ born' = [born EXCEPT ![t] = posts + 1]
  /\ posts' = posts + 1
  /\ UNCHANGED <<claimedBy, lapsed, runRows, session, loopVars, notifying, launched, faults>>


\* Mutant: claim_turn without the NOT EXISTS.
ReadyAnyPending(t) == turn[t] = "pending"

\* claim_turn's WHERE: pending, and no earlier turn of its conversation is open.
Ready(t) ==
  /\ turn[t] = "pending"
  /\ \A u \in Turns : ConvOf[u] = ConvOf[t] /\ born[u] < born[t] => turn[u] \notin Open

\* claim_turn's ORDER BY created_at LIMIT 1.
Oldest(t) == \A u \in Turns : Ready(u) => born[t] <= born[u]


\* close_turn: only a claimed turn moves; zero rows is success.
CloseTurn(t, state) ==
  turn' = IF turn[t] = "claimed" THEN [turn EXCEPT ![t] = state] ELSE turn


\* AgentRunStore::finish: only a running row moves; the first writer wins.
FinishRow(t, state) ==
  run' = IF run[t] = "running" THEN [run EXCEPT ![t] = state] ELSE run

-----------------------------------------------------------------------------
(* A work loop: run_one, answer, finish and fail, call by call.             *)

Goto(l, step) == pc' = [pc EXCEPT ![l] = step]

\* The loop lets go of its turn and asks for the next one.
Idle(l) ==
  /\ Goto(l, "idle")
  /\ cur' = [cur EXCEPT ![l] = NoTurn]
  /\ resumed' = [resumed EXCEPT ![l] = NoTurn]
  /\ lost' = [lost EXCEPT ![l] = FALSE]
  /\ drainErr' = [drainErr EXCEPT ![l] = FALSE]
  /\ seq' = [seq EXCEPT ![l] = 0]
  /\ outcome' = [outcome EXCEPT ![l] = "failed"]

\* run_one: claim_turn takes the oldest ready turn for one lease.
ClaimTurn(l, t) ==
  /\ pc[l] = "idle"
  /\ Ready(t) /\ Oldest(t)
  /\ turn' = [turn EXCEPT ![t] = "claimed"]
  /\ claimedBy' = [claimedBy EXCEPT ![t] = ProcOf[l]]
  /\ lapsed' = [lapsed EXCEPT ![t] = FALSE]
  /\ Goto(l, "prepare")
  /\ cur' = [cur EXCEPT ![l] = t]
  /\ UNCHANGED <<born, runRows, thread, session, posts, resumed, lost, drain, outcome,
                 notifying, launched, faults>>

\* answer, up to resume_session: pins, workspace and store handle, then the
\* session this run resumes.  Any of them may fail, which fails the turn.
Prepare(l) ==
  /\ pc[l] = "prepare"
  /\ \/ /\ resumed' = [resumed EXCEPT ![l] = session[ConvOf[cur[l]]]]
        /\ Goto(l, "create")
        /\ UNCHANGED faults
     \/ Fault /\ Goto(l, "notify") /\ UNCHANGED resumed
  /\ UNCHANGED <<turnRows, runRows, thread, session, posts, cur, lost, drain, outcome,
                 notifying, launched>>

\* create_run: agent_runs_turn_uq admits one run row per turn.
CreateRun(l) ==
  /\ pc[l] = "create"
  /\ \/ /\ run[cur[l]] = "none"
        /\ run' = [run EXCEPT ![cur[l]] = "running"]
        /\ Goto(l, "launch")
        /\ UNCHANGED faults
     \/ /\ IF run[cur[l]] = "none" THEN Fault ELSE UNCHANGED faults
        /\ Goto(l, "notify")
        /\ UNCHANGED run
  /\ UNCHANGED <<turnRows, overdue, log, thread, session, posts, cur, resumed, lost, drain,
                 outcome, notifying, launched>>

\* Mutant: the process is started again when the first start seems to fail.
LaunchRetries(l) ==
  /\ pc[l] = "launch"
  /\ launched' = [launched EXCEPT ![cur[l]] = @ + 1]
  /\ \/ Goto(l, "running") /\ UNCHANGED faults
     \/ Fault /\ Goto(l, "launch")
  /\ UNCHANGED <<turnRows, runRows, thread, session, posts, cur, resumed, lost, drain,
                 outcome, notifying>>

\* sup.run: the heartbeat and the agent process start.  A spec the supervisor
\* refuses yields no result at all, so nothing is recorded on the run row.
Launch(l) ==
  /\ pc[l] = "launch"
  /\ \/ /\ launched' = [launched EXCEPT ![cur[l]] = @ + 1]
        /\ Goto(l, "running")
        /\ UNCHANGED faults
     \/ Fault /\ Goto(l, "notify") /\ UNCHANGED launched
  /\ UNCHANGED <<turnRows, runRows, thread, session, posts, cur, resumed, lost, drain,
                 outcome, notifying>>

\* on_event: one autocommit INSERT per line, whatever state the run row is in.
\* A failed append stops delivery, not the process.
EmitLine(l) ==
  /\ pc[l] = "running"
  /\ ~drainErr[l]
  /\ seq[l] < MaxLines
  /\ seq' = [seq EXCEPT ![l] = @ + 1]
  /\ \/ /\ log' = [log EXCEPT ![ConvOf[cur[l]]] = Append(@, <<cur[l], seq[l] + 1>>)]
        /\ UNCHANGED <<drainErr, faults>>
     \/ Fault /\ drainErr' = [drainErr EXCEPT ![l] = TRUE] /\ UNCHANGED log
  /\ UNCHANGED <<turnRows, run, overdue, thread, session, posts, pc, cur, resumed, lost, outcome,
                 notifying, launched>>

\* The heartbeat: extend_lease on a claim that is still this daemon's, else the
\* run is cancelled.  (A heartbeat whose call fails changes nothing.)
Heartbeat(l) ==
  /\ pc[l] = "running" /\ ~lost[l]
  /\ IF turn[cur[l]] = "claimed" /\ claimedBy[cur[l]] = ProcOf[l]
     THEN lapsed' = [lapsed EXCEPT ![cur[l]] = FALSE] /\ UNCHANGED lost
     ELSE lost' = [lost EXCEPT ![l] = TRUE] /\ UNCHANGED lapsed
  /\ UNCHANGED <<turn, born, claimedBy, runRows, thread, session, posts, pc, cur, resumed, drain,
                 outcome, notifying, launched, faults>>

\* The states the supervisor's terminal_state can give this loop's run.  An
\* exit 0 that raced the cancellation is a success; a failed drain never is.
Endings(l) ==
  {IF lost[l] THEN "cancelled" ELSE "failed"} \cup (IF drainErr[l] THEN {} ELSE {"succeeded"})

\* sup.run returns: the process is gone and the heartbeat is aborted.
ProcessEnds(l, end) ==
  /\ pc[l] = "running"
  /\ end \in Endings(l)
  /\ outcome' = [outcome EXCEPT ![l] = end]
  /\ Goto(l, "record")
  /\ UNCHANGED <<turnRows, runRows, thread, session, posts, cur, resumed, lost, drain,
                 notifying, launched, faults>>


\* Mutant: the run's terminal state is not looked at.
RecordRunAnyState(l) ==
  /\ pc[l] = "record"
  /\ FinishRow(cur[l], outcome[l])
  /\ Goto(l, "session")
  /\ UNCHANGED <<turnRows, overdue, log, thread, session, posts, cur, resumed, lost, drain,
                 outcome, notifying, launched, faults>>

\* finish_run; an error is only logged.  Anything but a success fails the turn.
RecordRun(l) ==
  /\ pc[l] = "record"
  /\ \/ FinishRow(cur[l], outcome[l]) /\ UNCHANGED faults
     \/ Fault /\ UNCHANGED run
  /\ Goto(l, IF outcome[l] = "succeeded" THEN "session" ELSE "notify")
  /\ UNCHANGED <<turnRows, overdue, log, thread, session, posts, cur, resumed, lost, drain,
                 outcome, notifying, launched>>


\* record_session: the id the run announced, else the one it resumed; an empty
\* id is ignored, an error only logged.
RecordSession(l, announced) ==
  /\ pc[l] = "session"
  /\ LET id == IF announced THEN cur[l] ELSE resumed[l]
     IN \/ /\ session' = IF id = NoTurn THEN session
                         ELSE [session EXCEPT ![ConvOf[cur[l]]] = id]
           /\ UNCHANGED faults
        \/ Fault /\ UNCHANGED session
  /\ Goto(l, "post")
  /\ UNCHANGED <<turnRows, runRows, thread, posts, cur, resumed, lost, drain, outcome,
                 notifying, launched>>


\* Mutant: an answer that could not be posted is only logged.
PostAnswerUnchecked(l) ==
  /\ pc[l] = "post"
  /\ \/ PostMessage("agent", cur[l]) /\ UNCHANGED faults
     \/ Fault /\ UNCHANGED thread
  /\ Goto(l, "close")
  /\ UNCHANGED <<turnRows, runRows, session, posts, cur, resumed, lost, drain, outcome,
                 notifying, launched>>

\* finish: post the answer.
PostAnswer(l) ==
  /\ pc[l] = "post"
  /\ \/ PostMessage("agent", cur[l]) /\ Goto(l, "close") /\ UNCHANGED faults
     \/ Fault /\ Goto(l, "notify") /\ UNCHANGED thread
  /\ UNCHANGED <<turnRows, runRows, session, posts, cur, resumed, lost, drain, outcome,
                 notifying, launched>>

\* finish: close_turn(done)?  An error is returned with the turn still claimed.
CloseDone(l) ==
  /\ pc[l] = "close"
  /\ \/ CloseTurn(cur[l], "done") /\ UNCHANGED faults
     \/ Fault /\ UNCHANGED turn
  /\ Idle(l)
  /\ UNCHANGED <<born, claimedBy, lapsed, runRows, thread, session, posts, notifying, launched>>

\* fail: the system notice; an error is only logged.
NotifyFailed(l) ==
  /\ pc[l] = "notify"
  /\ \/ PostMessage("system", cur[l]) /\ UNCHANGED faults
     \/ Fault /\ UNCHANGED thread
  /\ Goto(l, "closeFailed")
  /\ UNCHANGED <<turnRows, runRows, session, posts, cur, resumed, lost, drain, outcome,
                 notifying, launched>>

\* fail: close_turn(failed); an error is only logged.
CloseFailed(l) ==
  /\ pc[l] = "closeFailed"
  /\ \/ CloseTurn(cur[l], "failed") /\ UNCHANGED faults
     \/ Fault /\ UNCHANGED turn
  /\ Idle(l)
  /\ UNCHANGED <<born, claimedBy, lapsed, runRows, thread, session, posts, notifying, launched>>

-----------------------------------------------------------------------------
(* The reclaimer, time, and crashes.                                        *)

Lapsed == {t \in Turns : turn[t] = "claimed" /\ lapsed[t]}


\* Mutant: a lapsed turn is put back in the queue, its run row removed.
ReclaimRequeues(p) ==
  /\ notifying[p] = {} /\ Lapsed # {}
  /\ turn' = [t \in Turns |-> IF t \in Lapsed THEN "pending" ELSE turn[t]]
  /\ run' = [t \in Turns |-> IF t \in Lapsed THEN "none" ELSE run[t]]
  /\ UNCHANGED <<born, claimedBy, lapsed, overdue, log, thread, session, posts, loopVars,
                 notifying, launched, faults>>

\* Mutant: only turns whose run started are reclaimed.
ReclaimStartedOnly(p) ==
  LET started == {t \in Lapsed : run[t] # "none"} IN
  /\ notifying[p] = {} /\ started # {}
  /\ turn' = [t \in Turns |-> IF t \in started THEN "failed" ELSE turn[t]]
  /\ run' = [t \in Turns |-> IF t \in started /\ run[t] = "running"
                             THEN "indeterminate" ELSE run[t]]
  /\ notifying' = [notifying EXCEPT ![p] = started]
  /\ UNCHANGED <<born, claimedBy, lapsed, overdue, log, thread, session, posts, loopVars,
                 launched, faults>>

\* reclaim_lapsed_turns: one transaction fails every lapsed claim and marks a
\* run that is still running indeterminate.
ReclaimLapsedTurns(p) ==
  /\ notifying[p] = {} /\ Lapsed # {}
  /\ turn' = [t \in Turns |-> IF t \in Lapsed THEN "failed" ELSE turn[t]]
  /\ run' = [t \in Turns |-> IF t \in Lapsed /\ run[t] = "running"
                             THEN "indeterminate" ELSE run[t]]
  /\ notifying' = [notifying EXCEPT ![p] = Lapsed]
  /\ UNCHANGED <<born, claimedBy, lapsed, overdue, log, thread, session, posts, loopVars,
                 launched, faults>>

\* reclaim: after the commit, one notice per reclaimed turn; errors are logged.
NotifyReclaimed(p, t) ==
  /\ t \in notifying[p]
  /\ \/ PostMessage("system", t) /\ UNCHANGED faults
     \/ Fault /\ UNCHANGED thread
  /\ notifying' = [notifying EXCEPT ![p] = @ \ {t}]
  /\ UNCHANGED <<turnRows, runRows, session, posts, loopVars, launched>>


\* Mutant: the run of a closed turn is taken to be closed too.
ReclaimRunsOfOpenTurns(p) ==
  /\ notifying[p] = {}
  /\ \E t \in Turns : run[t] = "running" /\ overdue[t] /\ turn[t] \in Open
  /\ run' = [t \in Turns |-> IF run[t] = "running" /\ overdue[t] /\ turn[t] \in Open
                             THEN "indeterminate" ELSE run[t]]
  /\ UNCHANGED <<turnRows, overdue, log, thread, session, posts, loopVars, notifying, launched,
                 faults>>

\* reclaim_abandoned_runs: a run still running past its deadline and the grace.
ReclaimAbandonedRuns(p) ==
  /\ notifying[p] = {}
  /\ \E t \in Turns : run[t] = "running" /\ overdue[t]
  /\ run' = [t \in Turns |-> IF run[t] = "running" /\ overdue[t]
                             THEN "indeterminate" ELSE run[t]]
  /\ UNCHANGED <<turnRows, overdue, log, thread, session, posts, loopVars, notifying, launched,
                 faults>>

Holds(l, t) == pc[l] # "idle" /\ cur[l] = t
Held(t) == \E l \in Loops : Holds(l, t)

\* Time: a lease nobody extends lapses.  Under a live worker that takes missed
\* heartbeats or slow calls, so it counts as a fault.
LeaseLapses(t) ==
  /\ turn[t] = "claimed" /\ ~lapsed[t]
  /\ IF Held(t) THEN Fault ELSE UNCHANGED faults
  /\ lapsed' = [lapsed EXCEPT ![t] = TRUE]
  /\ UNCHANGED <<turn, born, claimedBy, runRows, thread, session, posts, loopVars, notifying,
                 launched>>

\* Time: the deadline and the grace of a run pass.  The supervisor stops the
\* process at the deadline, so a worker still at it is a slow one.
DeadlinePasses(t) ==
  /\ run[t] = "running" /\ ~overdue[t]
  /\ IF Held(t) THEN Fault ELSE UNCHANGED faults
  /\ overdue' = [overdue EXCEPT ![t] = TRUE]
  /\ UNCHANGED <<turnRows, run, log, thread, session, posts, loopVars, notifying, launched>>

\* The daemon dies and is started again: whatever it held in memory is gone.
Crash(p) ==
  /\ Fault
  /\ LET mine(l) == ProcOf[l] = p IN
     /\ pc' = [l \in Loops |-> IF mine(l) THEN "idle" ELSE pc[l]]
     /\ cur' = [l \in Loops |-> IF mine(l) THEN NoTurn ELSE cur[l]]
     /\ resumed' = [l \in Loops |-> IF mine(l) THEN NoTurn ELSE resumed[l]]
     /\ lost' = [l \in Loops |-> IF mine(l) THEN FALSE ELSE lost[l]]
     /\ drainErr' = [l \in Loops |-> IF mine(l) THEN FALSE ELSE drainErr[l]]
     /\ seq' = [l \in Loops |-> IF mine(l) THEN 0 ELSE seq[l]]
     /\ outcome' = [l \in Loops |-> IF mine(l) THEN "failed" ELSE outcome[l]]
  /\ notifying' = [notifying EXCEPT ![p] = {}]
  /\ UNCHANGED <<turnRows, runRows, thread, session, posts, launched>>

LoopStep(l) ==
  \/ \E t \in Turns : ClaimTurn(l, t)
  \/ Prepare(l)
  \/ CreateRun(l)
  \/ Launch(l)
  \/ EmitLine(l)
  \/ Heartbeat(l)
  \/ \E end \in RunEnds : ProcessEnds(l, end)
  \/ RecordRun(l)
  \/ \E announced \in BOOLEAN : RecordSession(l, announced)
  \/ PostAnswer(l)
  \/ CloseDone(l)
  \/ NotifyFailed(l)
  \/ CloseFailed(l)

ReclaimStep(p) ==
  \/ ReclaimLapsedTurns(p)
  \/ \E t \in Turns : NotifyReclaimed(p, t)
  \/ ReclaimAbandonedRuns(p)

TimeStep(t) == LeaseLapses(t) \/ DeadlinePasses(t)

Next ==
  \/ \E t \in Turns : PostUserMessage(t)
  \/ \E l \in Loops : LoopStep(l)
  \/ \E p \in Procs : ReclaimStep(p) \/ Crash(p)
  \/ \E t \in Turns : TimeStep(t)

Spec == Init /\ [][Next]_vars

\* What the daemon's scheduling guarantees: every await of a work loop resolves
\* (the agent process at its deadline at the latest), the reclaim interval
\* ticks, and time passes.  Nobody is obliged to post.
Fairness ==
  /\ \A l \in Loops :
       /\ WF_vars(\E t \in Turns : ClaimTurn(l, t))
       /\ WF_vars(Prepare(l) \/ CreateRun(l) \/ Launch(l))
       /\ WF_vars(\E end \in RunEnds : ProcessEnds(l, end))
       /\ WF_vars(RecordRun(l) \/ \E announced \in BOOLEAN : RecordSession(l, announced))
       /\ WF_vars(PostAnswer(l) \/ CloseDone(l) \/ NotifyFailed(l) \/ CloseFailed(l))
  /\ \A p \in Procs : WF_vars(ReclaimStep(p))
  /\ \A t \in Turns : WF_vars(LeaseLapses(t)) /\ WF_vars(DeadlinePasses(t))

FairSpec == Spec /\ Fairness

-----------------------------------------------------------------------------
(* Properties.                                                              *)

Closed == {"done", "failed"}
Has(s, m)  == \E i \in DOMAIN s : s[i] = m
Once(s, m) == \A i, j \in DOMAIN s : s[i] = m /\ s[j] = m => i = j
Answered(t) == Has(thread[ConvOf[t]], Message("agent", t))
AnsweredTurns == {t \in Turns : Answered(t)}

\* The types of everything but the two logs and the counter of lines.
RowTypes ==
  /\ turn \in [Turns -> TurnStates]
  /\ born \in [Turns -> Nat]
  /\ claimedBy \in [Turns -> Procs \cup {NoProc}]
  /\ lapsed \in [Turns -> BOOLEAN]
  /\ run \in [Turns -> RunStates]
  /\ overdue \in [Turns -> BOOLEAN]
  /\ session \in [Conversations -> Turns \cup {NoTurn}]
  /\ posts \in Nat
  /\ pc \in [Loops -> Steps]
  /\ cur \in [Loops -> Turns \cup {NoTurn}]
  /\ resumed \in [Loops -> Turns \cup {NoTurn}]
  /\ lost \in [Loops -> BOOLEAN]
  /\ drainErr \in [Loops -> BOOLEAN]
  /\ outcome \in [Loops -> RunEnds]
  /\ notifying \in [Procs -> SUBSET Turns]
  /\ launched \in [Turns -> Nat]
  /\ faults \in Nat

\* The rows and the loops' locals have the values the schema and the code allow.
TypeOK ==
  /\ RowTypes
  /\ seq \in [Loops -> Nat]
  /\ log \in [Conversations -> Seq(Turns \X Nat)]
  /\ thread \in [Conversations -> Seq([role : Roles, turn : Turns])]

\* claim_turn's NOT EXISTS, as the state it must keep: everything posted to a
\* conversation before a claimed turn is closed.  So one turn of a conversation
\* is claimed at a time and turns are answered in the order they were asked.
ConversationInOrder ==
  \A t, u \in Turns :
    /\ turn[t] = "claimed" /\ turn[u] # "absent"
    /\ ConvOf[u] = ConvOf[t] /\ born[u] < born[t]
    => turn[u] \in Closed

\* Invariant 10: a message never pays for two agent processes, whatever lapses,
\* crashes or fails, because a reclaimed turn is failed and never re-opened.
LaunchedAtMostOnce == \A t \in Turns : launched[t] <= 1

\* finish posts the answer before it closes the turn: a turn that reads done has
\* its answer in the thread, whatever failed in between.
DoneIsAnswered == \A t \in Turns : turn[t] = "done" => Answered(t)

\* One answer per message, and only from a process that ran: the run row of an
\* answered turn never reads failed, cancelled or past its deadline, although
\* finish_run, the turn reclaimer and the run reclaimer all write it.
AnswersAreEarned ==
  \A t \in Turns :
    /\ Answered(t) => launched[t] = 1 /\ run[t] \in {"running", "succeeded", "indeterminate"}
    /\ Once(thread[ConvOf[t]], Message("agent", t))

\* close_turn and the reclaimer: a closed turn never changes again, so a worker
\* arriving late cannot un-fail what was reclaimed.
ClosedTurnsStay == [][\A t \in Turns : turn[t] \in Closed => turn'[t] = turn[t]]_vars

\* finish_run and both reclaimers: the first terminal state a run row gets is
\* the one it keeps (an indeterminate run is never reported succeeded later).
ClosedRunsStay ==
  [][\A t \in Turns : run[t] \notin {"none", "running"} => run'[t] = run[t]]_vars

\* record_session ignores an empty id: a conversation that has a session to
\* resume never loses it, even to a late run that started before it had one.
SessionNeverErased ==
  [][\A c \in Conversations : session[c] # NoTurn => session'[c] # NoTurn]_vars

\* Every message is eventually answered or failed: by its worker, or by the
\* reclaimer when the worker died, gave up or could not write.
EveryTurnCloses == \A t \in Turns : turn[t] = "pending" ~> turn[t] \in Closed

\* Every run row eventually gets a terminal state, also when finish_run failed
\* or was never reached.
EveryRunCloses == \A t \in Turns : run[t] = "running" ~> run[t] # "running"

\* The promise to whoever posts: workers, leases, reclaimers and failures never
\* show through the abstract ledger.
Ledger == INSTANCE TurnLedger
            WITH place <- born, starts <- launched, answered <- AnsweredTurns
ImplementsLedger == Ledger!LedgerSpec

\* Does not hold (README, "Divergences").  RunEvent's comment: "the order rows
\* become visible is the order they sort in", so (request_seq, seq) is a cursor
\* a reader can resume from.
RunEventsInCursorOrder ==
  \A c \in Conversations : \A i, j \in DOMAIN log[c] :
    i < j => \/ born[log[c][i][1]] < born[log[c][j][1]]
             \/ log[c][i][1] = log[c][j][1] /\ log[c][i][2] < log[c][j][2]
=============================================================================
