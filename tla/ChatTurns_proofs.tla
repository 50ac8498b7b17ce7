-------------------------- MODULE ChatTurns_proofs --------------------------
(***************************************************************************)
(* Proofs about the chat turn ledger, for any number of conversations,     *)
(* messages, daemons, work loops and faults.                               *)
(***************************************************************************)
EXTENDS ChatTurns, SequenceTheorems, TLAPS

\* What a loop knows about the turn it holds.  A turn is claimed once, so two
\* loops never hold the same turn and nobody but its holder and the reclaimer
\* touches it.
LoopsHold ==
  /\ \A l \in Loops : pc[l] # "idle" => cur[l] \in Turns /\ turn[cur[l]] \in {"claimed", "failed"}
  /\ \A l, m \in Loops : pc[l] # "idle" /\ pc[m] # "idle" /\ cur[l] = cur[m] => l = m

\* Places in the queue are never ahead of the counter that hands them out.
BornBounded == \A t \in Turns : born[t] <= posts

\* How far the turn's run has come at each step of its holder.
Progress ==
  /\ \A t \in Turns : turn[t] \in {"absent", "pending"} => run[t] = "none" /\ launched[t] = 0
  /\ \A l \in Loops :
       /\ pc[l] \in {"prepare", "create"} => run[cur[l]] = "none" /\ launched[cur[l]] = 0
       /\ pc[l] = "launch" => run[cur[l]] \in {"running", "indeterminate"} /\ launched[cur[l]] = 0
       /\ pc[l] \in {"running", "record"} =>
            launched[cur[l]] = 1 /\ run[cur[l]] \in {"running", "indeterminate"}
       /\ pc[l] \in {"session", "post"} =>
            launched[cur[l]] = 1 /\ run[cur[l]] \in {"running", "succeeded", "indeterminate"}

\* The inductive invariant of the rows and the loops, without the threads.
RowInv ==
  /\ RowTypes
  /\ LoopsHold
  /\ BornBounded
  /\ Progress
  /\ ConversationInOrder
  /\ LaunchedAtMostOnce

\* The turns that have no second answer in their thread.
AnsweredOnce == {t \in Turns : Once(thread[ConvOf[t]], Message("agent", t))}

\* A loop posts the answer between "post" and "close".
LoopsAnswer ==
  \A l \in Loops :
    /\ pc[l] \notin {"idle", "close", "closeFailed", "notify"} => cur[l] \notin AnsweredTurns
    /\ pc[l] = "close" => cur[l] \in AnsweredTurns

\* An answered turn has one answer, from a process that ended well.
TurnsAnswered ==
  \A t \in Turns :
    /\ turn[t] = "done" => t \in AnsweredTurns
    /\ turn[t] \in {"absent", "pending"} => t \notin AnsweredTurns
    /\ t \in AnsweredTurns =>
         launched[t] = 1 /\ run[t] \in {"running", "succeeded", "indeterminate"}
    /\ t \in AnsweredOnce

\* What the threads hold at each step.
ThreadInv == LoopsAnswer /\ TurnsAnswered

USE ConvOfAssumption, ProcOfAssumption, NoTurnAssumption, NoProcAssumption, BoundsAssumption

-----------------------------------------------------------------------------
(* The rows and the loops.                                                  *)

\* The first state: nothing posted, every loop idle.
LEMMA InitRows == Init => RowInv
BY DEF Init, RowInv, RowTypes, LoopsHold, BornBounded, Progress, ConversationInOrder,
       LaunchedAtMostOnce, TurnStates, RunStates, RunEnds, Roles, Steps

\* post_message with role "user".
LEMMA PostUserRows == ASSUME NEW t \in Turns PROVE RowInv /\ PostUserMessage(t) => RowInv'
<1> SUFFICES ASSUME RowInv, PostUserMessage(t) PROVE RowInv'
  BY Zenon
<1> USE DEF RowInv, RowTypes, PostUserMessage, turnRows, runRows, loopVars, drain
<1>1. RowTypes'
  BY DEF TurnStates
<1>2. LoopsHold'
  BY Zenon DEF LoopsHold
<1>3. BornBounded'
  BY DEF BornBounded
<1>4. Progress'
  BY Zenon DEF Progress, LoopsHold
<1>5. ConversationInOrder'
  BY DEF ConversationInOrder, BornBounded, Closed
<1>6. LaunchedAtMostOnce'
  BY Zenon DEF LaunchedAtMostOnce
<1> QED BY <1>1, <1>2, <1>3, <1>4, <1>5, <1>6, Zenon

\* claim_turn takes a pending turn nobody holds and nothing open precedes.
LEMMA ClaimRows ==
  ASSUME NEW l \in Loops, NEW t \in Turns
  PROVE  RowInv /\ ClaimTurn(l, t) => RowInv'
<1> SUFFICES ASSUME RowInv, ClaimTurn(l, t) PROVE RowInv'
  BY Zenon
<1> USE DEF RowInv, RowTypes, turnRows, runRows, loopVars, drain, ClaimTurn, Ready, Goto
<1>1. RowTypes'
  BY Zenon DEF LoopsHold, TurnStates, RunStates, RunEnds, Steps
<1>2. LoopsHold'
  <2>1. turn[t] = "pending" /\ \A m \in Loops : pc[m] # "idle" => cur[m] # t
    BY Zenon DEF LoopsHold
  <2>2. \A m \in Loops : pc'[m] # "idle" => cur'[m] \in Turns /\ turn'[cur'[m]] \in {"claimed", "failed"}
    BY <2>1, Zenon DEF LoopsHold
  <2>3. \A m, n \in Loops : pc'[m] # "idle" /\ pc'[n] # "idle" /\ cur'[m] = cur'[n] => m = n
    BY <2>1 DEF LoopsHold
  <2> QED BY <2>2, <2>3, Zenon DEF LoopsHold
<1>3. BornBounded'
  BY Zenon DEF BornBounded
<1>4. Progress'
  BY Zenon DEF Progress, LoopsHold
<1>5. ConversationInOrder'
  BY Zenon DEF ConversationInOrder, Open, Closed, TurnStates
<1>6. LaunchedAtMostOnce'
  BY Zenon DEF LaunchedAtMostOnce, Progress, LoopsHold
<1> QED BY <1>1, <1>2, <1>3, <1>4, <1>5, <1>6, Zenon

\* answer up to resume_session.
LEMMA PrepareRows == ASSUME NEW l \in Loops PROVE RowInv /\ Prepare(l) => RowInv'
<1> SUFFICES ASSUME RowInv, Prepare(l) PROVE RowInv'
  BY Zenon
<1> USE DEF RowInv, RowTypes, turnRows, runRows, loopVars, drain, Prepare, Goto, Fault
<1>1. RowTypes'
  <2>1. pc' \in [Loops -> Steps] /\ faults' \in Nat
    BY DEF Steps
  <2>2. resumed' \in [Loops -> Turns \cup {NoTurn}]
    BY DEF LoopsHold
  <2> QED BY <2>1, <2>2, Zenon
<1>2. LoopsHold'
  BY ZenonT(40) DEF LoopsHold
<1>3. BornBounded'
  BY Zenon DEF BornBounded
<1>4. Progress'
  BY DEF Progress, LoopsHold
<1>5. ConversationInOrder'
  BY Zenon DEF ConversationInOrder, LoopsHold, Closed
<1>6. LaunchedAtMostOnce'
  BY Zenon DEF LaunchedAtMostOnce, Progress, LoopsHold
<1> QED BY <1>1, <1>2, <1>3, <1>4, <1>5, <1>6, Zenon

\* create_run.
LEMMA CreateRows == ASSUME NEW l \in Loops PROVE RowInv /\ CreateRun(l) => RowInv'
<1> SUFFICES ASSUME RowInv, CreateRun(l) PROVE RowInv'
  BY Zenon
<1> USE DEF RowInv, RowTypes, turnRows, runRows, loopVars, drain, CreateRun, Goto, Fault
<1>1. RowTypes'
  <2>1. pc' \in [Loops -> Steps]
    BY ZenonT(40) DEF Steps
  <2>2. faults' \in Nat
    OBVIOUS
  <2>3. run' \in [Turns -> RunStates] /\ launched' \in [Turns -> Nat]
    BY Zenon DEF RunStates
  <2> QED BY <2>1, <2>2, <2>3, Zenon
<1>2. LoopsHold'
  BY SMTT(20) DEF LoopsHold
<1>3. BornBounded'
  BY Zenon DEF BornBounded
<1>4. Progress'
  BY DEF Progress, LoopsHold
<1>5. ConversationInOrder'
  BY Zenon DEF ConversationInOrder, LoopsHold, Closed
<1>6. LaunchedAtMostOnce'
  BY Zenon DEF LaunchedAtMostOnce, Progress, LoopsHold
<1> QED BY <1>1, <1>2, <1>3, <1>4, <1>5, <1>6, Zenon

\* The one launch of a turn.
LEMMA LaunchRows == ASSUME NEW l \in Loops PROVE RowInv /\ Launch(l) => RowInv'
<1> SUFFICES ASSUME RowInv, Launch(l) PROVE RowInv'
  BY Zenon
<1> USE DEF RowInv, RowTypes, turnRows, runRows, loopVars, drain, Launch, Goto, Fault
<1>1. RowTypes'
  <2>1. pc' \in [Loops -> Steps]
    BY Zenon DEF Steps
  <2>3. faults' \in Nat
    OBVIOUS
  <2>2. run' \in [Turns -> RunStates] /\ launched' \in [Turns -> Nat]
    BY DEF RunStates
  <2> QED BY <2>1, <2>2, <2>3, Zenon
<1>2. LoopsHold'
  BY SMTT(20) DEF LoopsHold
<1>3. BornBounded'
  BY Zenon DEF BornBounded
<1>4. Progress'
  BY DEF Progress, LoopsHold
<1>5. ConversationInOrder'
  BY Zenon DEF ConversationInOrder, LoopsHold, Closed
<1>6. LaunchedAtMostOnce'
  BY DEF LaunchedAtMostOnce, Progress, LoopsHold
<1> QED BY <1>1, <1>2, <1>3, <1>4, <1>5, <1>6, Zenon

\* on_event writes no row but the line's.
LEMMA EmitRows == ASSUME NEW l \in Loops PROVE RowInv /\ EmitLine(l) => RowInv'
<1> SUFFICES ASSUME RowInv, EmitLine(l) PROVE RowInv'
  BY Zenon
<1>1. /\ UNCHANGED <<turn, born, claimedBy, lapsed, run, overdue, session, posts>>
      /\ UNCHANGED <<pc, cur, resumed, lost, outcome, notifying, launched>>
  BY Zenon DEF EmitLine, turnRows
<1>2. \/ UNCHANGED <<drainErr, faults>>
      \/ Fault /\ drainErr' = [drainErr EXCEPT ![l] = TRUE]
  BY Zenon DEF EmitLine
<1>3. drainErr \in [Loops -> BOOLEAN] /\ faults \in Nat
  BY Zenon DEF RowInv, RowTypes
<1>4. drainErr' \in [Loops -> BOOLEAN]
  BY <1>2, <1>3, ZenonT(30)
<1>5. faults' \in Nat
  BY <1>2, <1>3 DEF Fault
<1> QED
  BY <1>1, <1>4, <1>5, Zenon DEF RowInv, RowTypes, LoopsHold, BornBounded, Progress,
                          ConversationInOrder, LaunchedAtMostOnce

\* extend_lease.
LEMMA HeartbeatRows == ASSUME NEW l \in Loops PROVE RowInv /\ Heartbeat(l) => RowInv'
<1> SUFFICES ASSUME RowInv, Heartbeat(l) PROVE RowInv'
  BY Zenon
<1> USE DEF RowInv, RowTypes, turnRows, runRows, loopVars, drain, Heartbeat
<1>1. RowTypes'
  <2>1. lapsed' \in [Turns -> BOOLEAN]
    BY ZenonT(30)
  <2>2. lost' \in [Loops -> BOOLEAN]
    BY ZenonT(30)
  <2> QED BY <2>1, <2>2, Zenon
<1>2. LoopsHold'
  BY Zenon DEF LoopsHold
<1>3. BornBounded'
  BY Zenon DEF BornBounded
<1>4. Progress'
  BY Zenon DEF Progress, LoopsHold
<1>5. ConversationInOrder'
  BY Zenon DEF ConversationInOrder, LoopsHold, Closed
<1>6. LaunchedAtMostOnce'
  BY Zenon DEF LaunchedAtMostOnce, Progress, LoopsHold
<1> QED BY <1>1, <1>2, <1>3, <1>4, <1>5, <1>6, Zenon

\* The supervisor returns.
LEMMA EndsRows ==
  ASSUME NEW l \in Loops, NEW end \in RunEnds
  PROVE  RowInv /\ ProcessEnds(l, end) => RowInv'
<1> SUFFICES ASSUME RowInv, ProcessEnds(l, end) PROVE RowInv'
  BY Zenon
<1> USE DEF RowInv, turnRows, runRows, loopVars, drain, ProcessEnds, Goto
<1>1. RowTypes'
  BY Zenon DEF RowTypes, TurnStates, RunStates, RunEnds, Steps
<1>2. LoopsHold' /\ BornBounded' /\ ConversationInOrder'
  BY Zenon DEF RowTypes, LoopsHold, BornBounded, ConversationInOrder, Closed
<1>3. Progress' /\ LaunchedAtMostOnce'
  BY ZenonT(40) DEF RowTypes, LoopsHold, Progress, LaunchedAtMostOnce
<1> QED BY <1>1, <1>2, <1>3, Zenon

\* finish_run.
LEMMA RecordRows == ASSUME NEW l \in Loops PROVE RowInv /\ RecordRun(l) => RowInv'
<1> SUFFICES ASSUME RowInv, RecordRun(l) PROVE RowInv'
  BY Zenon
<1> USE DEF RowInv, RowTypes, turnRows, runRows, loopVars, drain, RecordRun, FinishRow, Goto, Fault
<1>1. RowTypes'
  <2>1. run' \in [Turns -> RunStates]
    BY ZenonT(40) DEF RunStates
  <2>2. pc' \in [Loops -> Steps] /\ faults' \in Nat
    BY DEF Steps
  <2> QED BY <2>1, <2>2, Zenon
<1>2. LoopsHold'
  BY Zenon DEF LoopsHold
<1>3. BornBounded'
  BY Zenon DEF BornBounded
<1>4. Progress'
  BY DEF Progress, LoopsHold
<1>5. ConversationInOrder'
  BY Zenon DEF ConversationInOrder, LoopsHold, Closed
<1>6. LaunchedAtMostOnce'
  BY Zenon DEF LaunchedAtMostOnce, Progress, LoopsHold
<1> QED BY <1>1, <1>2, <1>3, <1>4, <1>5, <1>6, Zenon

\* record_session.
LEMMA SessionRows ==
  ASSUME NEW l \in Loops, NEW announced \in BOOLEAN
  PROVE  RowInv /\ RecordSession(l, announced) => RowInv'
<1> SUFFICES ASSUME RowInv, RecordSession(l, announced) PROVE RowInv'
  BY Zenon
<1> USE DEF RowInv, RowTypes, turnRows, runRows, loopVars, drain, RecordSession, Goto, Fault
<1>1. RowTypes'
  <2>1. pc' \in [Loops -> Steps] /\ faults' \in Nat
    BY DEF Steps
  <2>2. session' \in [Conversations -> Turns \cup {NoTurn}]
    BY Zenon DEF LoopsHold
  <2> QED BY <2>1, <2>2, Zenon
<1>2. LoopsHold'
  BY Zenon DEF LoopsHold
<1>3. BornBounded'
  BY Zenon DEF BornBounded
<1>4. Progress'
  BY ZenonT(40) DEF Progress, LoopsHold
<1>5. ConversationInOrder'
  BY Zenon DEF ConversationInOrder
<1>6. LaunchedAtMostOnce'
  BY Zenon DEF LaunchedAtMostOnce
<1> QED BY <1>1, <1>2, <1>3, <1>4, <1>5, <1>6, Zenon

\* The answer.
LEMMA AnswerRows == ASSUME NEW l \in Loops PROVE RowInv /\ PostAnswer(l) => RowInv'
<1> SUFFICES ASSUME RowInv, PostAnswer(l) PROVE RowInv'
  BY Zenon
<1> USE DEF RowInv, RowTypes, turnRows, runRows, loopVars, drain, PostAnswer, Goto, Fault
<1>1. RowTypes'
  <2>1. pc' \in [Loops -> Steps]
    BY Zenon DEF Steps
  <2>2. faults' \in Nat
    OBVIOUS
  <2> QED BY <2>1, <2>2, Zenon
<1>2. LoopsHold'
  BY ZenonT(40) DEF LoopsHold
<1>3. BornBounded'
  BY Zenon DEF BornBounded
<1>4. Progress'
  BY DEF Progress, LoopsHold
<1>5. ConversationInOrder'
  BY Zenon DEF ConversationInOrder, LoopsHold, Closed
<1>6. LaunchedAtMostOnce'
  BY Zenon DEF LaunchedAtMostOnce, Progress, LoopsHold
<1> QED BY <1>1, <1>2, <1>3, <1>4, <1>5, <1>6, Zenon

\* close_turn(done).
LEMMA DoneRows == ASSUME NEW l \in Loops PROVE RowInv /\ CloseDone(l) => RowInv'
<1> SUFFICES ASSUME RowInv, CloseDone(l) PROVE RowInv'
  BY Zenon
<1> USE DEF RowInv, RowTypes, turnRows, runRows, loopVars, drain, CloseDone, CloseTurn, Idle, Goto, Fault
<1>1. RowTypes'
  <2>1. turn' \in [Turns -> TurnStates]
    BY DEF TurnStates
  <2>5. faults' \in Nat
    OBVIOUS
  <2>2. pc' \in [Loops -> Steps] /\ outcome' \in [Loops -> RunEnds]
    BY Zenon DEF Steps, RunEnds
  <2>3. cur' \in [Loops -> Turns \cup {NoTurn}] /\ resumed' \in [Loops -> Turns \cup {NoTurn}]
    BY Zenon
  <2>4. lost' \in [Loops -> BOOLEAN] /\ drainErr' \in [Loops -> BOOLEAN]
    BY Zenon
  <2> QED BY <2>1, <2>2, <2>3, <2>4, <2>5, Zenon
<1>2. LoopsHold'
  BY Zenon DEF LoopsHold
<1>3. BornBounded'
  BY Zenon DEF BornBounded
<1>4. Progress'
  <2>1. \A u \in Turns : turn'[u] = turn[u] \/ turn'[u] = "done"
    BY Zenon
  <2>2. \A m \in Loops : pc'[m] = "idle" \/ (pc'[m] = pc[m] /\ cur'[m] = cur[m])
    BY Zenon
  <2>3. UNCHANGED <<run, launched>> /\ Progress
    BY Zenon
  <2> HIDE DEF RowInv, RowTypes, CloseDone
  <2> QED BY <2>1, <2>2, <2>3, ZenonT(40) DEF Progress
<1>5. ConversationInOrder'
  BY DEF ConversationInOrder, LoopsHold, Closed
<1>6. LaunchedAtMostOnce'
  BY Zenon DEF LaunchedAtMostOnce, Progress, LoopsHold
<1> QED BY <1>1, <1>2, <1>3, <1>4, <1>5, <1>6, Zenon

\* The notice of a failed turn.
LEMMA NotifyRows == ASSUME NEW l \in Loops PROVE RowInv /\ NotifyFailed(l) => RowInv'
<1> SUFFICES ASSUME RowInv, NotifyFailed(l) PROVE RowInv'
  BY Zenon
<1> USE DEF RowInv, turnRows, runRows, loopVars, drain, NotifyFailed, Goto, Fault
<1>1. RowTypes'
  BY DEF RowTypes, TurnStates, RunStates, RunEnds, Steps
<1>2. LoopsHold' /\ BornBounded' /\ ConversationInOrder'
  BY Zenon DEF RowTypes, LoopsHold, BornBounded, ConversationInOrder, Closed
<1>3. Progress' /\ LaunchedAtMostOnce'
  BY Zenon DEF RowTypes, LoopsHold, Progress, LaunchedAtMostOnce
<1> QED BY <1>1, <1>2, <1>3, Zenon

\* close_turn(failed).
LEMMA FailedRows == ASSUME NEW l \in Loops PROVE RowInv /\ CloseFailed(l) => RowInv'
<1> SUFFICES ASSUME RowInv, CloseFailed(l) PROVE RowInv'
  BY Zenon
<1> USE DEF RowInv, RowTypes, turnRows, runRows, loopVars, drain, CloseFailed, CloseTurn, Idle, Goto, Fault
<1>1. RowTypes'
  <2>1. turn' \in [Turns -> TurnStates]
    BY DEF TurnStates
  <2>5. faults' \in Nat
    OBVIOUS
  <2>2. pc' \in [Loops -> Steps] /\ outcome' \in [Loops -> RunEnds]
    BY Zenon DEF Steps, RunEnds
  <2>3. cur' \in [Loops -> Turns \cup {NoTurn}] /\ resumed' \in [Loops -> Turns \cup {NoTurn}]
    BY Zenon
  <2>4. lost' \in [Loops -> BOOLEAN] /\ drainErr' \in [Loops -> BOOLEAN]
    BY Zenon
  <2> QED BY <2>1, <2>2, <2>3, <2>4, <2>5, Zenon
<1>2. LoopsHold'
  BY Zenon DEF LoopsHold
<1>3. BornBounded'
  BY Zenon DEF BornBounded
<1>4. Progress'
  <2>1. \A u \in Turns : turn'[u] = turn[u] \/ turn'[u] = "failed"
    BY Zenon
  <2>2. \A m \in Loops : pc'[m] = "idle" \/ (pc'[m] = pc[m] /\ cur'[m] = cur[m])
    BY Zenon
  <2>3. UNCHANGED <<run, launched>> /\ Progress
    BY Zenon
  <2> HIDE DEF RowInv, RowTypes, CloseFailed
  <2> QED BY <2>1, <2>2, <2>3, ZenonT(40) DEF Progress
<1>5. ConversationInOrder'
  BY DEF ConversationInOrder, LoopsHold, Closed
<1>6. LaunchedAtMostOnce'
  BY Zenon DEF LaunchedAtMostOnce, Progress, LoopsHold
<1> QED BY <1>1, <1>2, <1>3, <1>4, <1>5, <1>6, ZenonT(30)

\* reclaim_lapsed_turns.
LEMMA ReclaimRows == ASSUME NEW p \in Procs PROVE RowInv /\ ReclaimLapsedTurns(p) => RowInv'
<1> SUFFICES ASSUME RowInv, ReclaimLapsedTurns(p) PROVE RowInv'
  BY Zenon
<1> USE DEF RowInv, turnRows, runRows, loopVars, drain, ReclaimLapsedTurns, Lapsed
<1>1. RowTypes'
  BY Zenon DEF RowTypes, TurnStates, RunStates, RunEnds, Steps
<1>2. LoopsHold' /\ BornBounded' /\ ConversationInOrder'
  BY Zenon DEF RowTypes, LoopsHold, BornBounded, ConversationInOrder, Closed
<1>3. Progress' /\ LaunchedAtMostOnce'
  BY Zenon DEF RowTypes, LoopsHold, Progress, LaunchedAtMostOnce
<1> QED BY <1>1, <1>2, <1>3, ZenonT(30)

\* The notice of a reclaimed turn.
LEMMA NotifyReclaimedRows ==
  ASSUME NEW p \in Procs, NEW t \in Turns
  PROVE  RowInv /\ NotifyReclaimed(p, t) => RowInv'
<1> SUFFICES ASSUME RowInv, NotifyReclaimed(p, t) PROVE RowInv'
  BY Zenon
<1> USE DEF RowInv, turnRows, runRows, loopVars, drain, NotifyReclaimed, Fault
<1>1. RowTypes'
  BY DEF RowTypes, TurnStates, RunStates, RunEnds, Steps
<1>2. LoopsHold' /\ BornBounded' /\ ConversationInOrder'
  BY Zenon DEF RowTypes, LoopsHold, BornBounded, ConversationInOrder, Closed
<1>3. Progress' /\ LaunchedAtMostOnce'
  BY Zenon DEF RowTypes, LoopsHold, Progress, LaunchedAtMostOnce
<1> QED BY <1>1, <1>2, <1>3, Zenon

\* reclaim_abandoned_runs.
LEMMA AbandonedRows == ASSUME NEW p \in Procs PROVE RowInv /\ ReclaimAbandonedRuns(p) => RowInv'
<1> SUFFICES ASSUME RowInv, ReclaimAbandonedRuns(p) PROVE RowInv'
  BY Zenon
<1> USE DEF RowInv, turnRows, runRows, loopVars, drain, ReclaimAbandonedRuns
<1>1. RowTypes'
  BY Zenon DEF RowTypes, TurnStates, RunStates, RunEnds, Steps
<1>2. LoopsHold' /\ BornBounded' /\ ConversationInOrder'
  BY Zenon DEF RowTypes, LoopsHold, BornBounded, ConversationInOrder, Closed
<1>3. Progress' /\ LaunchedAtMostOnce'
  BY Zenon DEF RowTypes, LoopsHold, Progress, LaunchedAtMostOnce
<1> QED BY <1>1, <1>2, <1>3, ZenonT(30)

\* A lease lapses.
LEMMA LapseRows == ASSUME NEW t \in Turns PROVE RowInv /\ LeaseLapses(t) => RowInv'
<1> SUFFICES ASSUME RowInv, LeaseLapses(t) PROVE RowInv'
  BY Zenon
<1> USE DEF RowInv, turnRows, runRows, loopVars, drain, LeaseLapses, Fault
<1>1. RowTypes'
  BY DEF RowTypes, TurnStates, RunStates, RunEnds, Steps
<1>2. LoopsHold' /\ BornBounded' /\ ConversationInOrder'
  BY Zenon DEF RowTypes, LoopsHold, BornBounded, ConversationInOrder, Closed
<1>3. Progress' /\ LaunchedAtMostOnce'
  BY Zenon DEF RowTypes, LoopsHold, Progress, LaunchedAtMostOnce
<1> QED BY <1>1, <1>2, <1>3, ZenonT(30)

\* A deadline passes.
LEMMA DeadlineRows == ASSUME NEW t \in Turns PROVE RowInv /\ DeadlinePasses(t) => RowInv'
<1> SUFFICES ASSUME RowInv, DeadlinePasses(t) PROVE RowInv'
  BY Zenon
<1> USE DEF RowInv, turnRows, runRows, loopVars, drain, DeadlinePasses, Fault
<1>1. RowTypes'
  BY DEF RowTypes, TurnStates, RunStates, RunEnds, Steps
<1>2. LoopsHold' /\ BornBounded' /\ ConversationInOrder'
  BY Zenon DEF RowTypes, LoopsHold, BornBounded, ConversationInOrder, Closed
<1>3. Progress' /\ LaunchedAtMostOnce'
  BY Zenon DEF RowTypes, LoopsHold, Progress, LaunchedAtMostOnce
<1> QED BY <1>1, <1>2, <1>3, ZenonT(30)

\* A crash empties a daemon's loops.
LEMMA CrashRows == ASSUME NEW p \in Procs PROVE RowInv /\ Crash(p) => RowInv'
<1> SUFFICES ASSUME RowInv, Crash(p) PROVE RowInv'
  BY Zenon
<1> USE DEF RowInv, RowTypes, turnRows, runRows, loopVars, drain, Crash, Fault
<1>1. RowTypes'
  <2>1. pc' \in [Loops -> Steps] /\ outcome' \in [Loops -> RunEnds]
    BY Zenon DEF Steps, RunEnds
  <2>2. cur' \in [Loops -> Turns \cup {NoTurn}] /\ resumed' \in [Loops -> Turns \cup {NoTurn}]
    BY Zenon
  <2>3. lost' \in [Loops -> BOOLEAN] /\ drainErr' \in [Loops -> BOOLEAN]
    BY ZenonT(30)
  <2>4. notifying' \in [Procs -> SUBSET Turns] /\ faults' \in Nat
    OBVIOUS
  <2> QED BY <2>1, <2>2, <2>3, <2>4, ZenonT(30)
<1>2. LoopsHold'
  BY Zenon DEF LoopsHold
<1>3. BornBounded'
  BY Zenon DEF BornBounded
<1>4. Progress'
  BY Zenon DEF Progress, LoopsHold
<1>5. ConversationInOrder'
  BY Zenon DEF ConversationInOrder, LoopsHold, Closed
<1>6. LaunchedAtMostOnce'
  BY Zenon DEF LaunchedAtMostOnce, Progress, LoopsHold
<1> QED BY <1>1, <1>2, <1>3, <1>4, <1>5, <1>6, ZenonT(30)

\* No step of the system breaks the invariant of the rows.
LEMMA NextRows == RowInv /\ [Next]_vars => RowInv'
<1> SUFFICES ASSUME RowInv, [Next]_vars PROVE RowInv'
  BY Zenon
<1>1. CASE \E t \in Turns : PostUserMessage(t)
  BY <1>1, PostUserRows, Zenon
<1>2. CASE \E l \in Loops : LoopStep(l)
  <2> PICK l \in Loops : LoopStep(l)
    BY <1>2, Zenon
  <2> QED
    BY Zenon, ClaimRows, PrepareRows, CreateRows, LaunchRows, EmitRows, HeartbeatRows, EndsRows,
       RecordRows, SessionRows, AnswerRows, DoneRows, NotifyRows, FailedRows DEF LoopStep
<1>3. CASE \E p \in Procs : ReclaimStep(p) \/ Crash(p)
  BY <1>3, ReclaimRows, NotifyReclaimedRows, AbandonedRows, CrashRows, Zenon DEF ReclaimStep
<1>4. CASE \E t \in Turns : TimeStep(t)
  BY <1>4, LapseRows, DeadlineRows, Zenon DEF TimeStep
<1>5. CASE UNCHANGED vars
  BY <1>5, Zenon DEF vars, turnRows, runRows, loopVars, drain, RowInv, RowTypes, LoopsHold, BornBounded,
              Progress, ConversationInOrder, LaunchedAtMostOnce
<1> QED
  BY <1>1, <1>2, <1>3, <1>4, <1>5, Zenon DEF Next

\* The rows keep their invariant forever.
THEOREM RowsCorrect == Spec => []RowInv
BY InitRows, NextRows, PTL DEF Spec

\* Turns of a conversation are claimed one at a time, in the order they were
\* posted, for any number of daemons and work loops.
THEOREM InOrder == Spec => []ConversationInOrder
<1>1. RowInv => ConversationInOrder
  BY Zenon DEF RowInv
<1> QED BY RowsCorrect, <1>1, PTL

\* A message never pays for two agent processes.
THEOREM PaidOnce == Spec => []LaunchedAtMostOnce
<1>1. RowInv => LaunchedAtMostOnce
  BY Zenon DEF RowInv
<1> QED BY RowsCorrect, <1>1, PTL
-----------------------------------------------------------------------------
(* The threads.                                                             *)

\* What appending does to the messages a thread holds.
LEMMA AppendHas ==
  ASSUME NEW S, NEW s \in Seq(S), NEW m \in S, NEW x
  PROVE  /\ Append(s, m) \in Seq(S)
         /\ Has(Append(s, m), x) <=> Has(s, x) \/ m = x
         /\ Once(s, x) /\ (m # x \/ ~Has(s, x)) => Once(Append(s, m), x)
<1> DEFINE n == Len(s)
           r == Append(s, m)
<1>1. /\ r \in Seq(S) /\ Len(r) = n + 1 /\ n \in Nat
      /\ \A i \in 1 .. n : r[i] = s[i]
      /\ r[n + 1] = m
  BY AppendProperties, LenProperties
<1>2. DOMAIN s = 1 .. n /\ DOMAIN r = 1 .. (n + 1)
  BY <1>1, LenProperties, Zenon
<1> HIDE DEF n, r
<1>3. Has(r, x) <=> Has(s, x) \/ m = x
  BY <1>1, <1>2 DEF Has
<1>4. Once(s, x) /\ (m # x \/ ~Has(s, x)) => Once(r, x)
  BY <1>1, <1>2 DEF Has, Once
<1> QED BY <1>1, <1>3, <1>4, Zenon DEF r

\* The threads are sequences of message rows.
ThreadType == thread \in [Conversations -> Seq([role : Roles, turn : Turns])]

\* post_message adds one message to one thread: an answered turn stays
\* answered, and only a message of role "agent" answers one.
LEMMA PostThread ==
  ASSUME ThreadType, NEW role \in Roles, NEW t \in Turns, PostMessage(role, t)
  PROVE  /\ ThreadType'
         /\ \A u \in Turns :
              /\ Answered(u)' <=> Answered(u) \/ (role = "agent" /\ u = t)
              /\ /\ Once(thread[ConvOf[u]], Message("agent", u))
                 /\ role # "agent" \/ u # t \/ ~Answered(u)
                 => Once(thread'[ConvOf[u]], Message("agent", u))
<1> DEFINE M == [role : Roles, turn : Turns]
           m == Message(role, t)
           c == ConvOf[t]
<1>1. m \in M
  BY Zenon DEF Message
<1>2. c \in Conversations
  BY Zenon
<1>3. \A u \in Turns : m = Message("agent", u) <=> role = "agent" /\ u = t
  BY Zenon DEF Message
<1>4. thread[c] \in Seq(M)
  BY <1>2, ZenonT(30) DEF ThreadType
<1>5. thread' = [thread EXCEPT ![c] = Append(thread[c], m)]
  BY Zenon DEF PostMessage
<1> HIDE DEF M, m, c
<1>6. \A x : /\ Append(thread[c], m) \in Seq(M)
             /\ Has(Append(thread[c], m), x) <=> Has(thread[c], x) \/ m = x
             /\ Once(thread[c], x) /\ (m # x \/ ~Has(thread[c], x))
                => Once(Append(thread[c], m), x)
  BY <1>1, <1>4, AppendHas, Zenon
<1>7. thread \in [Conversations -> Seq(M)]
  BY ZenonT(30) DEF ThreadType, M
<1>8. /\ thread' \in [Conversations -> Seq(M)]
      /\ thread'[c] = Append(thread[c], m)
      /\ \A d \in Conversations : d # c => thread'[d] = thread[d]
  BY <1>2, <1>5, <1>6, <1>7, ZenonT(30)
<1>9. ThreadType'
  BY <1>8, ZenonT(30) DEF ThreadType, M
<1>10. ASSUME NEW u \in Turns
       PROVE  /\ Has(thread'[ConvOf[u]], Message("agent", u))
                 <=> Has(thread[ConvOf[u]], Message("agent", u)) \/ (role = "agent" /\ u = t)
              /\ /\ Once(thread[ConvOf[u]], Message("agent", u))
                 /\ role # "agent" \/ u # t \/ ~Has(thread[ConvOf[u]], Message("agent", u))
                 => Once(thread'[ConvOf[u]], Message("agent", u))
  <2>1. CASE ConvOf[u] = c
    BY <2>1, <1>3, <1>6, <1>8, Zenon
  <2>2. CASE ConvOf[u] # c
    <3>1. ~(u = t)
      BY <2>2, Zenon DEF c
    <3>2. thread'[ConvOf[u]] = thread[ConvOf[u]]
      BY <2>2, <1>8, Zenon
    <3> QED BY <3>1, <3>2, Zenon
  <2> QED BY <2>1, <2>2, Zenon
<1> QED BY <1>9, <1>10, Zenon DEF Answered

\* The same, as what the message does to the two sets of turns.
LEMMA PostSets ==
  ASSUME ThreadType, NEW role \in Roles, NEW t \in Turns, PostMessage(role, t)
  PROVE  /\ ThreadType'
         /\ AnsweredTurns' = AnsweredTurns \cup (IF role = "agent" THEN {t} ELSE {})
         /\ \A u \in AnsweredOnce :
              role # "agent" \/ u # t \/ u \notin AnsweredTurns => u \in AnsweredOnce'
<1>1. AnsweredTurns' = AnsweredTurns \cup (IF role = "agent" THEN {t} ELSE {})
  BY PostThread, Zenon DEF AnsweredTurns
<1>2. ASSUME NEW u \in AnsweredOnce, role # "agent" \/ u # t \/ u \notin AnsweredTurns
      PROVE  u \in AnsweredOnce'
  <2>1. u \in Turns /\ Once(thread[ConvOf[u]], Message("agent", u))
    BY <1>2, Zenon DEF AnsweredOnce
  <2>2. role # "agent" \/ u # t \/ ~Answered(u)
    BY <1>2, <2>1, Zenon DEF AnsweredTurns
  <2>3. Once(thread'[ConvOf[u]], Message("agent", u))
    BY <2>1, <2>2, PostThread, Zenon
  <2> QED BY <2>1, <2>3, Zenon DEF AnsweredOnce
<1> QED BY <1>1, <1>2, PostThread, Zenon

\* A step that posts nothing changes neither set.
LEMMA QuietSets ==
  ASSUME UNCHANGED thread
  PROVE  UNCHANGED <<AnsweredTurns, AnsweredOnce>> /\ (ThreadType => ThreadType')
BY ZenonT(30) DEF AnsweredTurns, AnsweredOnce, Answered, ThreadType

\* The first state: every thread is empty.
LEMMA InitThreads == Init => ThreadType /\ ThreadInv
<1> SUFFICES ASSUME Init PROVE ThreadType /\ ThreadInv
  BY Zenon
<1>1. ThreadType
  BY DEF Init, ThreadType
<1>2. AnsweredTurns = {} /\ AnsweredOnce = Turns
  BY DEF Init, AnsweredTurns, AnsweredOnce, Answered, Has, Once
<1> QED BY <1>1, <1>2, Zenon DEF Init, ThreadInv, LoopsAnswer, TurnsAnswered

\* A message that is not an answer: asking, and the notices.
LEMMA NoticeThreads ==
  ASSUME RowInv, ThreadType, ThreadInv, NEW t \in Turns, NEW role \in Roles \ {"agent"},
         PostMessage(role, t), UNCHANGED run, UNCHANGED launched
  PROVE  ThreadType' /\ UNCHANGED AnsweredTurns /\ (\A u \in Turns : u \in AnsweredOnce')
BY PostSets, Zenon DEF ThreadInv, TurnsAnswered

\* Every action of a work loop keeps what the threads hold.
LEMMA LoopThreads ==
  ASSUME RowInv, ThreadType, ThreadInv, NEW l \in Loops, LoopStep(l)
  PROVE  ThreadType' /\ ThreadInv'
<1> USE DEF ThreadInv, LoopsAnswer, TurnsAnswered, turnRows, runRows, loopVars, drain, Goto, Fault
<1> /\ turn \in [Turns -> TurnStates] /\ run \in [Turns -> RunStates]
    /\ pc \in [Loops -> Steps] /\ launched \in [Turns -> Nat]
  BY Zenon DEF RowInv, RowTypes
<1> cur \in [Loops -> Turns \cup {NoTurn}] /\ LoopsHold /\ Progress
  BY Zenon DEF RowInv, RowTypes
<1>1. ASSUME NEW t \in Turns, ClaimTurn(l, t) PROVE ThreadType' /\ ThreadInv'
  BY <1>1, QuietSets, Zenon DEF ClaimTurn, Ready
<1>2. CASE Prepare(l)
  BY <1>2, QuietSets, Zenon DEF Prepare
<1>3. CASE CreateRun(l)
  BY <1>3, QuietSets, Zenon DEF CreateRun
<1>4. CASE Launch(l)
  <2>1. UNCHANGED <<AnsweredTurns, AnsweredOnce>> /\ ThreadType'
    BY <1>4, QuietSets, Zenon DEF Launch
  <2>2. LoopsAnswer'
    BY <1>4, <2>1, Zenon DEF Launch
  <2>4. cur[l] \notin AnsweredTurns /\ \A u \in Turns : u # cur[l] => launched'[u] = launched[u]
    BY <1>4, Zenon DEF Launch
  <2>5. UNCHANGED <<turn, run>>
    BY <1>4, Zenon DEF Launch
  <2>3. TurnsAnswered'
    BY <2>1, <2>4, <2>5, ZenonT(40)
  <2> QED BY <2>1, <2>2, <2>3, Zenon
<1>5. CASE EmitLine(l)
  BY <1>5, QuietSets, Zenon DEF EmitLine
<1>6. CASE Heartbeat(l)
  BY <1>6, QuietSets, Zenon DEF Heartbeat
<1>7. ASSUME NEW end \in RunEnds, ProcessEnds(l, end) PROVE ThreadType' /\ ThreadInv'
  BY <1>7, QuietSets, Zenon DEF ProcessEnds
<1>8. CASE RecordRun(l)
  <2>1. UNCHANGED <<AnsweredTurns, AnsweredOnce>> /\ ThreadType'
    BY <1>8, QuietSets, Zenon DEF RecordRun
  <2>2. LoopsAnswer'
    BY <1>8, <2>1, Zenon DEF RecordRun, FinishRow, LoopsHold
  <2>3. TurnsAnswered'
    BY <1>8, <2>1, ZenonT(40) DEF RecordRun, FinishRow, LoopsHold
  <2> QED BY <2>1, <2>2, <2>3, Zenon
<1>9. ASSUME NEW announced \in BOOLEAN, RecordSession(l, announced)
      PROVE  ThreadType' /\ ThreadInv'
  BY <1>9, QuietSets, Zenon DEF RecordSession
<1>10. CASE PostAnswer(l)
  <2>1. cur[l] \in Turns /\ cur[l] \notin AnsweredTurns
    BY <1>10, Zenon DEF PostAnswer, LoopsHold
  <2>2. CASE UNCHANGED thread /\ Goto(l, "notify")
    BY <1>10, <2>2, QuietSets, Zenon DEF PostAnswer
  <2>3. CASE PostMessage("agent", cur[l]) /\ Goto(l, "close")
    <3>1. ThreadType' /\ AnsweredTurns' = AnsweredTurns \cup {cur[l]}
          /\ \A u \in AnsweredOnce : u \in AnsweredOnce'
      BY <2>1, <2>3, PostSets DEF Roles
    <3>2. LoopsAnswer'
      BY <1>10, <2>1, <2>3, <3>1, Zenon DEF PostAnswer, LoopsHold
    <3>3. TurnsAnswered'
      BY <1>10, <2>1, <3>1, ZenonT(40) DEF PostAnswer, Progress, LoopsHold
    <3> QED BY <3>1, <3>2, <3>3, Zenon
  <2> QED BY <1>10, <2>2, <2>3, Zenon DEF PostAnswer
<1>11. CASE CloseDone(l)
  <2>1. UNCHANGED <<AnsweredTurns, AnsweredOnce>> /\ ThreadType'
    BY <1>11, QuietSets, Zenon DEF CloseDone
  <2>2. LoopsAnswer'
    BY <1>11, <2>1, Zenon DEF CloseDone, CloseTurn, Idle, LoopsHold
  <2>4. \A u \in Turns : turn'[u] = turn[u] \/ (turn'[u] = "done" /\ u = cur[l])
    BY <1>11, Zenon DEF CloseDone, CloseTurn
  <2>5. UNCHANGED <<run, launched>> /\ cur[l] \in AnsweredTurns
    BY <1>11, Zenon DEF CloseDone
  <2>3. TurnsAnswered'
    BY <2>1, <2>4, <2>5, Zenon
  <2> QED BY <2>1, <2>2, <2>3, Zenon
<1>12. CASE NotifyFailed(l)
  BY <1>12, QuietSets, NoticeThreads, Zenon DEF NotifyFailed, LoopsHold, Roles
<1>13. CASE CloseFailed(l)
  <2>1. UNCHANGED <<AnsweredTurns, AnsweredOnce>> /\ ThreadType'
    BY <1>13, QuietSets, Zenon DEF CloseFailed
  <2>2. LoopsAnswer'
    BY <1>13, <2>1, Zenon DEF CloseFailed, CloseTurn, Idle, LoopsHold
  <2>4. \A u \in Turns : turn'[u] = turn[u] \/ (turn'[u] = "failed" /\ u = cur[l])
    BY <1>13, Zenon DEF CloseFailed, CloseTurn
  <2>5. UNCHANGED <<run, launched>>
    BY <1>13, Zenon DEF CloseFailed
  <2>3. TurnsAnswered'
    BY <2>1, <2>4, <2>5, Zenon
  <2> QED BY <2>1, <2>2, <2>3, Zenon
<1> QED
  BY <1>1, <1>2, <1>3, <1>4, <1>5, <1>6, <1>7, <1>8, <1>9, <1>10, <1>11, <1>12, <1>13, ZenonT(30)
  DEF LoopStep

\* So does every other step.
LEMMA NextThreads == RowInv /\ ThreadType /\ ThreadInv /\ [Next]_vars => ThreadType' /\ ThreadInv'
<1> SUFFICES ASSUME RowInv, ThreadType, ThreadInv, [Next]_vars PROVE ThreadType' /\ ThreadInv'
  BY Zenon
<1> USE DEF ThreadInv, LoopsAnswer, TurnsAnswered, turnRows, runRows, loopVars, drain, Fault
<1> /\ turn \in [Turns -> TurnStates] /\ run \in [Turns -> RunStates]
    /\ pc \in [Loops -> Steps] /\ launched \in [Turns -> Nat]
  BY Zenon DEF RowInv, RowTypes
<1> cur \in [Loops -> Turns \cup {NoTurn}] /\ LoopsHold /\ Progress
  BY Zenon DEF RowInv, RowTypes
<1>1. ASSUME NEW t \in Turns, PostUserMessage(t) PROVE ThreadType' /\ ThreadInv'
  BY <1>1, NoticeThreads, Zenon DEF PostUserMessage, Roles
<1>2. ASSUME NEW p \in Procs, ReclaimLapsedTurns(p) PROVE ThreadType' /\ ThreadInv'
  BY <1>2, QuietSets, Zenon DEF ReclaimLapsedTurns, Lapsed
<1>3. ASSUME NEW p \in Procs, NEW t \in Turns, NotifyReclaimed(p, t)
      PROVE  ThreadType' /\ ThreadInv'
  BY <1>3, QuietSets, NoticeThreads, Zenon DEF NotifyReclaimed, Roles
<1>4. ASSUME NEW p \in Procs, ReclaimAbandonedRuns(p) PROVE ThreadType' /\ ThreadInv'
  BY <1>4, QuietSets, Zenon DEF ReclaimAbandonedRuns
<1>5. ASSUME NEW p \in Procs, Crash(p) PROVE ThreadType' /\ ThreadInv'
  BY <1>5, QuietSets, ZenonT(30) DEF Crash
<1>6. ASSUME NEW t \in Turns, TimeStep(t) PROVE ThreadType' /\ ThreadInv'
  BY <1>6, QuietSets, Zenon DEF TimeStep, LeaseLapses, DeadlinePasses
<1>7. CASE UNCHANGED vars
  BY <1>7, QuietSets, Zenon DEF vars
<1> QED
  BY <1>1, <1>2, <1>3, <1>4, <1>5, <1>6, <1>7, LoopThreads, ZenonT(30) DEF Next, ReclaimStep

\* Rows and threads together, forever.
THEOREM InvHolds == Spec => [](RowInv /\ ThreadType /\ ThreadInv)
BY InitRows, InitThreads, NextRows, NextThreads, PTL DEF Spec

\* A turn that reads done has its answer in the thread.
THEOREM DoneAnswered == Spec => []DoneIsAnswered
<1>1. ThreadInv => DoneIsAnswered
  BY Zenon DEF ThreadInv, TurnsAnswered, DoneIsAnswered, AnsweredTurns
<1> QED BY InvHolds, <1>1, PTL

\* A message has at most one answer, from a process that ran and did not fail.
THEOREM AnswersEarned == Spec => []AnswersAreEarned
<1>1. ThreadInv => AnswersAreEarned
  BY Zenon DEF ThreadInv, TurnsAnswered, AnswersAreEarned, AnsweredTurns, AnsweredOnce
<1> QED BY InvHolds, <1>1, PTL

-----------------------------------------------------------------------------
(* The lines a run prints, and the type invariant.                          *)

LogType ==
  /\ seq \in [Loops -> Nat]
  /\ log \in [Conversations -> Seq(Turns \X Nat)]

\* Only on_event appends a line, under the drainer's next number.
LEMMA NextLog == RowInv /\ LogType /\ [Next]_vars => LogType'
<1> SUFFICES ASSUME RowInv, LogType, [Next]_vars PROVE LogType'
  BY Zenon
<1>1. ASSUME NEW l \in Loops, EmitLine(l) PROVE LogType'
  <2> DEFINE c == ConvOf[cur[l]]
             line == <<cur[l], seq[l] + 1>>
  <2>1. cur[l] \in Turns
    BY <1>1, ZenonT(30) DEF RowInv, LoopsHold, EmitLine
  <2>2. c \in Conversations /\ line \in Turns \X Nat
    BY <2>1 DEF LogType
  <2>3. seq' \in [Loops -> Nat]
    <3>1. seq \in [Loops -> Nat]
      BY Zenon DEF LogType
    <3>2. seq' = [seq EXCEPT ![l] = seq[l] + 1]
      BY <1>1, Zenon DEF EmitLine
    <3> QED BY <3>1, <3>2
  <2>4. log' = [log EXCEPT ![c] = Append(log[c], line)] \/ log' = log
    BY <1>1, Zenon DEF EmitLine
  <2> HIDE DEF c, line
  <2>5. log[c] \in Seq(Turns \X Nat)
    BY <2>2, Zenon DEF LogType
  <2>6. Append(log[c], line) \in Seq(Turns \X Nat)
    BY <2>2, <2>5, AppendProperties, Zenon
  <2> QED BY <2>3, <2>4, <2>6, ZenonT(30) DEF LogType
<1>2. ASSUME NEW l \in Loops, LoopStep(l), ~EmitLine(l) PROVE LogType'
  <2>1. /\ UNCHANGED log
        /\ UNCHANGED seq \/ seq' = [seq EXCEPT ![l] = 0]
    BY <1>2, ZenonT(30) DEF LoopStep, ClaimTurn, Prepare, CreateRun, Launch, Heartbeat, ProcessEnds, RecordRun,
                RecordSession, PostAnswer, CloseDone, NotifyFailed, CloseFailed, Idle, drain, runRows
  <2>2. seq \in [Loops -> Nat]
    BY Zenon DEF LogType
  <2>3. seq' \in [Loops -> Nat]
    BY <2>1, <2>2
  <2> QED BY <2>1, <2>3, Zenon DEF LogType
<1>3. ASSUME NEW p \in Procs, Crash(p) PROVE LogType'
  <2>1. UNCHANGED log /\ seq' = [l \in Loops |-> IF ProcOf[l] = p THEN 0 ELSE seq[l]]
    BY <1>3, ZenonT(30) DEF Crash, runRows
  <2> QED BY <2>1, Zenon DEF LogType
<1>4. CASE \/ \E t \in Turns : PostUserMessage(t) \/ TimeStep(t)
           \/ \E p \in Procs : ReclaimStep(p)
           \/ UNCHANGED vars
  <2>1. UNCHANGED <<seq, log>>
    BY <1>4, Zenon DEF PostUserMessage, TimeStep, LeaseLapses, DeadlinePasses, ReclaimStep,
                ReclaimLapsedTurns, NotifyReclaimed, ReclaimAbandonedRuns, vars, runRows,
                loopVars, drain
  <2> QED BY <2>1, Zenon DEF LogType
<1> QED BY <1>1, <1>2, <1>3, <1>4, Zenon DEF Next

\* The rows, the logs and the loops' locals always have the values the schema
\* and the code allow.
THEOREM TypeCorrect == Spec => []TypeOK
<1>1. Init => LogType
  BY DEF Init, LogType
<1>2. RowInv /\ ThreadType /\ LogType => TypeOK
  BY ZenonT(30) DEF RowInv, ThreadType, LogType, TypeOK
<1> QED BY InvHolds, NextLog, <1>1, <1>2, PTL DEF Spec

-----------------------------------------------------------------------------
(* The detailed system implements the ledger.                               *)

\* A step of a work loop is at most one step of the ledger.
LEMMA LoopLedger ==
  ASSUME RowInv, ThreadType, ThreadInv, NEW l \in Loops, LoopStep(l)
  PROVE  [Ledger!LedgerNext]_(Ledger!lvars)
<1> DEFINE t == cur[l]
<1> USE DEF RowInv, RowTypes, turnRows, runRows, drain
<1> USE DEF Ledger!LedgerNext, Ledger!lvars
<1>1. ASSUME NEW u \in Turns, ClaimTurn(l, u) PROVE Ledger!Take(u)
  BY <1>1, QuietSets, Zenon DEF ClaimTurn, Ready, Open, Ledger!Take
<1>2. CASE Launch(l)
  <2>1. t \in Turns /\ turn[t] \in {"claimed", "failed"} /\ launched[t] = 0
    BY <1>2, Zenon DEF Launch, LoopsHold, Progress
  <2>2. UNCHANGED <<turn, born, thread>>
    BY <1>2, Zenon DEF Launch
  <2>3. UNCHANGED launched \/ launched' = [launched EXCEPT ![t] = 1]
    <3>1. UNCHANGED launched \/ launched' = [launched EXCEPT ![t] = launched[t] + 1]
      BY <1>2, Zenon DEF Launch
    <3> QED BY <2>1, <3>1
  <2> QED BY <2>1, <2>2, <2>3, QuietSets, Zenon DEF Ledger!Start
<1>3. CASE PostAnswer(l)
  <2>1. t \in Turns /\ turn[t] \in {"claimed", "failed"} /\ launched[t] = 1
    BY <1>3, Zenon DEF PostAnswer, LoopsHold, Progress
  <2>2. UNCHANGED <<turn, born, launched>> /\ t \notin AnsweredTurns
    BY <1>3, Zenon DEF PostAnswer, ThreadInv, LoopsAnswer
  <2>3. UNCHANGED AnsweredTurns \/ AnsweredTurns' = AnsweredTurns \cup {t}
    BY <1>3, <2>1, QuietSets, PostSets, Zenon DEF PostAnswer, Roles
  <2> QED BY <2>1, <2>2, <2>3, Zenon DEF Ledger!Answer
<1>4. CASE CloseDone(l)
  <2>1. t \in Turns /\ t \in AnsweredTurns
    BY <1>4, Zenon DEF CloseDone, LoopsHold, ThreadInv, LoopsAnswer
  <2>2. UNCHANGED <<born, launched, thread>>
    BY <1>4, Zenon DEF CloseDone
  <2>3. UNCHANGED turn \/ (turn[t] = "claimed" /\ turn' = [turn EXCEPT ![t] = "done"])
    BY <1>4, Zenon DEF CloseDone, CloseTurn
  <2> QED BY <2>1, <2>2, <2>3, QuietSets, Zenon DEF Ledger!Done
<1>5. CASE CloseFailed(l)
  <2>1. t \in Turns
    BY <1>5, Zenon DEF CloseFailed, LoopsHold
  <2>2. UNCHANGED <<born, launched, thread>>
    BY <1>5, Zenon DEF CloseFailed
  <2>3. UNCHANGED turn \/ (turn[t] = "claimed" /\ turn' = [turn EXCEPT ![t] = "failed"])
    BY <1>5, Zenon DEF CloseFailed, CloseTurn
  <2>4. turn' = [turn EXCEPT ![t] = "failed"] =>
          turn' = [u \in Turns |-> IF u \in {t} THEN "failed" ELSE turn[u]]
    BY <2>1, ZenonT(30)
  <2>5. UNCHANGED turn \/ Ledger!GiveUp({t})
    BY <2>1, <2>2, <2>3, <2>4, QuietSets, Zenon DEF Ledger!GiveUp
  <2> QED BY <2>1, <2>2, <2>5, QuietSets, Zenon
<1>6. CASE NotifyFailed(l)
  <2>1. t \in Turns /\ UNCHANGED <<turn, born, launched, run>>
    BY <1>6, Zenon DEF NotifyFailed, LoopsHold
  <2>2. UNCHANGED AnsweredTurns
    BY <1>6, <2>1, QuietSets, NoticeThreads, Zenon DEF NotifyFailed, Roles
  <2> QED BY <2>1, <2>2, Zenon
<1>7. CASE \/ Prepare(l) \/ CreateRun(l) \/ EmitLine(l) \/ Heartbeat(l) \/ RecordRun(l)
           \/ \E end \in RunEnds : ProcessEnds(l, end)
           \/ \E announced \in BOOLEAN : RecordSession(l, announced)
  <2>1. UNCHANGED <<turn, born, launched, thread>>
    BY <1>7, ZenonT(30) DEF Prepare, CreateRun, EmitLine, Heartbeat, RecordRun, ProcessEnds, RecordSession
  <2> QED BY <2>1, QuietSets, Zenon
<1> QED BY <1>1, <1>2, <1>3, <1>4, <1>5, <1>6, <1>7, Zenon DEF LoopStep

\* So is every other step.
LEMMA NextLedger ==
  ASSUME RowInv, ThreadType, ThreadInv, [Next]_vars
  PROVE  [Ledger!LedgerNext]_(Ledger!lvars)
<1> USE DEF Ledger!LedgerNext, Ledger!lvars
<1>1. ASSUME NEW t \in Turns, PostUserMessage(t) PROVE Ledger!Open(t)
  <2>1. UNCHANGED <<launched, run>> /\ turn[t] = "absent" /\ turn' = [turn EXCEPT ![t] = "pending"]
    BY <1>1, Zenon DEF PostUserMessage, runRows
  <2>2. UNCHANGED AnsweredTurns
    BY <1>1, <2>1, NoticeThreads, Zenon DEF PostUserMessage, Roles
  <2>3. born' = [born EXCEPT ![t] = posts + 1] /\ born'[t] = posts + 1
    BY <1>1, Zenon DEF PostUserMessage, RowInv, RowTypes
  <2>4. \A u \in Turns : born[u] < born'[t]
    BY <2>3 DEF RowInv, RowTypes, BornBounded
  <2> QED BY <2>1, <2>2, <2>3, <2>4, ZenonT(30) DEF Ledger!Open
<1>2. ASSUME NEW p \in Procs, ReclaimLapsedTurns(p) PROVE Ledger!GiveUp(Lapsed)
  BY <1>2, QuietSets, Zenon DEF ReclaimLapsedTurns, Lapsed, Ledger!GiveUp
<1>3. ASSUME NEW p \in Procs, NEW t \in Turns, NotifyReclaimed(p, t)
      PROVE  UNCHANGED Ledger!lvars
  <2>1. UNCHANGED <<turn, born, launched, run>>
    BY <1>3, Zenon DEF NotifyReclaimed, turnRows, runRows
  <2>2. UNCHANGED AnsweredTurns
    BY <1>3, <2>1, QuietSets, NoticeThreads, Zenon DEF NotifyReclaimed, Roles
  <2> QED BY <2>1, <2>2, Zenon
<1>4. CASE \/ \E p \in Procs : ReclaimAbandonedRuns(p) \/ Crash(p)
           \/ \E t \in Turns : TimeStep(t)
           \/ UNCHANGED vars
  <2>1. UNCHANGED <<turn, born, launched, thread>>
    BY <1>4, ZenonT(30) DEF ReclaimAbandonedRuns, Crash, TimeStep, LeaseLapses, DeadlinePasses, vars, turnRows
  <2> QED BY <2>1, QuietSets, Zenon
<1>5. Lapsed \in SUBSET Turns
  BY ZenonT(30) DEF Lapsed
<1> QED BY <1>1, <1>2, <1>3, <1>4, <1>5, LoopLedger, Zenon DEF Next, ReclaimStep

\* Workers, leases, reclaimers, failed calls and crashes never show through the
\* ledger, for any number of each.
THEOREM LedgerImplemented == Spec => ImplementsLedger
<1>1. Init => Ledger!LedgerInit
  <2>1. Init => AnsweredTurns = {}
    BY DEF Init, AnsweredTurns, Answered, Has
  <2> QED BY <2>1, Zenon DEF Init, Ledger!LedgerInit
<1>2. RowInv /\ ThreadType /\ ThreadInv /\ [Next]_vars => [Ledger!LedgerNext]_(Ledger!lvars)
  BY NextLedger, Zenon
<1> QED BY <1>1, <1>2, InvHolds, PTL DEF Spec, ImplementsLedger, Ledger!LedgerSpec

\* A closed turn never changes again: neither a late worker nor a reclaimer
\* un-closes or un-fails it.
THEOREM ClosedTurnsKept == Spec => ClosedTurnsStay
<1>1. ASSUME RowInv, [Ledger!LedgerNext]_(Ledger!lvars)
      PROVE  \A t \in Turns : turn[t] \in Closed => turn'[t] = turn[t]
  BY <1>1, ZenonT(40) DEF RowInv, RowTypes, Closed, Ledger!LedgerNext, Ledger!lvars, Ledger!Open, Ledger!Take,
              Ledger!Start, Ledger!Answer, Ledger!Done, Ledger!GiveUp
<1>2. RowInv /\ ThreadType /\ ThreadInv /\ [Next]_vars
        => [\A t \in Turns : turn[t] \in Closed => turn'[t] = turn[t]]_vars
  BY <1>1, NextLedger, Zenon
<1> QED BY <1>2, InvHolds, PTL DEF Spec, ClosedTurnsStay

\* finish_run and both reclaimers write a run row only where it reads running,
\* so its first terminal state is the one it keeps (AgentRunStore::finish).
THEOREM ClosedRunsKept == Spec => ClosedRunsStay
<1> DEFINE Keeps == \A t \in Turns : run[t] \notin {"none", "running"} => run'[t] = run[t]
<1>1. ASSUME RowInv, Next PROVE Keeps
  <2> run \in [Turns -> RunStates]
    BY <1>1, Zenon DEF RowInv, RowTypes
  <2>1. ASSUME NEW t \in Turns, PostUserMessage(t) PROVE Keeps
    BY <2>1, Zenon DEF PostUserMessage, runRows
  <2>2. ASSUME NEW l \in Loops, LoopStep(l) PROVE Keeps
    <3>1. CASE CreateRun(l)
      BY <3>1, ZenonT(30) DEF CreateRun
    <3>2. CASE RecordRun(l)
      BY <3>2, Zenon DEF RecordRun, FinishRow
    <3>3. CASE UNCHANGED run
      BY <3>3, Zenon
    <3> QED
      BY <2>2, <3>1, <3>2, <3>3, ZenonT(30) DEF LoopStep, ClaimTurn, Prepare, Launch, EmitLine, Heartbeat,
         ProcessEnds, RecordSession, PostAnswer, CloseDone, NotifyFailed, CloseFailed, runRows
  <2>3. ASSUME NEW p \in Procs, ReclaimStep(p) PROVE Keeps
    BY <2>3, Zenon DEF ReclaimStep, ReclaimLapsedTurns, NotifyReclaimed, ReclaimAbandonedRuns, runRows
  <2>4. ASSUME NEW p \in Procs, Crash(p) PROVE Keeps
    BY <2>4, ZenonT(30) DEF Crash, runRows
  <2>5. ASSUME NEW t \in Turns, TimeStep(t) PROVE Keeps
    BY <2>5, Zenon DEF TimeStep, LeaseLapses, DeadlinePasses, runRows
  <2> QED BY <1>1, <2>1, <2>2, <2>3, <2>4, <2>5, Zenon DEF Next
<1>2. RowInv /\ [Next]_vars => [Keeps]_vars
  BY <1>1, Zenon
<1> QED BY <1>2, InvHolds, PTL DEF Spec, ClosedRunsStay

\* record_session writes no empty id, so a conversation that has a session to
\* resume keeps one, also when a run that started before it had one ends last.
THEOREM SessionKept == Spec => SessionNeverErased
<1> DEFINE Keeps == \A c \in Conversations : session[c] # NoTurn => session'[c] # NoTurn
<1>1. ASSUME RowInv, Next PROVE Keeps
  <2> session \in [Conversations -> Turns \cup {NoTurn}]
    BY <1>1, Zenon DEF RowInv, RowTypes
  <2>1. ASSUME NEW l \in Loops, NEW announced \in BOOLEAN, RecordSession(l, announced) PROVE Keeps
    BY <2>1, Zenon DEF RecordSession
  <2>2. CASE UNCHANGED session
    BY <2>2, Zenon
  <2>3. ASSUME NEW l \in Loops, LoopStep(l) PROVE Keeps
    BY <2>1, <2>2, <2>3, ZenonT(30) DEF LoopStep, ClaimTurn, Prepare, CreateRun, Launch, EmitLine, Heartbeat,
       ProcessEnds, RecordRun, PostAnswer, CloseDone, NotifyFailed, CloseFailed
  <2> QED
    BY <1>1, <2>2, <2>3, ZenonT(30) DEF Next, PostUserMessage, ReclaimStep, ReclaimLapsedTurns, NotifyReclaimed,
       ReclaimAbandonedRuns, Crash, TimeStep, LeaseLapses, DeadlinePasses
<1>2. RowInv /\ [Next]_vars => [Keeps]_vars
  BY <1>1, Zenon
<1> QED BY <1>2, InvHolds, PTL DEF Spec, SessionNeverErased
=============================================================================
