----------------------------- MODULE ModelJobs -----------------------------
(***************************************************************************)
(* The model job queue (hive-store/src/models.rs) and the worker that      *)
(* answers it (hive-models/src/lib.rs).                                    *)
(*                                                                         *)
(* An install submits a job; a worker claims the oldest under a lease,     *)
(* calls the endpoint with a heartbeat beside the call, and lands the      *)
(* answer; a reclaimer hands lapsed claims back, or fails them after       *)
(* MaxAttempts.  Workers are in different processes and die at any time.   *)
(*                                                                         *)
(* claim and finish are transactions of two statements.  On SQLite they    *)
(* hold the write lock from the first (Immediate); on Postgres another     *)
(* statement may commit between the two.                                   *)
(***************************************************************************)
EXTENDS Naturals

CONSTANTS
  Workers,      \* one per process: the daemon runs one claim loop
  NoWorker,
  NumJobs,      \* jobs 1 .. NumJobs, in the order they are submitted
  MaxAttempts,  \* MAX_ATTEMPTS
  Immediate,    \* BEGIN IMMEDIATE, as against BEGIN
  MaxFaults     \* workers that die and statements that fail

ASSUME JobConstants ==
  /\ NoWorker \notin Workers
  /\ NumJobs \in Nat /\ MaxAttempts \in Nat \ {0} /\ MaxFaults \in Nat
  /\ Immediate \in BOOLEAN

Jobs == 1 .. NumJobs

VARIABLES
  state,      \* model_jobs.state, or "none"
  by,         \* claimed_by
  lapsed,     \* the jobs whose lease_expires_at has passed
  attempts,   \* model_jobs.attempts
  answer,     \* the attempt whose result or error the row carries, 0 for none
  announced,  \* jobs with a model.job.finished event
  lock,       \* who holds the write lock
  pc,         \* a worker: "idle", "claim", "call", "land", "finish"
  job,        \* the job it works on
  attempt,    \* the attempt it works for
  outcome,    \* what it has to land: "done" or "failed"
  stale,      \* the reclaimer between its two statements: leases below its now
  reclaim,    \* "idle" or "requeue"
  faults

rows == <<state, by, lapsed, attempts, answer, announced>>
loop == <<pc, job, attempt, outcome>>
jobsVars == <<rows, lock, loop, stale, reclaim, faults>>

JobsInit ==
  /\ state = [j \in Jobs |-> "none"]
  /\ by = [j \in Jobs |-> NoWorker]
  /\ lapsed = {}
  /\ attempts = [j \in Jobs |-> 0]
  /\ answer = [j \in Jobs |-> 0]
  /\ announced = {}
  /\ lock = NoWorker
  /\ pc = [w \in Workers |-> "idle"]
  /\ job = [w \in Workers |-> 1]
  /\ attempt = [w \in Workers |-> 0]
  /\ outcome = [w \in Workers |-> "failed"]
  /\ stale = {}
  /\ reclaim = "idle"
  /\ faults = 0

-----------------------------------------------------------------------------

Writable == Immediate => lock = NoWorker
BeginTx(w) == Writable /\ lock' = IF Immediate THEN w ELSE lock
EndTx(w) == lock' = IF lock = w THEN NoWorker ELSE lock
Goto(w, to) == pc' = [pc EXCEPT ![w] = to]
Holds(w) == state[job[w]] = "claimed" /\ by[job[w]] = w
Ended(j) == state[j] \in {"done", "failed"}

\* submit: the row, then the bell.
Submit(j) ==
  /\ state[j] = "none" /\ \A i \in 1 .. j - 1 : state[i] # "none"
  /\ Writable
  /\ state' = [state EXCEPT ![j] = "pending"]
  /\ UNCHANGED <<by, lapsed, attempts, answer, announced, lock, loop, stale, reclaim, faults>>

\* claim, its SELECT: the oldest pending job.
ClaimReads(w) ==
  LET pending == {j \in Jobs : state[j] = "pending"} IN
  /\ pc[w] = "idle"
  /\ BeginTx(w)
  /\ \E j \in pending : (\A i \in pending : j <= i) /\ job' = [job EXCEPT ![w] = j]
  /\ Goto(w, "claim")
  /\ UNCHANGED <<rows, attempt, outcome, stale, reclaim, faults>>

\* claim, its UPDATE and commit.
ClaimCommits(w) ==
  LET j == job[w] IN
  /\ pc[w] = "claim"
  /\ state' = [state EXCEPT ![j] = "claimed"]
  /\ by' = [by EXCEPT ![j] = w]
  /\ lapsed' = lapsed \ {j}
  /\ stale' = stale \ {j}
  /\ attempts' = [attempts EXCEPT ![j] = @ + 1]
  /\ attempt' = [attempt EXCEPT ![w] = attempts[j] + 1]
  /\ EndTx(w)
  /\ Goto(w, "call")
  /\ UNCHANGED <<answer, announced, job, outcome, reclaim, faults>>

\* answer: the call returned, failed or timed out, or has no endpoint.
CallReturns(w) ==
  /\ pc[w] = "call"
  /\ \E o \in {"done", "failed"} : outcome' = [outcome EXCEPT ![w] = o]
  /\ Goto(w, "land")
  /\ UNCHANGED <<rows, lock, job, attempt, stale, reclaim, faults>>

\* answer, the heartbeat beside the call: a claim that is lost ends the call.
Heartbeat(w) ==
  /\ pc[w] = "call" /\ Writable
  /\ IF Holds(w)
     THEN /\ lapsed' = lapsed \ {job[w]}
          /\ stale' = stale \ {job[w]}
          /\ UNCHANGED <<pc, outcome>>
     ELSE /\ outcome' = [outcome EXCEPT ![w] = "failed"]
          /\ Goto(w, "land")
          /\ UNCHANGED <<lapsed, stale>>
  /\ UNCHANGED <<state, by, attempts, answer, announced, lock, job, attempt, reclaim, faults>>

\* A heartbeat whose statement fails ends the call too.
HeartbeatFails(w) ==
  /\ pc[w] = "call" /\ faults < MaxFaults
  /\ faults' = faults + 1
  /\ outcome' = [outcome EXCEPT ![w] = "failed"]
  /\ Goto(w, "land")
  /\ UNCHANGED <<rows, lock, job, attempt, stale, reclaim>>

\* Mutant: whoever answers, lands.
FinishReadsUnchecked(w) ==
  /\ pc[w] = "land" /\ Writable
  /\ IF state[job[w]] = "claimed"
     THEN Goto(w, "finish") /\ BeginTx(w)
     ELSE Goto(w, "idle") /\ UNCHANGED lock
  /\ UNCHANGED <<rows, job, attempt, outcome, stale, reclaim, faults>>

\* finish, its SELECT: is the claim still this worker's?
FinishReads(w) ==
  /\ pc[w] = "land" /\ Writable
  /\ IF Holds(w)
     THEN Goto(w, "finish") /\ BeginTx(w)
     ELSE Goto(w, "idle") /\ UNCHANGED lock
  /\ UNCHANGED <<rows, job, attempt, outcome, stale, reclaim, faults>>

\* Mutant: only a result is announced.
FinishCommitsSilently(w) ==
  LET j == job[w] IN
  /\ pc[w] = "finish" /\ state[j] # "pending"
  /\ state' = [state EXCEPT ![j] = outcome[w]]
  /\ answer' = [answer EXCEPT ![j] = attempt[w]]
  /\ announced' = IF outcome[w] = "done" THEN announced \cup {j} ELSE announced
  /\ EndTx(w)
  /\ Goto(w, "idle")
  /\ UNCHANGED <<by, lapsed, attempts, job, attempt, outcome, stale, reclaim, faults>>

\* finish, its UPDATE by id, the event, and the commit.  A row that went back
\* to pending has no claimed_by and refuses the state.
FinishCommits(w) ==
  LET j == job[w] IN
  /\ pc[w] = "finish"
  /\ IF state[j] = "pending"
     THEN UNCHANGED <<state, answer, announced>>
     ELSE /\ state' = [state EXCEPT ![j] = outcome[w]]
          /\ answer' = [answer EXCEPT ![j] = attempt[w]]
          /\ announced' = announced \cup {j}
  /\ EndTx(w)
  /\ Goto(w, "idle")
  /\ UNCHANGED <<by, lapsed, attempts, job, attempt, outcome, stale, reclaim, faults>>

\* A worker dies, or its transaction fails: it is idle and the row as it was.
WorkerStops(w) ==
  /\ pc[w] # "idle" /\ faults < MaxFaults
  /\ faults' = faults + 1
  /\ Goto(w, "idle")
  /\ EndTx(w)
  /\ UNCHANGED <<rows, job, attempt, outcome, stale, reclaim>>

\* lease_expires_at passes.
LeaseLapses(j) ==
  /\ state[j] = "claimed" /\ j \notin lapsed
  /\ lapsed' = lapsed \cup {j}
  /\ UNCHANGED <<state, by, attempts, answer, announced, lock, loop, stale, reclaim, faults>>

\* reclaim_lapsed, its first statement: fail what was abandoned too often.
ReclaimFails ==
  LET spent == {j \in lapsed : state[j] = "claimed" /\ attempts[j] >= MaxAttempts} IN
  /\ reclaim = "idle" /\ lapsed # {} /\ Writable
  /\ state' = [j \in Jobs |-> IF j \in spent THEN "failed" ELSE state[j]]
  /\ stale' = lapsed
  /\ reclaim' = "requeue"
  /\ UNCHANGED <<by, lapsed, attempts, answer, announced, lock, loop, faults>>

\* Mutant: the second statement is missing.
ReclaimRequeuesNone ==
  /\ reclaim = "requeue" /\ Writable
  /\ stale' = {}
  /\ reclaim' = "idle"
  /\ UNCHANGED <<state, by, lapsed, attempts, answer, announced, lock, loop, faults>>

\* reclaim_lapsed, its second statement: requeue the rest, by the same now.
ReclaimRequeues ==
  LET back == {j \in stale : state[j] = "claimed"} IN
  /\ reclaim = "requeue" /\ Writable
  /\ state' = [j \in Jobs |-> IF j \in back THEN "pending" ELSE state[j]]
  /\ by' = [j \in Jobs |-> IF j \in back THEN NoWorker ELSE by[j]]
  /\ lapsed' = lapsed \ back
  /\ stale' = {}
  /\ reclaim' = "idle"
  /\ UNCHANGED <<attempts, answer, announced, lock, loop, faults>>

Work(w) ==
  \/ ClaimReads(w) \/ ClaimCommits(w) \/ CallReturns(w) \/ FinishReads(w) \/ FinishCommits(w)

JobsNext ==
  \/ \E j \in Jobs : Submit(j) \/ LeaseLapses(j)
  \/ \E w \in Workers : Work(w) \/ Heartbeat(w) \/ HeartbeatFails(w) \/ WorkerStops(w)
  \/ ReclaimFails \/ ReclaimRequeues

JobsSpec == JobsInit /\ [][JobsNext]_jobsVars

\* The loops run, a call ends by its timeout, the reclaimer ticks, and the lease
\* of a job that nobody works on passes.
Abandoned(j) == \A w \in Workers : pc[w] # "idle" => job[w] # j
Fairness ==
  /\ \A w \in Workers : SF_jobsVars(Work(w))
  /\ SF_jobsVars(ReclaimFails) /\ SF_jobsVars(ReclaimRequeues)
  /\ \A j \in Jobs : WF_jobsVars(Abandoned(j) /\ LeaseLapses(j))
JobsFairSpec == JobsSpec /\ Fairness

-----------------------------------------------------------------------------
(* Properties.                                                              *)

\* finish: "a late answer does not overwrite a reclaim": what a row carries was
\* answered by the last attempt that claimed it.
LateAnswerDiscarded == \A j \in Jobs : answer[j] # 0 => answer[j] = attempts[j]

\* finish: the event is in the same transaction as the outcome, so a job is
\* announced exactly if some worker's answer landed.
AnnouncedIffAnswered == \A j \in Jobs : j \in announced <=> answer[j] # 0

\* Every job that was submitted ends, whoever dies on the way.
EveryJobEnds == \A j \in Jobs : state[j] = "pending" ~> Ended(j)

\* Does not hold without Immediate (README, "Divergences").  claim: "Takes the
\* oldest pending job under a lease": a claim is of a job that is pending when
\* the claim commits.
ClaimsPending ==
  [][\A j \in Jobs : attempts'[j] # attempts[j] => state[j] = "pending"]_jobsVars

\* Does not hold (README, "Divergences").  0002_model_jobs.sql: a row is
\* "finished with a result or an error, and announced on the events table".
EveryEndAnnounced == \A j \in Jobs : Ended(j) => j \in announced
=============================================================================
