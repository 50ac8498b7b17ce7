----------------------------- MODULE Supervisor -----------------------------
(***************************************************************************)
(* One agent run under the supervisor (hive-harness/src/supervisor.rs).    *)
(*                                                                         *)
(* The supervisor launches a process, two reader tasks turn its pipes into *)
(* one ordered stream of deliveries (the store's append and the caller's   *)
(* callback, under one lock), and the run ends when the process exits, its *)
(* deadline passes or the caller cancels.  The readers then get a bounded  *)
(* grace, the container is removed on every path, and the outcome is       *)
(* recorded.                                                               *)
(*                                                                         *)
(* The process may leave a grandchild that holds the pipes, a delivery may *)
(* fail or never return, and a pipe holds a bounded number of lines, so a  *)
(* process whose output nobody reads blocks.  A rival call with the same   *)
(* run id may arrive at any time.                                          *)
(*                                                                         *)
(* A run with the proxied network mode (hive-harness/src/egress.rs) has,   *)
(* beside its container, a private network and a proxy, which the launcher *)
(* creates one Podman command at a time and removes the same way.  A       *)
(* daemon that died may have left either behind under the run's names.     *)
(***************************************************************************)
EXTENDS Naturals, Sequences

CONSTANTS
  Streams,    \* stdout and stderr
  First,      \* the one launch_and_drain waits for first: stdout
  PipeCap,    \* lines a pipe holds before a write blocks
  MaxLines    \* the most lines the process prints

ASSUME SupervisorConstants ==
  First \in Streams /\ PipeCap \in Nat \ {0} /\ MaxLines \in Nat

VARIABLES
  step,       \* "new", then "launch", "network", "proxy", "wait", "spawn", "select", "drain",
              \* "judge", "terminate", "finish", and "returned"
  inFlight,   \* the run id is in the supervisor's in_flight set
  rival,      \* another call with the same id: "new", "admitted" or "refused"
  proxied,    \* RunSpec::network is Proxied
  parts,      \* what has the run's names: "none", "old" (left by a crash) or "own"
  cleanup,    \* terminate: "none" yet, "ok" or "failed"
  proc,       \* "none", "running", "zero", "nonzero", "killed"
  orphan,     \* a grandchild holds the write ends
  pipe,       \* lines in each pipe
  left,       \* lines the process has still to print
  reader,     \* a reader task: "none", "read", "lock", "call", "done", "gone"
  handle,     \* its Shared handle: "kept", or "taken" by a wait
  seq,        \* the drainer's counter
  delivered,  \* the numbers of the deliveries, in order
  drainErr,   \* DrainState::first_err is set
  cancelled, deadlineHit,
  stuck,      \* the drain was given up with a reader parked downstream
  result,     \* RunResult::state; "none" before it is known
  recorded    \* the run row

taskVars == <<reader, handle, seq, delivered, drainErr>>
procVars == <<proc, orphan, pipe, left>>
callVars == <<inFlight, rival, proxied, parts, cleanup>>
endVars  == <<cancelled, deadlineHit, stuck, result, recorded>>
supervisorVars == <<step, taskVars, procVars, callVars, endVars>>

Parts == {"container", "proxy", "network"}

\* A leftover matters only to a run that uses those names.
Leftover(p) == IF proxied /\ p # "container" THEN {"none", "old"} ELSE {"none"}

SupervisorInit ==
  /\ step = "new"
  /\ inFlight = FALSE /\ rival = "new"
  /\ proxied \in BOOLEAN
  /\ parts \in {f \in [Parts -> {"none", "old"}] : \A p \in Parts : f[p] \in Leftover(p)}
  /\ cleanup = "none"
  /\ proc = "none" /\ orphan = FALSE
  /\ pipe = [r \in Streams |-> 0] /\ left = 0
  /\ reader = [r \in Streams |-> "none"]
  /\ handle = [r \in Streams |-> "kept"]
  /\ seq = 0 /\ delivered = <<>> /\ drainErr = FALSE
  /\ cancelled = FALSE /\ deadlineHit = FALSE /\ stuck = FALSE
  /\ result = "none" /\ recorded = "none"

-----------------------------------------------------------------------------
(* run and run_claimed.                                                     *)

\* run: claim the id, then create the run row; without a row nothing starts.
Begin ==
  /\ step = "new" /\ ~inFlight
  /\ \/ /\ inFlight' = TRUE
        /\ recorded' = "running"
        /\ step' = "launch"
        /\ UNCHANGED result
     \/ /\ result' = "failed"
        /\ step' = "returned"
        /\ UNCHANGED <<inFlight, recorded>>
  /\ UNCHANGED <<taskVars, procVars, rival, proxied, parts, cleanup, cancelled, deadlineHit, stuck>>

\* claim: a call whose run id is in flight is refused.
Rival ==
  /\ rival = "new"
  /\ rival' = IF inFlight THEN "refused" ELSE "admitted"
  /\ inFlight' = TRUE
  /\ UNCHANGED <<step, taskVars, procVars, proxied, parts, cleanup, endVars>>

\* release: the rival's call is over.
RivalReturns ==
  /\ rival \in {"admitted", "refused"}
  /\ rival' = "new"
  /\ inFlight' = IF rival = "admitted" THEN FALSE ELSE inFlight
  /\ UNCHANGED <<step, taskVars, procVars, proxied, parts, cleanup, endVars>>

-----------------------------------------------------------------------------
(* launch_and_drain up to the spawn, and PodmanLauncher::command.           *)

\* podman rm or podman network rm: it may fail, and what is not there is no
\* failure.  A network removed with --force takes with it what is on it.
Removed(f, p) == {f, [f EXCEPT ![p] = "none"]}

\* stop_egress: the proxy, then the network, whichever of the two fails.
StopEgress(f) == UNION {{g, [p \in Parts |-> "none"]} : g \in Removed(f, "proxy")}

launchVars == <<taskVars, procVars, inFlight, rival, proxied, cleanup,
                cancelled, deadlineHit, stuck, recorded>>

\* Mutant: a launch that failed is not terminated.
LaunchFailedLeaves == result' = "failed" /\ step' = "finish"

\* An error of launch_and_drain: run_claimed terminates.
LaunchFailed == result' = "failed" /\ step' = "terminate"

\* command, up to start_egress's first stop_egress, whose outcome is not looked
\* at: refused arguments, no image for the proxy, or on.
Command ==
  /\ step = "launch"
  /\ \/ LaunchFailed /\ UNCHANGED parts
     \/ ~proxied /\ step' = "spawn" /\ UNCHANGED <<parts, result>>
     \/ proxied /\ parts' \in StopEgress(parts) /\ step' = "network" /\ UNCHANGED result
  /\ UNCHANGED launchVars

\* start_egress: a network that has the name already is an error of Podman's.
CreateNetwork ==
  /\ step = "network"
  /\ \/ /\ parts["network"] = "none"
        /\ parts' = [parts EXCEPT !["network"] = "own"]
        /\ step' = "proxy" /\ UNCHANGED result
     \/ LaunchFailed /\ UNCHANGED parts
  /\ UNCHANGED launchVars

\* podman run --detach without --rm: a proxy that failed to start may be there.
RunProxy ==
  /\ step = "proxy"
  /\ \/ /\ parts["proxy"] = "none"
        /\ parts' = [parts EXCEPT !["proxy"] = "own"]
        /\ \/ step' = "wait" /\ UNCHANGED result
           \/ LaunchFailed
     \/ LaunchFailed /\ UNCHANGED parts
  /\ UNCHANGED launchVars

\* wait_for_proxy: it listens, or exited, or did not listen in time.
WaitForProxy ==
  /\ step = "wait"
  /\ \/ step' = "spawn" /\ UNCHANGED <<parts, result>>
     \/ LaunchFailed /\ parts' \in StopEgress(parts)
  /\ UNCHANGED launchVars

\* The podman client starts, with its container and the two readers, or not.
Spawn ==
  /\ step = "spawn"
  /\ \/ /\ parts' = [parts EXCEPT !["container"] = "own"]
        /\ proc' = "running" /\ left' \in 0 .. MaxLines
        /\ reader' = [r \in Streams |-> "read"]
        /\ step' = "select"
        /\ UNCHANGED result
     \/ LaunchFailed /\ UNCHANGED <<parts, proc, left, reader>>
  /\ UNCHANGED <<handle, seq, delivered, drainErr, orphan, pipe, inFlight, rival, proxied, cleanup,
                 cancelled, deadlineHit, stuck, recorded>>

Launch == Command \/ CreateNetwork \/ RunProxy \/ WaitForProxy \/ Spawn

-----------------------------------------------------------------------------
(* The process.                                                             *)

\* A reader that ended closed its end of the pipe.
Shut(r) == reader[r] \in {"done", "gone"}

\* A line, if the pipe has room or nobody will read it; otherwise the process is
\* blocked in write.
PrintLine(r) ==
  /\ proc = "running" /\ left > 0
  /\ Shut(r) \/ pipe[r] < PipeCap
  /\ pipe' = IF Shut(r) THEN pipe ELSE [pipe EXCEPT ![r] = @ + 1]
  /\ left' = left - 1
  /\ UNCHANGED <<step, taskVars, proc, orphan, callVars, endVars>>

\* It exits by itself once it has printed everything, leaving a grandchild or not.
Exit(code) ==
  /\ proc = "running" /\ left = 0
  /\ proc' = code
  /\ orphan' \in BOOLEAN
  /\ UNCHANGED <<step, taskVars, pipe, left, callVars, endVars>>

OrphanExits ==
  /\ orphan
  /\ orphan' = FALSE
  /\ UNCHANGED <<step, taskVars, proc, pipe, left, callVars, endVars>>

-----------------------------------------------------------------------------
(* The two readers: consume and emit.                                       *)

Busy(r) == reader[r] \in {"lock", "call"}
Eof(r) == pipe[r] = 0 /\ proc \notin {"none", "running"} /\ ~orphan

\* Mutant: reading stops with the first failed delivery.
ReadUntilError(r) ==
  /\ reader[r] = "read"
  /\ \/ /\ pipe[r] > 0 /\ ~drainErr
        /\ pipe' = [pipe EXCEPT ![r] = @ - 1]
        /\ reader' = [reader EXCEPT ![r] = "lock"]
     \/ Eof(r) /\ reader' = [reader EXCEPT ![r] = "done"] /\ UNCHANGED pipe
  /\ UNCHANGED <<step, handle, seq, delivered, drainErr, proc, orphan, left, callVars, endVars>>

\* consume: the next line, or the end of the pipe.
Read(r) ==
  /\ reader[r] = "read"
  /\ \/ /\ pipe[r] > 0
        /\ pipe' = [pipe EXCEPT ![r] = @ - 1]
        /\ reader' = [reader EXCEPT ![r] = "lock"]
     \/ Eof(r) /\ reader' = [reader EXCEPT ![r] = "done"] /\ UNCHANGED pipe
  /\ UNCHANGED <<step, handle, seq, delivered, drainErr, proc, orphan, left, callVars, endVars>>

\* consume: a read that fails is the drain's failure, and the reader ends.
ReadFails(r) ==
  /\ reader[r] = "read"
  /\ reader' = [reader EXCEPT ![r] = "done"]
  /\ drainErr' = TRUE
  /\ UNCHANGED <<step, handle, seq, delivered, procVars, callVars, endVars>>

\* Mutant: the counter stays.
DeliverUncounted(r) ==
  /\ reader[r] = "lock" /\ \A s \in Streams : reader[s] # "call"
  /\ IF drainErr
     THEN reader' = [reader EXCEPT ![r] = "read"] /\ UNCHANGED delivered
     ELSE reader' = [reader EXCEPT ![r] = "call"] /\ delivered' = Append(delivered, seq + 1)
  /\ UNCHANGED <<step, handle, seq, drainErr, procVars, callVars, endVars>>

\* emit: under the lock the line gets its number; after the first failure it
\* is read and counted, never delivered.
Deliver(r) ==
  /\ reader[r] = "lock" /\ \A s \in Streams : reader[s] # "call"
  /\ seq' = seq + 1
  /\ IF drainErr
     THEN reader' = [reader EXCEPT ![r] = "read"] /\ UNCHANGED delivered
     ELSE reader' = [reader EXCEPT ![r] = "call"] /\ delivered' = Append(delivered, seq + 1)
  /\ UNCHANGED <<step, handle, drainErr, procVars, callVars, endVars>>

\* The store's append and the caller's callback return, or fail.
DeliveryReturns(r) ==
  /\ reader[r] = "call"
  /\ reader' = [reader EXCEPT ![r] = "read"]
  /\ drainErr' \in {drainErr, TRUE}
  /\ UNCHANGED <<step, handle, seq, delivered, procVars, callVars, endVars>>

-----------------------------------------------------------------------------
(* launch_and_drain, from the select to the outcome.                        *)

\* child.wait: the process ended by itself.
Waited ==
  /\ step = "select" /\ proc # "running"
  /\ step' = "drain"
  /\ UNCHANGED <<taskVars, procVars, callVars, endVars>>

\* start_kill, then child.wait: a process that already exited keeps its status.
Kill ==
  /\ step = "select"
  /\ proc' = IF proc = "running" THEN "killed" ELSE proc
  /\ orphan' \in IF proc = "running" THEN BOOLEAN ELSE {orphan}
  /\ step' = "drain"
  /\ UNCHANGED <<taskVars, pipe, left, callVars, stuck, result, recorded>>

Deadline == Kill /\ deadlineHit' = TRUE /\ UNCHANGED cancelled
Cancel   == Kill /\ cancelled' = TRUE /\ UNCHANGED deadlineHit

\* drained: Shared::wait takes the handle of the first reader, then of the
\* other, and both finish within the grace.
WaitReader(r) ==
  /\ step = "drain" /\ handle[r] = "kept"
  /\ r # First => handle[First] = "taken" /\ reader[First] = "done"
  /\ handle' = [handle EXCEPT ![r] = "taken"]
  /\ UNCHANGED <<step, reader, seq, delivered, drainErr, procVars, callVars, endVars>>

Drained ==
  /\ step = "drain"
  /\ \A r \in Streams : handle[r] = "taken" /\ reader[r] = "done"
  /\ step' = "judge"
  /\ UNCHANGED <<taskVars, procVars, callVars, endVars>>

\* Mutant: the grace waits for a delivery to return.
GraceWaitsForDelivery ==
  /\ step = "drain"
  /\ handle[First] = "taken"
  /\ \E r \in Streams : handle[r] = "kept" \/ reader[r] # "done"
  /\ \A r \in Streams : ~Busy(r)
  /\ reader' = [r \in Streams |-> IF handle[r] = "kept" /\ reader[r] # "done"
                                  THEN "gone" ELSE reader[r]]
  /\ step' = "judge"
  /\ UNCHANGED <<handle, seq, delivered, drainErr, procVars, callVars,
                 cancelled, deadlineHit, stuck, result, recorded>>

\* The grace expires: are readers inside delivery?  abort then finds the
\* handles that no wait took; the second grace expires in its turn.
GraceExpires ==
  /\ step = "drain"
  /\ handle[First] = "taken"
  /\ \E r \in Streams : handle[r] = "kept" \/ reader[r] # "done"
  /\ stuck' = \E r \in Streams : Busy(r)
  /\ reader' = [r \in Streams |-> IF handle[r] = "kept" /\ reader[r] # "done"
                                  THEN "gone" ELSE reader[r]]
  /\ step' = "judge"
  /\ UNCHANGED <<handle, seq, delivered, drainErr, procVars, callVars,
                 cancelled, deadlineHit, result, recorded>>

\* Mutant: the caller's cancellation is asked first.
TerminalStateCancelFirst(clean, failed) ==
  IF cancelled THEN "cancelled"
  ELSE IF clean /\ ~failed THEN "succeeded"
  ELSE IF deadlineHit THEN "deadline_exceeded" ELSE "failed"

\* terminal_state.
TerminalState(clean, failed) ==
  IF clean /\ ~failed THEN "succeeded"
  ELSE IF cancelled THEN "cancelled"
  ELSE IF deadlineHit THEN "deadline_exceeded" ELSE "failed"

Judge ==
  /\ step = "judge"
  /\ result' = TerminalState(proc = "zero", drainErr \/ stuck)
  /\ step' = "terminate"
  /\ UNCHANGED <<taskVars, procVars, callVars, cancelled, deadlineHit, stuck, recorded>>

-----------------------------------------------------------------------------
(* The way out.                                                             *)

\* PodmanLauncher::terminate: the container, then proxy and network.
Removals ==
  UNION {IF proxied THEN {f} \cup StopEgress(f) ELSE {f} : f \in Removed(parts, "container")}

\* terminate: bounded, so it may stop anywhere; a failure or the timeout is
\* noted in the stderr tail.
Terminate ==
  /\ step = "terminate"
  /\ parts' \in Removals
  /\ cleanup' \in {"failed"} \cup IF \A p \in Parts : parts'[p] = "none" THEN {"ok"} ELSE {}
  /\ step' = "finish"
  /\ UNCHANGED <<taskVars, procVars, inFlight, rival, proxied, endVars>>

\* finish, then release: the outcome is recorded, or the error returned.
Finish ==
  /\ step = "finish"
  /\ recorded' \in {recorded, result}
  /\ inFlight' = FALSE
  /\ step' = "returned"
  /\ UNCHANGED <<taskVars, procVars, rival, proxied, parts, cleanup,
                 cancelled, deadlineHit, stuck, result>>

Readers(r) == Read(r) \/ ReadFails(r) \/ Deliver(r) \/ DeliveryReturns(r)
Ending == Waited \/ Drained \/ GraceExpires \/ Judge \/ Terminate \/ Finish

SupervisorNext ==
  \/ Begin \/ Rival \/ RivalReturns \/ Launch
  \/ \E r \in Streams : PrintLine(r) \/ Readers(r) \/ WaitReader(r)
  \/ \E code \in {"zero", "nonzero"} : Exit(code)
  \/ OrphanExits \/ Deadline \/ Cancel \/ Ending

SupervisorSpec == SupervisorInit /\ [][SupervisorNext]_supervisorVars

\* The daemon's timers fire, its tasks run, and the Podman commands of a launch,
\* which no deadline covers, return.  Nothing is assumed of the process, of a
\* grandchild or of the caller's callback.
TimersFair ==
  /\ WF_supervisorVars(Launch)
  /\ WF_supervisorVars(Deadline)
  /\ WF_supervisorVars(\E r \in Streams : WaitReader(r))
  /\ WF_supervisorVars(GraceExpires)
  /\ WF_supervisorVars(Waited \/ Drained \/ Judge \/ Terminate \/ Finish)

\* The process writes when it can and deliveries return; no deadline helps.
ReadersFair ==
  /\ \A r \in Streams : WF_supervisorVars(Read(r)) /\ SF_supervisorVars(Deliver(r)) /\ WF_supervisorVars(DeliveryReturns(r))
  /\ WF_supervisorVars(\E r \in Streams : PrintLine(r))
  /\ WF_supervisorVars(\E code \in {"zero", "nonzero"} : Exit(code))

-----------------------------------------------------------------------------
(* Properties.                                                              *)

\* Drainer: "a caller never sees two events at once and seq is monotonic": the
\* deliveries are numbered 1, 2, ... in order up to the first failure,
\* whichever pipe they came from.
DeliveredInOrder == \A i \in DOMAIN delivered : delivered[i] = i

\* terminal_state: a process that exited 0 and whose output was delivered has
\* done the work, whether or not a cancellation or the deadline raced it; and
\* nothing else is reported as a success.
SucceededIffWorkDone ==
  result # "none" =>
    /\ proc = "zero" /\ ~stuck /\ ~drainErr => result = "succeeded"
    /\ result = "succeeded" => proc = "zero" /\ ~stuck

\* run_claimed: "Everything after this point terminates, however it exits", and
\* claim: a container, proxy or network the run created is that of one call under
\* way, so no call that returned left one behind (unless removing it failed), and
\* no second call with the same run id, whose end would remove it, is admitted
\* meanwhile.  start_egress: "reusing one silently would let a run inherit
\* whatever allowlist the previous one was started with": a process that runs
\* proxied has the network and the proxy of its own launch.
RunOwnsItsParts ==
  /\ (\E p \in Parts : parts[p] = "own") /\ cleanup # "failed" =>
       step \notin {"new", "returned"} /\ rival # "admitted"
  /\ proc = "running" /\ proxied => parts["proxy"] = "own" /\ parts["network"] = "own"

\* "this bound is load-bearing": every call returns, even when the process never
\* ends, a grandchild holds the pipes or the caller's callback never returns.
EveryRunReturns == TimersFair => (step = "launch" ~> step = "returned")

\* "Keep READING after the first failure": a failing callback never leaves the
\* process blocked on a full pipe.
ProcessNeverBlocked == ReadersFair => (proc = "running" ~> proc # "running")
=============================================================================
