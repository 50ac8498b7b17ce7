----------------------------- MODULE AppRuntime -----------------------------
(***************************************************************************)
(* The process apps of one daemon: hive-apps, with the dispatch of         *)
(* hive-surfaces and hive-mcp before it and the podman launcher behind it, *)
(* over the installs of AppInstalls.                                       *)
(*                                                                         *)
(* A call finds the install's container in `running` or starts it: under   *)
(* the `starting` lock it mints the install credential, removes whatever   *)
(* has the container's name, runs the new one with the credential in its   *)
(* environment and waits for it to answer.  The idle sweeper and a call    *)
(* that overran stop it: out of `running`, `podman rm`, every live         *)
(* credential of the install revoked, three steps that take no lock.  A    *)
(* caller may hang up at any await, a container die at any time; the       *)
(* containers are detached and outlive the daemon.                         *)
(***************************************************************************)
EXTENDS AppInstalls

CONSTANTS
  Proc,          \* the process app
  Calls,         \* callers
  Tokens,        \* credentials there may be at once, 1..n
  MaxOverruns,   \* AppsConfig::max_overruns
  MaxRestarts    \* crashes of the daemon

VARIABLES
  creds,      \* install credentials not revoked
  running,    \* the entry in `running`: None, or its overruns and whether it is idle
  box,        \* the container of that name: None, or its token and whether an earlier
              \* daemon started it
  starting,   \* the `starting` lock: the call that holds it, then those that wait
  pc, tok,    \* a call's place, and the credential it minted
  sweep,      \* the sweeper: "idle", "rm" or "revoke"
  restarts

runVars == <<creds, running, box, starting, pc, tok, sweep, restarts>>
vars == <<instVars, runVars>>

Init ==
  /\ InstInit
  /\ creds = {} /\ running = None /\ box = None /\ starting = <<>>
  /\ pc = [c \in Calls |-> "idle"] /\ tok = [c \in Calls |-> None]
  /\ sweep = "idle" /\ restarts = 0

At(c, place)   == pc[c] = place
Go(c, place)   == pc' = [pc EXCEPT ![c] = place]
Unlock(c) ==
  LET k == CHOOSE i \in DOMAIN starting : starting[i] = c
  IN starting' = IF \A i \in DOMAIN starting : starting[i] # c THEN starting
                 ELSE SubSeq(starting, 1, k - 1) \o SubSeq(starting, k + 1, Len(starting))
Listed         == running # None
InUse          == creds \cup {tok[c] : c \in Calls} \cup (IF box = None THEN {} ELSE {box.tok})
Free           == Tokens \ InUse

\* A call ends, its lock and its memory of a credential with it.
Ends(c) ==
  /\ Go(c, "idle") /\ Unlock(c)
  /\ tok' = [tok EXCEPT ![c] = None]

-----------------------------------------------------------------------------
(* Dispatch *)

\* candidates: the installs a caller could be offered.
Candidate(app) == IsActive(app)

\* process_of: the process section of the install's manifest.
ProcessOf(app) == {manifest[inst[app].build][i] : i \in Decl(manifest[inst[app].build], "process")}

\* run_process: the call goes to the app runtime.
RunProcess(c) ==
  /\ ProcessOf(Proc) # {} /\ Go(c, "ensure")
  /\ UNCHANGED <<instVars, creds, running, box, starting, tok, sweep, restarts>>

\* call_tool and call_guest: what is not an active install is no such tool.
CallTool(c) ==
  /\ c \in budget.callers /\ At(c, "idle") /\ Candidate(Proc)
  /\ LET d == manifest[inst[Proc].build]
     IN \E s \in ToolSurface(d) : \E e \in CallTarget(d, <<App>> \o s.key) : e.impl = "guest"
  /\ RunProcess(c)

\* call_route, the same steps for an app's HTTP routes.
CallRoute(c) ==
  /\ c \in budget.callers /\ At(c, "idle") /\ Candidate(Proc)
  /\ \E req \in Requests : LET r == MatchRoute(manifest[inst[Proc].build], req)
                           IN r # None /\ r.entry.impl = "guest"
  /\ RunProcess(c)

-----------------------------------------------------------------------------
(* ensure_running *)

EnsureRunning(c) ==
  /\ At(c, "ensure")
  /\ IF Listed
     THEN Go(c, "connect") /\ UNCHANGED starting
     ELSE Go(c, "queued") /\ starting' = Append(starting, c)
  /\ UNCHANGED <<instVars, creds, running, box, tok, sweep, restarts>>

\* Mutant: the winner of the lock does not look again.
LockTakenBlind(c) ==
  /\ At(c, "queued") /\ starting # <<>> /\ Head(starting) = c
  /\ Go(c, "spec") /\ UNCHANGED starting
  /\ UNCHANGED <<instVars, creds, running, box, tok, sweep, restarts>>

\* The lock is had, and `running` looked at again under it.
LockTaken(c) ==
  /\ At(c, "queued") /\ starting # <<>> /\ Head(starting) = c
  /\ IF Listed
     THEN Go(c, "connect") /\ Unlock(c)
     ELSE Go(c, "spec") /\ UNCHANGED starting
  /\ UNCHANGED <<instVars, creds, running, box, tok, sweep, restarts>>

\* issue_install_credential answers an active install that has an actor.
MayIssue == IsActive(Proc) /\ inst[Proc].actor

\* image_for: the manifest names one.
ImageFor == \E p \in ProcessOf(Proc) : p.image

\* spec_for: no such active install, no image or no actor ends the call.
SpecFor(c) ==
  /\ At(c, "spec")
  /\ \/ Ends(c) /\ UNCHANGED creds
     \/ /\ MayIssue /\ ImageFor /\ Free # {}
        /\ LET t == CHOOSE u \in Free : \A v \in Free : u <= v
           IN creds' = creds \cup {t} /\ tok' = [tok EXCEPT ![c] = t]
        /\ Go(c, "start") /\ UNCHANGED starting
  /\ UNCHANGED <<instVars, running, box, sweep, restarts>>

\* podman_app_args: what is run carries its credential in its environment.
Container(t) == [tok |-> t, old |-> FALSE]

\* PodmanAppLauncher::start: the old container removed, the new one run; the
\* directory, the removal or the run may fail.
LauncherStart(c) ==
  /\ At(c, "start")
  /\ \/ /\ box' = Container(tok[c])
        /\ Go(c, "ready") /\ UNCHANGED <<starting, tok>>
     \/ box' \in {box, None} /\ Ends(c)
  /\ UNCHANGED <<instVars, creds, running, sweep, restarts>>

\* Mutant: a container that never answers is waited for.
WaitReadyForever(c) ==
  /\ At(c, "ready") /\ box # None
  /\ running' = [overruns |-> 0, idle |-> FALSE]
  /\ Go(c, "connect") /\ Unlock(c) /\ tok' = [tok EXCEPT ![c] = None]
  /\ UNCHANGED <<instVars, creds, box, sweep, restarts>>

\* wait_ready, and the entry in `running` once it answered.
WaitReady(c) ==
  /\ At(c, "ready")
  /\ \/ /\ box # None
        /\ running' = [overruns |-> 0, idle |-> FALSE]
        /\ Go(c, "connect") /\ Unlock(c) /\ tok' = [tok EXCEPT ![c] = None]
     \/ Go(c, "unready") /\ UNCHANGED <<running, starting, tok>>
  /\ UNCHANGED <<instVars, creds, box, sweep, restarts>>

\* It never answered: stopped, whether or not that works,
NotReadyStop(c) ==
  /\ At(c, "unready") /\ box' \in {box, None} /\ Go(c, "unrevoke")
  /\ UNCHANGED <<instVars, creds, running, starting, tok, sweep, restarts>>

\* and the install's credentials revoked, whether or not that works.
NotReadyRevoke(c) ==
  /\ At(c, "unrevoke") /\ creds' \in {creds, {}} /\ Ends(c)
  /\ UNCHANGED <<instVars, running, box, sweep, restarts>>

-----------------------------------------------------------------------------
(* invoke *)

\* Mutant: the entry is touched before the connection is made.
ConnectTouching(c) ==
  /\ At(c, "connect")
  /\ running' = IF Listed THEN [running EXCEPT !.idle = FALSE] ELSE running
  /\ \/ box # None /\ Go(c, "sent") /\ UNCHANGED <<starting, tok>>
     \/ Ends(c)
  /\ UNCHANGED <<instVars, creds, box, sweep, restarts>>

\* transport.connect: nothing there is an error, and leaves the entry alone.
Connect(c) ==
  /\ At(c, "connect")
  /\ \/ box # None /\ Go(c, "sent") /\ UNCHANGED <<starting, tok>>
     \/ Ends(c)
  /\ UNCHANGED <<instVars, creds, running, box, sweep, restarts>>

\* An answer, of whatever status, touches the entry if there is one.
Answered(c) ==
  /\ At(c, "sent") /\ box # None /\ Ends(c)
  /\ running' = IF Listed THEN [running EXCEPT !.idle = FALSE] ELSE running
  /\ UNCHANGED <<instVars, creds, box, sweep, restarts>>

\* The connection breaks.
SendFails(c) ==
  /\ At(c, "sent") /\ Ends(c)
  /\ UNCHANGED <<instVars, creds, running, box, sweep, restarts>>

TooMany(n) == n >= MaxOverruns

\* The deadline passes: overrun, and stop_with after too many.
Overrun(c) ==
  /\ At(c, "sent") /\ box # None
  /\ IF ~Listed
     THEN Ends(c) /\ UNCHANGED running
     ELSE LET n == running.overruns + 1
          IN IF TooMany(n)
             THEN running' = None /\ Go(c, "stopRm") /\ UNCHANGED <<starting, tok>>
             ELSE running' = [overruns |-> n, idle |-> FALSE] /\ Ends(c)
  /\ UNCHANGED <<instVars, creds, box, sweep, restarts>>

\* stop_with, after the entry is gone: a failed removal is the end of it.
StopRemoves(c) ==
  /\ At(c, "stopRm")
  /\ \/ box' = None /\ Go(c, "stopRevoke") /\ UNCHANGED <<starting, tok>>
     \/ UNCHANGED box /\ Ends(c)
  /\ UNCHANGED <<instVars, creds, running, sweep, restarts>>

StopRevokes(c) ==
  /\ At(c, "stopRevoke") /\ creds' \in {creds, {}} /\ Ends(c)
  /\ UNCHANGED <<instVars, running, box, sweep, restarts>>

\* The caller hangs up: the future is dropped, the podman it was waiting for
\* is not.
CallDropped(c) ==
  /\ ~At(c, "idle") /\ Ends(c)
  /\ box' \in {box}
        \cup (IF pc[c] \in {"start", "unready", "stopRm"} THEN {None} ELSE {})
        \cup (IF At(c, "start") THEN {Container(tok[c])} ELSE {})
  /\ UNCHANGED <<instVars, creds, running, sweep, restarts>>

-----------------------------------------------------------------------------
(* The sweeper *)

GoesIdle ==
  /\ Listed /\ ~running.idle
  /\ running' = [running EXCEPT !.idle = TRUE]
  /\ UNCHANGED <<instVars, creds, box, starting, pc, tok, sweep, restarts>>

\* sweep_idle: the idle entry is taken out,
SweepIdle ==
  /\ sweep = "idle" /\ Listed /\ running.idle
  /\ running' = None /\ sweep' = "rm"
  /\ UNCHANGED <<instVars, creds, box, starting, pc, tok, restarts>>

\* its container removed, or the sweep over with an error,
SweepRemoves ==
  /\ sweep = "rm"
  /\ \/ box' = None /\ sweep' = "revoke"
     \/ UNCHANGED box /\ sweep' = "idle"
  /\ UNCHANGED <<instVars, creds, running, starting, pc, tok, restarts>>

\* and the credentials revoked.
SweepRevokes ==
  /\ sweep = "revoke" /\ sweep' = "idle" /\ creds' \in {creds, {}}
  /\ UNCHANGED <<instVars, running, box, starting, pc, tok, restarts>>

-----------------------------------------------------------------------------
(* The container and the daemon *)

ContainerDies ==
  /\ box # None /\ box' = None
  /\ UNCHANGED <<instVars, creds, running, starting, pc, tok, sweep, restarts>>

\* revoke_stale_credentials, before anything is served.
RevokedAtBoot == {}

\* The daemon dies and the next one boots; the containers do not notice.
Restart ==
  /\ restarts < MaxRestarts /\ restarts' = restarts + 1
  /\ creds' = RevokedAtBoot
  /\ box' = IF box = None THEN None ELSE [box EXCEPT !.old = TRUE]
  /\ running' = None /\ starting' = <<>> /\ sweep' = "idle"
  /\ pc' = [c \in Calls |-> "idle"] /\ tok' = [c \in Calls |-> None]
  /\ act' = None
  /\ UNCHANGED <<build, inst, auth, uses, admin, draft, manifest, budget>>

CallSteps(c) ==
  \/ EnsureRunning(c) \/ LockTaken(c) \/ SpecFor(c) \/ LauncherStart(c) \/ WaitReady(c)
  \/ NotReadyStop(c) \/ NotReadyRevoke(c)
  \/ Connect(c) \/ Answered(c) \/ SendFails(c) \/ Overrun(c)
  \/ StopRemoves(c) \/ StopRevokes(c)

Sweeps == SweepIdle \/ SweepRemoves \/ SweepRevokes

Next ==
  \/ InstNext /\ UNCHANGED runVars
  \/ \E c \in Calls : CallTool(c) \/ CallRoute(c) \/ CallSteps(c) \/ CallDropped(c)
  \/ GoesIdle \/ Sweeps \/ ContainerDies \/ Restart

\* The runtime polls what is ready; every wait of a call has a deadline, the
\* lock is first come first served, the sweeper ticks and time passes.
Spec ==
  /\ Init /\ [][Next]_vars
  /\ \A c \in Calls : WF_vars(CallSteps(c))
  /\ WF_vars(GoesIdle) /\ WF_vars(Sweeps)

-----------------------------------------------------------------------------

\* Two first calls racing never start two containers: one that is in `running`
\* is stopped or dies, and is never replaced under the calls that reach it
\* (`ensure_running`, the second look under `starting`).
ListedIsNeverReplaced ==
  [][Listed /\ box # None /\ box' # None => box'.tok = box.tok]_vars

\* Whatever starts, hangs or fails, a call comes back: the one that holds
\* `starting` never keeps the others out for good.
EveryCallReturns == \A c \in Calls : pc[c] # "idle" ~> pc[c] = "idle"

\* A container that died does not stay in `running` for ever, where every call
\* would fail to connect: failing calls let it go idle, and the sweeper takes
\* it out (`touch` only after an answer, `sweep_idle`).
DeadIsUnlisted == (Listed /\ box = None) ~> (~Listed \/ box # None)

\* Does not hold (README, "Divergences").  "A container that never answered is
\* stopped and its credential revoked, so a broken image does not leave a live
\* token behind" (`ensure_running`): with nothing running, starting or stopping
\* no credential is live.
NoTokenLeftBehind ==
  box = None /\ running = None /\ sweep = "idle" /\ (\A c \in Calls : pc[c] = "idle")
    => creds = {}

\* "Starting mints the install credential, stopping revokes it": the container
\* in `running` holds a credential that works.
ListedHoldsLiveToken == Listed /\ box # None => box.tok \in creds
=============================================================================
