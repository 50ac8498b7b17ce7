-------------------------- MODULE Outside_proofs ----------------------------
(***************************************************************************)
(* Theorems about the parts that keep something outside the database in    *)
(* step with its rows.  Of AppRuntime, for any builds, manifests, callers  *)
(* and bounds: nothing goes live that was not approved at the moment it    *)
(* does, a container that is in `running` is never replaced, and a surface *)
(* does not depend on the order of the declarations.  Of Supervisor, for   *)
(* any pipes, capacities and numbers of lines: what it delivers, owns and  *)
(* reports.  Of BlobCatalog, for any addresses, owners, producers,         *)
(* relocators and number of crashes: that what is live or held has its     *)
(* bytes, and that trust is vouched for.                                   *)
(*                                                                         *)
(* A container in `running` is not replaced because a call that starts one *)
(* holds the lock and finds nothing listed (StartingInv).  An install that *)
(* is between the reads of an activation and its update has a row          *)
(* (InstInv).  Every manifest that is registered passed prepare            *)
(* (ManifestInv), and neither prepare nor derive tells two orders of such  *)
(* a manifest apart.                                                       *)
(***************************************************************************)
EXTENDS AppRuntime, Supervisor, BlobCatalog, TLAPS

\* A row of installs.
Rows == [state : {"active", "disabled", "uninstalling"}, build : Builds, actor : BOOLEAN]

\* An install's row stays once it is there, so an activation between its reads
\* and its update still has one.
InstInv ==
  /\ inst \in [Apps -> Rows \cup {None}]
  /\ DOMAIN build = Builds /\ DOMAIN manifest = Builds
  /\ act # None => act.app \in Apps /\ inst[act.app] \in Rows

Places == {"idle", "ensure", "queued", "spec", "start", "ready", "unready", "unrevoke",
           "connect", "sent", "stopRm", "stopRevoke"}

\* From its second look at `running` until its container answered or was given
\* up, a call holds the lock and nothing is listed.
HoldsLock(c) == pc[c] \in {"spec", "start", "ready", "unready", "unrevoke"}

StartingInv ==
  /\ pc \in [Calls -> Places]
  /\ starting \in Seq(Calls)
  /\ box # None => box = [tok |-> box.tok, old |-> box.old]
  /\ \A c \in Calls : HoldsLock(c) => starting # <<>> /\ Head(starting) = c /\ running = None

-----------------------------------------------------------------------------

\* A call that gives up the queue leaves whoever is at its head there
\* (`starting.lock()` is first come first served).
LEMMA UnlockKeepsHead ==
  ASSUME starting \in Seq(Calls), NEW c \in Calls, Unlock(c)
  PROVE  /\ starting' \in Seq(Calls)
         /\ starting # <<>> /\ Head(starting) # c => starting' # <<>> /\ Head(starting') = Head(starting)
<1>1. CASE \A i \in DOMAIN starting : starting[i] # c
  BY <1>1, Zenon DEF Unlock
<1>2. CASE \E i \in DOMAIN starting : starting[i] = c
  <2> DEFINE k == CHOOSE i \in DOMAIN starting : starting[i] = c
  <2>2. k \in 1..Len(starting) /\ starting[k] = c
    BY <1>2
  <2>3. starting' = SubSeq(starting, 1, k - 1) \o SubSeq(starting, k + 1, Len(starting))
    BY <1>2, ZenonT(30) DEF Unlock
  <2> HIDE DEF k
  <2>4. SubSeq(starting, 1, k - 1) \in Seq(Calls) /\ SubSeq(starting, k + 1, Len(starting)) \in Seq(Calls)
    BY <2>2
  <2>5. ASSUME starting # <<>>, Head(starting) # c
        PROVE  starting' # <<>> /\ Head(starting') = Head(starting)
    <3>1. k > 1
      BY <2>2, <2>5
    <3>2. /\ SubSeq(starting, 1, k - 1) # <<>>
          /\ Len(SubSeq(starting, 1, k - 1)) = k - 1
          /\ SubSeq(starting, 1, k - 1)[1] = starting[1]
      BY <3>1, <2>2
    <3> QED BY <3>1, <3>2, <2>3, <2>4, <2>5
  <2>6. starting' \in Seq(Calls)
    BY <2>3, <2>4
  <2> QED BY <2>5, <2>6, Zenon
<1> QED BY <1>1, <1>2, Zenon

LEMMA StartingInit == Init => StartingInv
BY DEF Init, StartingInv, HoldsLock, Places

\* What a step of call `c` leaves to show when it ends the call or keeps its
\* place in the queue.
LEMMA EndsKeeps ==
  ASSUME StartingInv, NEW c \in Calls, Ends(c), running = None => running' = None
  PROVE  /\ pc' \in [Calls -> Places] /\ starting' \in Seq(Calls)
         /\ \A d \in Calls : HoldsLock(d)' => starting' # <<>> /\ Head(starting') = d /\ running' = None
<1>1. pc' = [pc EXCEPT ![c] = "idle"] /\ Unlock(c)
  BY Zenon DEF Ends, Go
<1>2. starting \in Seq(Calls) /\ pc \in [Calls -> Places]
  BY Zenon DEF StartingInv
<1>3. /\ starting' \in Seq(Calls)
      /\ starting # <<>> /\ Head(starting) # c => starting' # <<>> /\ Head(starting') = Head(starting)
  BY <1>1, <1>2, UnlockKeepsHead, Zenon
<1>4. pc' \in [Calls -> Places]
  BY <1>1, <1>2, Zenon DEF Places
<1>5. ASSUME NEW d \in Calls, HoldsLock(d)'
      PROVE  starting' # <<>> /\ Head(starting') = d /\ running' = None
  <2>1. d # c /\ HoldsLock(d)
    BY <1>1, <1>2, <1>5, Zenon DEF HoldsLock
  <2> QED BY <2>1, <1>3, Zenon DEF StartingInv
<1> QED BY <1>3, <1>4, <1>5, Zenon

\* A call that keeps the lock or is outside it moves on: the queue is the same
\* and the others are where they were.
LEMMA GoKeeps ==
  ASSUME StartingInv, NEW c \in Calls, NEW place \in Places, Go(c, place),
         starting' = starting, running = None => running' = None,
         place \in {"start", "ready", "unready", "unrevoke"} => HoldsLock(c),
         place # "spec"
  PROVE  /\ pc' \in [Calls -> Places] /\ starting' \in Seq(Calls)
         /\ \A d \in Calls : HoldsLock(d)' => starting' # <<>> /\ Head(starting') = d /\ running' = None
BY Zenon DEF StartingInv, Go, HoldsLock, Places

\* Every step of a call keeps the lock's discipline (`ensure_running`, `invoke`,
\* `stop_with`).
LEMMA CallKeepsLock ==
  ASSUME StartingInv, NEW c \in Calls, CallTool(c) \/ CallRoute(c) \/ CallSteps(c) \/ CallDropped(c)
  PROVE  StartingInv'
<1> DEFINE Discipline == /\ pc' \in [Calls -> Places] /\ starting' \in Seq(Calls)
                         /\ \A d \in Calls : HoldsLock(d)' =>
                              starting' # <<>> /\ Head(starting') = d /\ running' = None
           BoxOK == box # None => box = [tok |-> box.tok, old |-> box.old]
<1>0. BoxOK
  BY Zenon DEF StartingInv
<1>1. (box' \in {box, None} \/ \E t : box' = Container(t)) => BoxOK'
  BY <1>0, Zenon DEF Container
<1>2. Discipline /\ BoxOK' => StartingInv'
  BY Zenon DEF StartingInv, HoldsLock
<1>3. CASE CallTool(c) \/ CallRoute(c)
  BY <1>1, <1>2, <1>3, GoKeeps, Zenon DEF CallTool, CallRoute, RunProcess, Places
<1>4. CASE EnsureRunning(c)
  <2>1. CASE Listed
    BY <1>1, <1>2, <1>4, <2>1, GoKeeps, Zenon DEF EnsureRunning, Places
  <2>2. CASE ~Listed
    <3>1. starting' = Append(starting, c) /\ pc' = [pc EXCEPT ![c] = "queued"] /\ running' = running
      BY <1>4, <2>2, Zenon DEF EnsureRunning, Go
    <3>2. starting \in Seq(Calls)
      BY Zenon DEF StartingInv
    <3>3. starting' \in Seq(Calls) /\ (starting # <<>> => starting' # <<>> /\ Head(starting') = Head(starting))
      BY <3>1, <3>2
    <3>4. Discipline
      BY <3>1, <3>3, Zenon DEF StartingInv, HoldsLock, Places
    <3> QED BY <1>1, <1>2, <1>4, <3>4, Zenon DEF EnsureRunning
  <2> QED BY <2>1, <2>2, Zenon
<1>5. CASE LockTaken(c)
  <2>1. CASE Listed
    <3>1. /\ pc' = [pc EXCEPT ![c] = "connect"] /\ Unlock(c) /\ UNCHANGED <<running, box>>
          /\ starting # <<>> /\ Head(starting) = c
      BY <1>5, <2>1, Zenon DEF LockTaken, Go
    <3>2. starting' \in Seq(Calls)
      BY <3>1, UnlockKeepsHead, Zenon DEF StartingInv
    <3>3. Discipline
      BY <3>1, <3>2, <2>1, Zenon DEF StartingInv, HoldsLock, Places, Listed
    <3> QED BY <1>1, <1>2, <3>1, <3>3, Zenon
  <2>2. CASE ~Listed
    <3>1. /\ pc' = [pc EXCEPT ![c] = "spec"] /\ UNCHANGED <<starting, running, box>>
          /\ starting # <<>> /\ Head(starting) = c
      BY <1>5, <2>2, Zenon DEF LockTaken, Go
    <3>2. Discipline
      BY <3>1, <2>2, Zenon DEF StartingInv, HoldsLock, Places, Listed
    <3> QED BY <1>1, <1>2, <3>1, <3>2, Zenon
  <2> QED BY <2>1, <2>2, Zenon
<1>6. CASE SpecFor(c)
  BY <1>1, <1>2, <1>6, GoKeeps, EndsKeeps, Zenon DEF SpecFor, HoldsLock, At, Places
<1>7. CASE LauncherStart(c)
  BY <1>1, <1>2, <1>7, GoKeeps, EndsKeeps, Zenon DEF LauncherStart, HoldsLock, At, Places
<1>8. CASE WaitReady(c)
  <2>1. CASE Go(c, "unready") /\ UNCHANGED <<running, starting, box>>
    BY <1>1, <1>2, <1>8, <2>1, GoKeeps, Zenon DEF WaitReady, HoldsLock, At, Places
  <2>2. CASE Go(c, "connect") /\ Unlock(c) /\ UNCHANGED box
    <3>1. HoldsLock(c) /\ pc' = [pc EXCEPT ![c] = "connect"]
      BY <1>8, <2>2, Zenon DEF WaitReady, HoldsLock, At, Go
    <3>2. starting' \in Seq(Calls)
      BY <2>2, UnlockKeepsHead, Zenon DEF StartingInv
    <3>3. Discipline
      BY <3>1, <3>2, Zenon DEF StartingInv, HoldsLock, Places
    <3> QED BY <1>1, <1>2, <2>2, <3>3, Zenon
  <2> QED BY <1>8, <2>1, <2>2, Zenon DEF WaitReady
<1>9. CASE NotReadyStop(c) \/ NotReadyRevoke(c)
  BY <1>1, <1>2, <1>9, GoKeeps, EndsKeeps DEF NotReadyStop, NotReadyRevoke, HoldsLock, At, Places
<1>10. CASE Connect(c) \/ SendFails(c)
  BY <1>1, <1>2, <1>10, GoKeeps, EndsKeeps, Zenon DEF Connect, SendFails, Places
<1>11. CASE StopRemoves(c) \/ StopRevokes(c) \/ CallDropped(c)
  BY <1>1, <1>2, <1>11, GoKeeps, EndsKeeps, Zenon DEF StopRemoves, StopRevokes, CallDropped, Places
<1>12. CASE Answered(c) \/ Overrun(c)
  <2>1. box' = box /\ (running = None => running' = None)
    BY <1>12, Zenon DEF Answered, Overrun, Listed
  <2>2. Ends(c) \/ (Go(c, "stopRm") /\ starting' = starting)
    BY <1>12, Zenon DEF Answered, Overrun
  <2>3. Discipline
    BY <2>1, <2>2, GoKeeps, EndsKeeps, Zenon DEF Places
  <2> QED BY <1>1, <1>2, <2>1, <2>3, Zenon
<1> QED
  BY <1>3, <1>4, <1>5, <1>6, <1>7, <1>8, <1>9, <1>10, <1>11, <1>12, Zenon DEF CallSteps

\* The sweeper only unlists, a restart only clears, and nothing else touches
\* the queue.
LEMMA StartingNext == StartingInv /\ [Next]_vars => StartingInv'
<1> SUFFICES ASSUME StartingInv, [Next]_vars PROVE StartingInv'
  BY Zenon
<1>1. CASE UNCHANGED runVars
  BY <1>1, Zenon DEF runVars, StartingInv, HoldsLock
<1>2. ASSUME NEW c \in Calls, CallTool(c) \/ CallRoute(c) \/ CallSteps(c) \/ CallDropped(c)
      PROVE  StartingInv'
  BY <1>2, CallKeepsLock, Zenon
<1>3. CASE GoesIdle \/ Sweeps \/ ContainerDies
  <2>1. /\ UNCHANGED <<starting, pc>>
        /\ box' \in {box, None}
        /\ running = None => running' = None
    BY <1>3, Zenon DEF GoesIdle, Sweeps, SweepIdle, SweepRemoves, SweepRevokes, ContainerDies, Listed
  <2> QED BY <2>1, Zenon DEF StartingInv, HoldsLock
<1>4. CASE Restart
  <2>1. /\ starting' = <<>> /\ pc' = [d \in Calls |-> "idle"]
        /\ box' = IF box = None THEN None ELSE [box EXCEPT !.old = TRUE]
    BY <1>4, Zenon DEF Restart
  <2>2. box' # None => box' = [tok |-> box'.tok, old |-> box'.old]
    <3>1. CASE box = None
      BY <2>1, <3>1, Zenon
    <3>2. CASE box # None
      <4>1. box = [tok |-> box.tok, old |-> box.old] /\ box' = [box EXCEPT !.old = TRUE]
        BY <2>1, <3>2, Zenon DEF StartingInv
      <4>2. box' = [tok |-> box.tok, old |-> TRUE]
        BY <4>1, ZenonT(30)
      <4> QED BY <4>2, Zenon
    <3> QED BY <3>1, <3>2, Zenon
  <2> QED BY <2>1, <2>2 DEF StartingInv, HoldsLock, Places
<1> QED BY <1>1, <1>2, <1>3, <1>4, Zenon DEF Next, vars

\* No two first calls start two containers: a container that is in `running` is
\* stopped or dies, and is never replaced under the calls that reach it, for any
\* number of callers, credentials and restarts.
THEOREM NeverReplaced == Spec => ListedIsNeverReplaced
<1>1. StartingInv /\ [Next]_vars => [Listed /\ box # None /\ box' # None => box'.tok = box.tok]_vars
  <2> SUFFICES ASSUME StartingInv, Next, Listed, box # None, box' # None
               PROVE  box'.tok = box.tok
    BY Zenon
  <2>1. ASSUME NEW c \in Calls, CallTool(c) \/ CallRoute(c) \/ CallSteps(c) \/ CallDropped(c)
        PROVE  box' \in {box, None}
    <3>1. pc[c] # "start"
      BY Zenon DEF StartingInv, HoldsLock, Listed
    <3>2. CASE CallTool(c) \/ CallRoute(c)
      BY <3>2, Zenon DEF CallTool, CallRoute, RunProcess
    <3>3. CASE CallSteps(c)
      BY <3>1, <3>3, Zenon DEF CallSteps, EnsureRunning, LockTaken, SpecFor, LauncherStart, WaitReady, NotReadyStop,
         NotReadyRevoke, Connect, Answered, SendFails, Overrun, StopRemoves, StopRevokes, At
    <3>4. CASE CallDropped(c)
      BY <3>1, <3>4, Zenon DEF CallDropped, At
    <3> QED BY <2>1, <3>2, <3>3, <3>4, Zenon
  <2>2. CASE Restart
    <3>1. box = [tok |-> box.tok, old |-> box.old] /\ box' = [box EXCEPT !.old = TRUE]
      BY <2>2, Zenon DEF StartingInv, Restart
    <3> QED BY <3>1, Zenon
  <2>3. CASE UNCHANGED runVars \/ GoesIdle \/ Sweeps \/ ContainerDies
    BY <2>3, Zenon DEF runVars, GoesIdle, Sweeps, SweepIdle, SweepRemoves, SweepRevokes, ContainerDies
  <2> QED BY <2>1, <2>2, <2>3, Zenon DEF Next
<1>2. Spec => []StartingInv
  BY StartingInit, StartingNext, PTL DEF Spec
<1> QED BY <1>1, <1>2, PTL DEF Spec, ListedIsNeverReplaced

-----------------------------------------------------------------------------

\* Calls read the install tables and write nothing there.
LEMMA CallLeavesInstalls ==
  ASSUME NEW c \in Calls, CallTool(c) \/ CallRoute(c) \/ CallSteps(c) \/ CallDropped(c)
  PROVE  UNCHANGED instVars
BY Zenon DEF CallTool, CallRoute, RunProcess, CallDropped, CallSteps, EnsureRunning, LockTaken, SpecFor,
   LauncherStart, WaitReady, NotReadyStop, NotReadyRevoke, Connect, Answered, SendFails, Overrun,
   StopRemoves, StopRevokes

LEMMA InstInvInit == Init => InstInv
<1> SUFFICES ASSUME Init PROVE InstInv
  BY Zenon
<1>1. Core \in Apps => (CHOOSE b \in Builds : SlugOf[b] = Core) \in Builds
  BY Zenon DEF Apps
<1> QED BY <1>1, ZenonT(30) DEF Init, InstInit, InstInv, Rows

\* Rows of installs are written whole or have their state changed, and no step
\* takes one away.
LEMMA InstInvNext == InstInv /\ [Next]_vars => InstInv'
<1> SUFFICES ASSUME InstInv, [Next]_vars PROVE InstInv'
  BY Zenon
<1> USE DEF Administers
<1>1. CASE UNCHANGED instVars
  BY <1>1, Zenon DEF instVars, InstInv
<1>2. ASSUME NEW x \in Declarations, Declare(x) PROVE InstInv'
  BY <1>2, Zenon DEF Declare, InstInv
<1>3. ASSUME NEW b \in Builds, RegisterBuild(b) PROVE InstInv'
  BY <1>3, Zenon DEF RegisterBuild, InstInv
<1>4. ASSUME NEW b \in Builds, InstallApp(b) PROVE InstInv'
  BY <1>4, Zenon DEF InstallApp, InstInv, Rows, Apps, HasActor
<1>5. ASSUME NEW b \in Builds, Withdraw(b) PROVE InstInv'
  BY <1>5, Zenon DEF Withdraw, InstInv
<1>6. ASSUME NEW b \in Builds, NEW a \in Actors, StageInstall(b, a) PROVE InstInv'
  BY <1>6, Zenon DEF StageInstall, InstInv, Rows, Apps
<1>7. ASSUME NEW app \in Apps, NEW h \in {Owner, Delegate}, GrantAuthority(app, h) \/ RevokeAuthority(app, h)
      PROVE  InstInv'
  BY <1>7, Zenon DEF GrantAuthority, RevokeAuthority, InstInv
<1>8. ASSUME NEW app \in Apps, NEW a \in Actors, ActivateReads(app, a) PROVE InstInv'
  BY <1>8, Zenon DEF ActivateReads, InstInv
<1>9. CASE ActivateWrites
  BY <1>9 DEF ActivateWrites, InstInv, Rows
<1>10. ASSUME NEW app \in Apps, NEW s \in {"disabled", "uninstalling"}, LeaveLive(app, s) PROVE InstInv'
  BY <1>10, Zenon DEF LeaveLive, InstInv, Rows
<1>11. CASE Restart
  BY <1>11, Zenon DEF Restart, InstInv
<1>12. ASSUME NEW c \in Calls, CallTool(c) \/ CallRoute(c) \/ CallSteps(c) \/ CallDropped(c)
       PROVE  InstInv'
  BY <1>1, <1>12, CallLeavesInstalls, Zenon
<1>13. CASE GoesIdle \/ Sweeps \/ ContainerDies
  BY <1>1, <1>13, Zenon DEF GoesIdle, Sweeps, SweepIdle, SweepRemoves, SweepRevokes, ContainerDies
<1> QED
  BY <1>1, <1>2, <1>3, <1>4, <1>5, <1>6, <1>7, <1>8, <1>9, <1>10, <1>11, <1>12, <1>13, Zenon DEF Next, InstNext, vars

\* Whatever falls between an activation's reads and its update, an install goes
\* live only on a build nobody withdrew, out of no teardown, with everything it
\* uses granted to it and, by the delegated route, on an authority that is still
\* live (`activate_install`, `activate`).
THEOREM ApprovedOnly == Spec => OnlyApprovedGoesLive
<1> DEFINE Approved(app) ==
      /\ build'[inst'[app].build] = "registered"
      /\ inst[app] # None => inst[app].state # "uninstalling"
      /\ \A u \in UsesIn(manifest'[inst'[app].build]) : <<u, app>> \in uses'
      /\ act # None /\ act' = None /\ act.route = "standing" => auth[app][act.holder] = "live"
<1>1. InstInv /\ [Next]_vars =>
        [\A app \in Apps : ~IsActive(app) /\ IsActive(app)' => Approved(app)]_instVars
  <2> SUFFICES ASSUME InstInv, Next, NEW app \in Apps, ~IsActive(app), IsActive(app)'
               PROVE  Approved(app)
    BY Zenon DEF vars
  <2> USE DEF Administers
  <2>1. inst[app] # inst'[app]
    BY Zenon DEF IsActive
  <2>2. ASSUME NEW b \in Builds, InstallApp(b) PROVE Approved(app)
    <3>1. app = SlugOf[b]
      BY <2>1, <2>2, Zenon DEF InstallApp, InstInv
    <3>2. /\ inst'[app].build = b /\ inst[app] = None /\ act' = act
          /\ build' = [build EXCEPT ![b] = "registered"]
          /\ manifest' = [manifest EXCEPT ![b] = Written(b)]
          /\ uses' = uses \cup {<<u, app>> : u \in UsesIn(Written(b))}
      BY <2>2, <3>1, Zenon DEF InstallApp, InstInv
    <3>3. build'[b] = "registered" /\ manifest'[b] = Written(b)
      BY <3>2, Zenon DEF InstInv
    <3> QED BY <3>2, <3>3, Zenon
  <2>3. CASE ActivateWrites
    <3>1. /\ MayFlip /\ act # None /\ app = act.app
          /\ inst' = [inst EXCEPT ![act.app].state = "active"]
          /\ uses' = uses \cup {<<u, act.app>> : u \in UsesOf(inst[act.app].build)}
          /\ UNCHANGED <<build, manifest, auth>>
      BY <2>1, <2>3, Zenon DEF ActivateWrites, InstInv
    <3>2. inst'[app].build = inst[app].build
      BY <3>1, Zenon DEF InstInv, Rows
    <3>3. build[inst[app].build] = "registered" /\ inst[app].state # "uninstalling"
      BY <3>1, Zenon DEF MayFlip, Promotable
    <3>4. act.route = "standing" => auth[app][act.holder] = "live"
      BY <3>1, Zenon DEF MayFlip
    <3>5. \A u \in UsesIn(manifest[inst[app].build]) : <<u, app>> \in uses'
      BY <3>1, Zenon DEF UsesOf
    <3> QED BY <3>1, <3>2, <3>3, <3>4, <3>5, Zenon
  <2>4. ASSUME NEW b \in Builds, NEW a \in Actors, StageInstall(b, a) PROVE FALSE
    BY <2>1, <2>4, Zenon DEF StageInstall, InstInv, IsActive
  <2>5. ASSUME NEW x \in Apps, NEW s \in {"disabled", "uninstalling"}, LeaveLive(x, s) PROVE FALSE
    BY <2>1, <2>5, Zenon DEF LeaveLive, InstInv, IsActive, Rows
  <2>6. (\/ \E x \in Declarations : Declare(x)
         \/ \E b \in Builds : RegisterBuild(b) \/ Withdraw(b)
         \/ \E x \in Apps, h \in {Owner, Delegate} : GrantAuthority(x, h) \/ RevokeAuthority(x, h)
         \/ \E x \in Apps, a \in Actors : ActivateReads(x, a)
         \/ Restart) => inst' = inst
    BY Zenon DEF Declare, RegisterBuild, Withdraw, GrantAuthority, RevokeAuthority, ActivateReads, Restart
  <2>7. ASSUME NEW c \in Calls, CallTool(c) \/ CallRoute(c) \/ CallSteps(c) \/ CallDropped(c)
        PROVE  inst' = inst
    BY <2>7, CallLeavesInstalls, Zenon DEF instVars
  <2>8. GoesIdle \/ Sweeps \/ ContainerDies => inst' = inst
    BY Zenon DEF GoesIdle, Sweeps, SweepIdle, SweepRemoves, SweepRevokes, ContainerDies, instVars
  <2> QED BY <2>1, <2>2, <2>3, <2>4, <2>5, <2>6, <2>7, <2>8, Zenon DEF Next, InstNext
<1>2. Spec => []InstInv
  BY InstInvInit, InstInvNext, PTL DEF Spec
<1> QED BY <1>1, <1>2, PTL DEF Spec, OnlyApprovedGoesLive

-----------------------------------------------------------------------------
(* Two manifests that differ in the order of their declarations            *)

\* The declaration at j of one manifest is the one at k of another.
Same(d, j, e, k) == d[j] = e[k]
Back(p, j)       == p[p[j]] = j

\* e has the declarations of d at the places p moves them to, and p moves back.
Reordered(d, e, p) ==
  /\ DOMAIN d = DOMAIN e
  /\ \A j \in DOMAIN d : p[j] \in DOMAIN d /\ Back(p, j)
  /\ \A j \in DOMAIN d : Same(d, j, e, p[j])

\* Two neighbours may be told apart, so a swap of them is a reordering.
LEMMA SwapReorders ==
  ASSUME NEW S, NEW d \in Seq(S), NEW i \in 1..(Len(d) - 1)
  PROVE  \E p : Reordered(d, Swap(d, i), p) /\ Reordered(Swap(d, i), d, p)
<1> DEFINE e == Swap(d, i)
           p == [j \in DOMAIN d |-> IF j = i THEN i + 1 ELSE IF j = i + 1 THEN i ELSE j]
<1>1. DOMAIN d = 1..Len(d) /\ Len(d) \in Nat /\ i \in 1..Len(d) /\ i + 1 \in 1..Len(d) /\ i # i + 1
  OBVIOUS
<1>2. DOMAIN e = DOMAIN d /\ e[i] = d[i + 1] /\ e[i + 1] = d[i] /\ \A j \in DOMAIN d : j # i /\ j # i + 1 => e[j] = d[j]
  BY <1>1, Zenon DEF Swap
<1>3. p[i] = i + 1 /\ p[i + 1] = i /\ \A j \in DOMAIN d : j # i /\ j # i + 1 => p[j] = j
  BY <1>1, Zenon
<1> HIDE DEF e, p
<1>4. ASSUME NEW j \in DOMAIN d PROVE p[j] \in DOMAIN d /\ Back(p, j) /\ Same(d, j, e, p[j]) /\ Same(e, j, d, p[j])
  <2>1. CASE j = i
    BY <1>1, <1>2, <1>3, <2>1, Zenon DEF Same, Back
  <2>2. CASE j = i + 1
    BY <1>1, <1>2, <1>3, <2>2, Zenon DEF Same, Back
  <2>3. CASE j # i /\ j # i + 1
    BY <1>2, <1>3, <2>3, Zenon DEF Same, Back
  <2> QED BY <2>1, <2>2, <2>3, Zenon
<1>5. Reordered(d, e, p) /\ Reordered(e, d, p)
  BY <1>2, <1>4, Zenon DEF Reordered
<1> QED BY <1>5, Zenon DEF e

LEMMA ReorderedDecl ==
  ASSUME NEW d, NEW e, NEW p, Reordered(d, e, p), NEW what, NEW j \in Decl(d, what)
  PROVE  p[j] \in Decl(e, what) /\ Same(d, j, e, p[j]) /\ Back(p, j)
<1>1. p[j] \in DOMAIN e /\ Same(d, j, e, p[j]) /\ Back(p, j) /\ d[j].what = what
  BY Zenon DEF Reordered, Decl
<1> QED BY <1>1, Zenon DEF Decl, Same

LEMMA ReorderedOnce ==
  ASSUME NEW d, NEW e, NEW p, Reordered(d, e, p), NEW what, Once(e, what)
  PROVE  Once(d, what)
<1> SUFFICES ASSUME NEW j \in Decl(d, what), NEW k \in Decl(d, what), Key(d[j]) = Key(d[k]) PROVE j = k
  BY Zenon DEF Once
<1>1. /\ p[j] \in Decl(e, what) /\ Same(d, j, e, p[j]) /\ Back(p, j)
      /\ p[k] \in Decl(e, what) /\ Same(d, k, e, p[k]) /\ Back(p, k)
  BY ReorderedDecl, Zenon
<1>2. p[j] = p[k]
  BY <1>1, Zenon DEF Once, Same
<1> QED BY <1>1, <1>2, Zenon DEF Back

LEMMA ReorderedSets ==
  ASSUME NEW d, NEW e, NEW p, Reordered(d, e, p)
  PROVE  /\ FunctionsOf(d) \subseteq FunctionsOf(e) /\ (IsTool(d) => IsTool(e))
         /\ \A what : Decl(e, what) = {} => Decl(d, what) = {}
         /\ Generated(d) \subseteq Generated(e) /\ GeneratedTools(d) \subseteq GeneratedTools(e)
         /\ GeneratedRoutes(d) \subseteq GeneratedRoutes(e)
<1>1. \A what : \A j \in Decl(d, what) : p[j] \in Decl(e, what) /\ Same(d, j, e, p[j])
  BY ReorderedDecl, Zenon
<1>2. \A j \in Crud(d) : p[j] \in Crud(e) /\ d[j].name = e[p[j]].name
  BY <1>1, Zenon DEF Crud, Same
<1>3. FunctionsOf(d) \subseteq FunctionsOf(e)
  BY <1>1 DEF FunctionsOf, Same
<1>4. \A what : Decl(e, what) = {} => Decl(d, what) = {}
  BY <1>1, Zenon
<1>5. Generated(d) \subseteq Generated(e)
  BY <1>2 DEF Generated
<1>6. GeneratedTools(d) \subseteq GeneratedTools(e)
  BY <1>2 DEF GeneratedTools
<1>7. GeneratedRoutes(d) \subseteq GeneratedRoutes(e)
  BY <1>2 DEF GeneratedRoutes
<1> QED BY <1>3, <1>4, <1>5, <1>6, <1>7, Zenon DEF IsTool

\* What prepare says does not depend on the order.
LEMMA ReorderedPrepares ==
  ASSUME NEW d, NEW e, NEW p, Reordered(d, e, p), Reordered(e, d, p), Prepare(e)
  PROVE  Prepare(d)
<1>1. /\ FunctionsOf(d) = FunctionsOf(e) /\ (IsTool(d) <=> IsTool(e)) /\ Generated(d) = Generated(e)
      /\ \A what : Decl(e, what) = {} => Decl(d, what) = {}
  <2>1. /\ FunctionsOf(d) \subseteq FunctionsOf(e) /\ (IsTool(d) => IsTool(e)) /\ Generated(d) \subseteq Generated(e)
        /\ \A what : Decl(e, what) = {} => Decl(d, what) = {}
    BY ReorderedSets, Zenon
  <2>2. FunctionsOf(e) \subseteq FunctionsOf(d) /\ (IsTool(e) => IsTool(d)) /\ Generated(e) \subseteq Generated(d)
    BY ReorderedSets, Zenon
  <2> QED BY <2>1, <2>2, Zenon
<1>2. Validate(e) /\ (FunctionsOf(e) # {} => CheckExports(e))
  BY Zenon DEF Prepare
<1>3. \A what : Once(e, what) => Once(d, what)
  BY ReorderedOnce, Zenon
<1>4. \A what : \A j \in Decl(d, what) : p[j] \in Decl(e, what) /\ Same(d, j, e, p[j])
  BY ReorderedDecl, Zenon
<1>5. TierOK(d)
  <2>1. ASSUME NEW i \in DOMAIN e, Decl(e, "function") = {i}
        PROVE  \E j \in DOMAIN d : Decl(d, "function") = {j}
    <3>1. i \in Decl(e, "function")
      BY <2>1, Zenon
    <3>2. p[i] \in Decl(d, "function") /\ Back(p, i)
      BY <3>1, ReorderedDecl, Zenon
    <3>3. ASSUME NEW j \in Decl(d, "function") PROVE j = p[i]
      <4>1. p[j] \in Decl(e, "function") /\ Back(p, j)
        BY <3>3, ReorderedDecl, Zenon
      <4>2. p[j] = i
        BY <2>1, <4>1, Zenon
      <4> QED BY <4>1, <4>2, Zenon DEF Back
    <3>4. Decl(d, "function") = {p[i]} /\ p[i] \in DOMAIN d
      BY <3>2, <3>3, Zenon DEF Decl
    <3> QED BY <3>4, Zenon
  <2>2. TierOK(e)
    BY <1>2, Zenon DEF Validate
  <2> QED BY <1>1, <2>1, <2>2, Zenon DEF TierOK
<1>6. FunctionsOK(d) /\ CollectionsOK(d)
  BY <1>2, <1>3, Zenon DEF Validate, FunctionsOK, CollectionsOK
<1>7. UsesOK(d)
  BY <1>2, <1>3, <1>4, Zenon DEF Validate, UsesOK, Same
<1>8. ToolsOK(d)
  <2>1. ASSUME NEW i \in Decl(d, "tool")
        PROVE  /\ d[i].name \in Generated(d) => d[i].function # None \/ d[i].hidden
               /\ Known(d, d[i].function)
    <3>1. p[i] \in Decl(e, "tool") /\ Same(d, i, e, p[i])
      BY <1>4, <2>1, Zenon
    <3>2. /\ e[p[i]].name \in Generated(e) => e[p[i]].function # None \/ e[p[i]].hidden
          /\ Known(e, e[p[i]].function)
      BY <1>2, <3>1, Zenon DEF Validate, ToolsOK
    <3> QED BY <1>1, <3>1, <3>2, Zenon DEF Known, Same
  <2>2. Once(d, "tool")
    BY <1>2, <1>3, Zenon DEF Validate, ToolsOK
  <2> QED BY <2>1, <2>2, Zenon DEF ToolsOK
<1>9. RoutesOK(d)
  <2>1. ASSUME NEW i \in Decl(d, "route") PROVE PatternOK(d[i].path) /\ Known(d, d[i].function)
    <3>1. p[i] \in Decl(e, "route") /\ Same(d, i, e, p[i])
      BY <1>4, <2>1, Zenon
    <3>2. PatternOK(e[p[i]].path) /\ Known(e, e[p[i]].function)
      BY <1>2, <3>1, Zenon DEF Validate, RoutesOK
    <3> QED BY <1>1, <3>1, <3>2, Zenon DEF Known, Same
  <2>2. Once(d, "route")
    BY <1>2, <1>3, Zenon DEF Validate, RoutesOK
  <2> QED BY <2>1, <2>2, Zenon DEF RoutesOK
<1> QED BY <1>1, <1>2, <1>5, <1>6, <1>7, <1>8, <1>9, Zenon DEF Prepare, Validate, CheckExports

\* Where no key is declared twice, every declaration stands.
LEMMA AllStand ==
  ASSUME NEW d, NEW S, d \in Seq(S), NEW what, Once(d, what)
  PROVE  Standing(d, what) = Decl(d, what)
<1>1. \A i \in Decl(d, what) : i <= i
  BY DEF Decl
<1> QED BY <1>1, Zenon DEF Standing, Once

LEMMA ReorderedOverlay ==
  ASSUME NEW d, NEW e, NEW p, Reordered(d, e, p), Reordered(e, d, p), NEW S, d \in Seq(S), e \in Seq(S),
         NEW what, Once(d, what), Once(e, what), NEW generated, NEW s \in Overlay(generated, d, what)
  PROVE  s \in Overlay(generated, e, what)
<1>1. Standing(d, what) = Decl(d, what) /\ Standing(e, what) = Decl(e, what)
  BY AllStand, Zenon
<1>2. CASE s \in generated /\ \A i \in Decl(d, what) : Key(d[i]) # s.key
  <2>1. ASSUME NEW i \in Decl(e, what) PROVE Key(e[i]) # s.key
    <3>1. p[i] \in Decl(d, what) /\ Same(e, i, d, p[i])
      BY <2>1, ReorderedDecl, Zenon
    <3> QED BY <1>2, <3>1, Zenon DEF Same
  <2> QED BY <1>2, <2>1, Zenon DEF Overlay
<1>3. ASSUME NEW i \in Standing(d, what), ~d[i].hidden, s = Slot(Key(d[i]), GuestEntry(d[i].function))
      PROVE  s \in Overlay(generated, e, what)
  <2>1. p[i] \in Standing(e, what) /\ Same(d, i, e, p[i])
    BY <1>1, <1>3, ReorderedDecl, Zenon
  <2>2. ~e[p[i]].hidden /\ s = Slot(Key(e[p[i]]), GuestEntry(e[p[i]].function))
    BY <1>3, <2>1, Zenon DEF Same
  <2> QED BY <2>1, <2>2, Zenon DEF Overlay
<1> QED BY <1>2, <1>3, Zenon DEF Overlay

\* Nor do the surfaces that derive computes, in a manifest that prepare lets through.
LEMMA ReorderedSurface ==
  ASSUME NEW d, NEW e, NEW p, Reordered(d, e, p), Reordered(e, d, p), NEW S, d \in Seq(S), e \in Seq(S),
         Prepare(d), Prepare(e)
  PROVE  ToolSurface(d) = ToolSurface(e) /\ RouteSurface(d) = RouteSurface(e)
<1>1. /\ Once(d, "tool") /\ Once(d, "route") /\ Once(e, "tool") /\ Once(e, "route")
  BY Zenon DEF Prepare, Validate, ToolsOK, RoutesOK
<1>2. /\ (IsTool(d) <=> IsTool(e)) /\ GeneratedTools(d) = GeneratedTools(e) /\ GeneratedRoutes(d) = GeneratedRoutes(e)
  <2>1. /\ IsTool(d) => IsTool(e)
        /\ GeneratedTools(d) \subseteq GeneratedTools(e) /\ GeneratedRoutes(d) \subseteq GeneratedRoutes(e)
    BY ReorderedSets, Zenon
  <2>2. /\ IsTool(e) => IsTool(d)
        /\ GeneratedTools(e) \subseteq GeneratedTools(d) /\ GeneratedRoutes(e) \subseteq GeneratedRoutes(d)
    BY ReorderedSets, Zenon
  <2> QED BY <2>1, <2>2, Zenon
<1>3. \A g : Overlay(g, d, "tool") = Overlay(g, e, "tool") /\ Overlay(g, d, "route") = Overlay(g, e, "route")
  <2>1. \A g : \A s \in Overlay(g, d, "tool") : s \in Overlay(g, e, "tool")
    BY <1>1, ReorderedOverlay, Zenon
  <2>2. \A g : \A s \in Overlay(g, e, "tool") : s \in Overlay(g, d, "tool")
    BY <1>1, ReorderedOverlay, Zenon
  <2>3. \A g : \A s \in Overlay(g, d, "route") : s \in Overlay(g, e, "route")
    BY <1>1, ReorderedOverlay, Zenon
  <2>4. \A g : \A s \in Overlay(g, e, "route") : s \in Overlay(g, d, "route")
    BY <1>1, ReorderedOverlay, Zenon
  <2>5. ASSUME NEW g PROVE Overlay(g, d, "tool") = Overlay(g, e, "tool")
    <3>1. \A s : s \in Overlay(g, d, "tool") <=> s \in Overlay(g, e, "tool")
      BY <2>1, <2>2, Zenon
    <3> QED BY <3>1, Zenon
  <2>6. ASSUME NEW g PROVE Overlay(g, d, "route") = Overlay(g, e, "route")
    <3>1. \A s : s \in Overlay(g, d, "route") <=> s \in Overlay(g, e, "route")
      BY <2>3, <2>4, Zenon
    <3> QED BY <3>1, Zenon
  <2> QED BY <2>5, <2>6, Zenon
<1>4. (IF IsTool(d) THEN {} ELSE GeneratedTools(d)) = (IF IsTool(e) THEN {} ELSE GeneratedTools(e))
  BY <1>2, Zenon
<1>5. (IF IsTool(d) THEN {} ELSE GeneratedRoutes(d)) = (IF IsTool(e) THEN {} ELSE GeneratedRoutes(e))
  BY <1>2, Zenon
<1> QED BY <1>3, <1>4, <1>5, Zenon DEF ToolSurface, RouteSurface

\* Every manifest that is registered passed prepare.
ManifestInv ==
  /\ DOMAIN manifest = Builds /\ budget \in Budgets /\ draft \in Seq(Entries)
  /\ \A b \in Builds : manifest[b] # None => manifest[b] \in Seq(Entries) /\ Prepare(manifest[b])

LEMMA ManifestInvInit == Init => ManifestInv
<1> SUFFICES ASSUME Init PROVE ManifestInv
  BY Zenon
<1>1. InstInit
  BY Zenon DEF Init
<1>2. draft = <<>> /\ budget \in Budgets /\ manifest = [b \in Builds |-> IF SlugOf[b] = Core THEN budget.start[b] ELSE None]
  BY <1>1, Zenon DEF InstInit
<1>3. draft \in Seq(Entries)
  <2>1. <<>> \in Seq(Entries)
    OBVIOUS
  <2> QED BY <1>2, <2>1, Zenon
<1>4. ASSUME NEW b \in Builds, manifest[b] # None PROVE manifest[b] \in Seq(Entries) /\ Prepare(manifest[b])
  <2>1. SlugOf[b] = Core /\ manifest[b] = budget.start[b]
    BY <1>2, <1>4, Zenon
  <2>2. CorePrepared(budget.start[b])
    BY <1>1, <2>1, Zenon DEF InstInit
  <2> QED BY <1>2, <2>1, <2>2, StartsAreManifests, Zenon DEF CorePrepared, Prepare
<1> QED BY <1>2, <1>3, <1>4, Zenon DEF ManifestInv

LEMMA ManifestInvNext == ManifestInv /\ [Next]_vars => ManifestInv'
<1> SUFFICES ASSUME ManifestInv, [Next]_vars PROVE ManifestInv'
  BY Zenon
<1>1. CASE UNCHANGED <<manifest, budget, draft>>
  BY <1>1, Zenon DEF ManifestInv
<1>2. ASSUME NEW x \in Declarations, Declare(x) PROVE ManifestInv'
  <2>0. x \in Entries
    BY <1>2 DEF Entries
  <2>1. draft' = Append(draft, x) /\ UNCHANGED <<manifest, budget>> /\ draft \in Seq(Entries) /\ x \in Entries
    BY <1>2, <2>0, Zenon DEF Declare, ManifestInv
  <2>2. draft' \in Seq(Entries)
    BY <2>1
  <2> QED BY <2>1, <2>2, Zenon DEF ManifestInv
<1>3. ASSUME NEW b \in Builds, RegisterBuild(b) \/ InstallApp(b) PROVE ManifestInv'
  <2>1. Prepare(Written(b)) /\ manifest' = [manifest EXCEPT ![b] = Written(b)] /\ UNCHANGED <<draft, budget>>
    BY <1>3, Zenon DEF RegisterBuild, InstallApp, Administers
  <2>2. Written(b) \in Seq(Entries)
    <3>1. budget.start[b] \in Seq(Entries) /\ draft \in Seq(Entries)
      BY StartsAreManifests, Zenon DEF ManifestInv
    <3> QED BY <3>1 DEF Written
  <2>3. DOMAIN manifest' = Builds /\ \A c \in Builds : manifest'[c] = manifest[c] \/ manifest'[c] = Written(b)
    BY <2>1, Zenon DEF ManifestInv
  <2>4. ASSUME NEW c \in Builds, manifest'[c] # None PROVE manifest'[c] \in Seq(Entries) /\ Prepare(manifest'[c])
    <3>1. CASE manifest'[c] = Written(b)
      BY <2>1, <2>2, <3>1, Zenon
    <3>2. CASE manifest'[c] = manifest[c]
      BY <2>4, <3>2, Zenon DEF ManifestInv
    <3> QED BY <2>3, <3>1, <3>2, Zenon
  <2> QED BY <2>1, <2>3, <2>4, Zenon DEF ManifestInv
<1>4. ASSUME InstNext PROVE ManifestInv'
  <2> USE DEF Administers
  <2>1. ASSUME NEW b \in Builds, Withdraw(b) PROVE ManifestInv'
    BY <1>1, <2>1, Zenon DEF Withdraw
  <2>2. ASSUME NEW b \in Builds, NEW a \in Actors, StageInstall(b, a) PROVE ManifestInv'
    BY <1>1, <2>2, Zenon DEF StageInstall
  <2>3. ASSUME NEW app \in Apps, NEW h \in {Owner, Delegate}, GrantAuthority(app, h) \/ RevokeAuthority(app, h)
        PROVE  ManifestInv'
    BY <1>1, <2>3, Zenon DEF GrantAuthority, RevokeAuthority
  <2>4. ASSUME NEW app \in Apps, NEW a \in Actors, ActivateReads(app, a) PROVE ManifestInv'
    BY <1>1, <2>4, Zenon DEF ActivateReads
  <2>5. CASE ActivateWrites
    BY <1>1, <2>5, Zenon DEF ActivateWrites
  <2>6. ASSUME NEW app \in Apps, NEW s \in {"disabled", "uninstalling"}, LeaveLive(app, s) PROVE ManifestInv'
    BY <1>1, <2>6, Zenon DEF LeaveLive
  <2> QED BY <1>2, <1>3, <1>4, <2>1, <2>2, <2>3, <2>4, <2>5, <2>6, Zenon DEF InstNext
<1>5. CASE Restart
  BY <1>1, <1>5, Zenon DEF Restart
<1>6. ASSUME NEW c \in Calls, CallTool(c) \/ CallRoute(c) \/ CallSteps(c) \/ CallDropped(c) PROVE ManifestInv'
  BY <1>1, <1>6, CallLeavesInstalls, Zenon DEF instVars
<1>7. CASE GoesIdle \/ Sweeps \/ ContainerDies
  BY <1>1, <1>7, Zenon DEF GoesIdle, Sweeps, SweepIdle, SweepRemoves, SweepRevokes, ContainerDies, instVars
<1>8. CASE UNCHANGED vars
  BY <1>1, <1>8, Zenon DEF vars, instVars
<1> QED BY <1>4, <1>5, <1>6, <1>7, <1>8, Zenon DEF Next

\* Whatever builds are registered, in whatever order their authors declared
\* things, swapping two neighbours, hence any reordering, gives a manifest that
\* validate also lets through and the very same tools and routes (`validate`,
\* `derive`).
THEOREM OrderIsFree == Spec => []SurfaceIsOrderFree
<1>1. ASSUME ManifestInv PROVE SurfaceIsOrderFree
  <2>1. ASSUME NEW d \in Registered, NEW i \in 1..(Len(d) - 1)
        PROVE  /\ Prepare(Swap(d, i)) /\ ToolSurface(Swap(d, i)) = ToolSurface(d)
               /\ RouteSurface(Swap(d, i)) = RouteSurface(d)
    <3>1. d \in Seq(Entries) /\ Prepare(d)
      BY <1>1, <2>1, Zenon DEF ManifestInv, Registered
    <3>2. PICK p : Reordered(d, Swap(d, i), p) /\ Reordered(Swap(d, i), d, p)
      BY <2>1, <3>1, SwapReorders, Zenon
    <3>3. Prepare(Swap(d, i))
      BY <3>1, <3>2, ReorderedPrepares, Zenon
    <3>4. Swap(d, i) \in Seq(Entries)
      <4>1. i \in 1..Len(d) /\ i + 1 \in 1..Len(d) /\ DOMAIN d = 1..Len(d) /\ Len(d) \in Nat
        BY <2>1, <3>1
      <4>2. d[i] \in Entries /\ d[i + 1] \in Entries
        BY <3>1, <4>1
      <4> QED BY <3>1, <4>1, <4>2 DEF Swap
    <3> QED BY <3>1, <3>2, <3>3, <3>4, ReorderedSurface, Zenon
  <2> QED BY <2>1, Zenon DEF SurfaceIsOrderFree
<1> QED BY <1>1, ManifestInvInit, ManifestInvNext, PTL DEF Spec

-----------------------------------------------------------------------------
(***************************************************************************)
(* The supervisor.                                                         *)
(*                                                                         *)
(* The numbers of the deliveries are in order because, up to the first     *)
(* failure, the counter is the number of deliveries (CountInv).  The       *)
(* container has one owner because the run id stays in in_flight from the  *)
(* claim to the release (OwnerInv).  The reported state is right for good  *)
(* because, once it is judged, the process is over and a failure of a      *)
(* reader left behind only adds to what was known (JudgeInv).              *)
(***************************************************************************)

Launching == {"launch", "network", "proxy", "wait", "spawn"}
Running == Launching \cup {"select", "drain", "judge", "terminate", "finish"}
Judged == {"terminate", "finish", "returned"}

RunTypes ==
  /\ step \in {"new", "returned"} \cup Running
  /\ {inFlight, drainErr, cancelled, deadlineHit, stuck} \subseteq BOOLEAN
  /\ seq \in Nat /\ delivered \in Seq(Nat)

CountInv ==
  /\ DeliveredInOrder
  /\ ~drainErr => Len(delivered) = seq

OwnerInv ==
  /\ parts \in [Parts -> {"none", "old", "own"}]
  /\ step \in Running => inFlight /\ rival # "admitted"
  /\ rival = "admitted" => inFlight
  /\ (\E p \in Parts : parts[p] = "own") =>
       /\ step \notin {"new", "launch"}
       /\ step \in {"finish", "returned"} => cleanup = "failed"
  /\ proxied /\ step \in {"proxy", "wait", "spawn", "select"} => parts["network"] = "own"
  /\ proxied /\ step \in {"wait", "spawn", "select"} => parts["proxy"] = "own"
  /\ proc = "running" => step = "select"

JudgeInv ==
  /\ SucceededIffWorkDone
  /\ step \in {"drain", "judge"} \cup Judged => proc # "running"
  /\ step \in {"new"} \cup Launching => proc = "none"
  /\ result # "none" <=> step \in Judged

-----------------------------------------------------------------------------

\* Nothing is delivered yet.
LEMMA CountInit == SupervisorInit => RunTypes /\ CountInv
<1> SUFFICES ASSUME SupervisorInit PROVE RunTypes /\ CountInv
  BY Zenon
<1>1. delivered \in Seq(Nat) /\ Len(delivered) = 0 /\ seq = 0
  BY DEF SupervisorInit
<1>2. \A i \in DOMAIN delivered : FALSE
  BY <1>1
<1>3. step = "new" /\ {inFlight, drainErr, cancelled, deadlineHit, stuck} \subseteq BOOLEAN
  BY ZenonT(30) DEF SupervisorInit
<1> QED
  BY <1>1, <1>2, <1>3, Zenon DEF RunTypes, CountInv, DeliveredInOrder, Running

\* One step of a reader.
LEMMA CountReaders ==
  ASSUME RunTypes, CountInv, NEW r \in Streams, Readers(r)
  PROVE  RunTypes' /\ CountInv'
<1> USE DEF RunTypes, CountInv, DeliveredInOrder, callVars, endVars
<1>1. CASE Read(r)
  BY <1>1, Zenon DEF Read
<1>2. CASE ReadFails(r)
  BY <1>2, Zenon DEF ReadFails
<1>3. CASE Deliver(r)
  <2>1. CASE drainErr
    BY <1>3, <2>1 DEF Deliver
  <2>2. CASE ~drainErr
    BY <1>3, <2>2, SMTT(30) DEF Deliver
  <2> QED
    BY <2>1, <2>2, Zenon
<1>4. CASE DeliveryReturns(r)
  BY <1>4, ZenonT(30) DEF DeliveryReturns
<1> QED
  BY <1>1, <1>2, <1>3, <1>4, Zenon DEF Readers

\* Only the readers touch the counter and the deliveries.
LEMMA CountStep == RunTypes /\ CountInv /\ [SupervisorNext]_supervisorVars => RunTypes' /\ CountInv'
<1> SUFFICES ASSUME RunTypes, CountInv, [SupervisorNext]_supervisorVars PROVE RunTypes' /\ CountInv'
  BY Zenon
<1>1. ASSUME UNCHANGED <<seq, delivered, drainErr>>,
             step' \in {"new", "returned"} \cup Running,
             {inFlight, cancelled, deadlineHit, stuck}' \subseteq BOOLEAN
      PROVE  RunTypes' /\ CountInv'
  BY <1>1, Zenon DEF RunTypes, CountInv, DeliveredInOrder
<1> USE DEF RunTypes, Running, Launching, taskVars, callVars, endVars
<1>2. CASE Begin \/ Rival \/ RivalReturns \/ Launch
  BY <1>1, <1>2, ZenonT(30) DEF Begin, Rival, RivalReturns, Launch, Command, CreateNetwork, RunProxy,
                   WaitForProxy, Spawn, LaunchFailed, launchVars
<1>3. ASSUME NEW r \in Streams, PrintLine(r) \/ WaitReader(r)
      PROVE  RunTypes' /\ CountInv'
  BY <1>1, <1>3, Zenon DEF PrintLine, WaitReader
<1>4. CASE (\E code \in {"zero", "nonzero"} : Exit(code)) \/ OrphanExits
  BY <1>1, <1>4, Zenon DEF Exit, OrphanExits
<1>5. CASE Deadline \/ Cancel
  BY <1>1, <1>5, ZenonT(30) DEF Deadline, Cancel, Kill
<1>6. CASE Ending
  BY <1>1, <1>6, ZenonT(30) DEF Ending, Waited, Drained, GraceExpires, Judge, Terminate, Finish
<1>7. CASE UNCHANGED supervisorVars
  BY <1>1, <1>7, Zenon DEF supervisorVars
<1> HIDE DEF RunTypes
<1> QED
  BY <1>2, <1>3, <1>4, <1>5, <1>6, <1>7, CountReaders, Zenon DEF SupervisorNext

\* The deliveries of two concurrent readers are numbered 1, 2, ... in order.
THEOREM InOrder == SupervisorSpec => []DeliveredInOrder
<1>1. CountInv => DeliveredInOrder
  BY Zenon DEF CountInv
<1> QED
  BY <1>1, CountInit, CountStep, PTL DEF SupervisorSpec

-----------------------------------------------------------------------------

\* stop_egress creates nothing.
LEMMA StopEgressRemoves ==
  ASSUME NEW f \in [Parts -> {"none", "old", "own"}], NEW g \in StopEgress(f)
  PROVE  /\ g \in [Parts -> {"none", "old", "own"}]
         /\ \A p \in Parts : g[p] = "own" => f[p] = "own"
BY DEF StopEgress, Removed, Parts

\* The run id is claimed before anything is created and released last.
LEMMA OwnerStep == RunTypes /\ OwnerInv /\ [SupervisorNext]_supervisorVars => OwnerInv'
<1> SUFFICES ASSUME RunTypes, OwnerInv, [SupervisorNext]_supervisorVars PROVE OwnerInv'
  BY Zenon
<1> USE DEF RunTypes, OwnerInv, Running, Launching, callVars, procVars
<1>1. CASE Begin
  BY <1>1, Zenon DEF Begin
<1>2. CASE Rival \/ RivalReturns
  <2>1. CASE Rival /\ inFlight
    BY <2>1, Zenon DEF Rival
  <2>2. CASE Rival /\ ~inFlight
    BY <2>2, Zenon DEF Rival
  <2>3. CASE RivalReturns
    BY <2>3, Zenon DEF RivalReturns
  <2> QED
    BY <1>2, <2>1, <2>2, <2>3, Zenon
<1>3. CASE Launch
  <2> USE DEF LaunchFailed, launchVars
  <2>1. CASE Command
    BY <2>1, StopEgressRemoves, Zenon DEF Command
  <2>2. CASE CreateNetwork
    BY <2>2, Zenon DEF CreateNetwork, Parts
  <2>3. CASE RunProxy
    BY <2>3, Zenon DEF RunProxy, Parts
  <2>4. CASE WaitForProxy
    BY <2>4, StopEgressRemoves, Zenon DEF WaitForProxy
  <2>5. CASE Spawn
    BY <2>5, Zenon DEF Spawn, Parts
  <2> QED
    BY <1>3, <2>1, <2>2, <2>3, <2>4, <2>5, Zenon DEF Launch
<1>4. ASSUME NEW r \in Streams, PrintLine(r) \/ Readers(r) \/ WaitReader(r)
      PROVE  OwnerInv'
  <2>1. UNCHANGED <<step, proc, inFlight, rival, proxied, parts, cleanup>>
    BY <1>4, ZenonT(30) DEF PrintLine, WaitReader, Readers, Read, ReadFails, Deliver, DeliveryReturns
  <2> QED
    BY <2>1, Zenon
<1>5. CASE (\E code \in {"zero", "nonzero"} : Exit(code)) \/ OrphanExits
  BY <1>5 DEF Exit, OrphanExits
<1>6. CASE Deadline \/ Cancel
  BY <1>6, Zenon DEF Deadline, Cancel, Kill
<1>7. CASE Waited \/ Drained \/ GraceExpires \/ Judge
  BY <1>7, ZenonT(30) DEF Waited, Drained, GraceExpires, Judge
<1>8. CASE Terminate \/ Finish
  <2>1. CASE Terminate
    <3>1. parts' \in [Parts -> {"none", "old", "own"}]
      <4>1. PICK f \in Removed(parts, "container") : parts' = f \/ parts' \in StopEgress(f)
        BY <2>1, Zenon DEF Terminate, Removals
      <4>2. f \in [Parts -> {"none", "old", "own"}]
        BY <4>1, Zenon DEF Removed
      <4> QED
        BY <4>1, <4>2, StopEgressRemoves, Zenon
    <3>2. cleanup' = "failed" \/ \A p \in Parts : parts'[p] = "none"
      BY <2>1, Zenon DEF Terminate
    <3> QED
      BY <2>1, <3>1, <3>2, Zenon DEF Terminate
  <2>2. CASE Finish
    BY <2>2, Zenon DEF Finish
  <2> QED
    BY <1>8, <2>1, <2>2, Zenon
<1>9. CASE UNCHANGED supervisorVars
  BY <1>9, Zenon DEF supervisorVars
<1> HIDE DEF RunTypes, OwnerInv
<1> QED
  BY <1>1, <1>2, <1>3, <1>4, <1>5, <1>6, <1>7, <1>8, <1>9, Zenon DEF SupervisorNext, Ending

\* A container that exists is that of one call under way, or its removal failed.
THEOREM OneOwner == SupervisorSpec => []RunOwnsItsParts
<1>1. SupervisorInit => OwnerInv
  BY Zenon DEF SupervisorInit, OwnerInv, Running, Launching, Parts
<1>2. RunTypes /\ OwnerInv => RunOwnsItsParts
  BY Zenon DEF RunTypes, OwnerInv, RunOwnsItsParts, Running, Launching, Parts
<1> QED
  BY <1>1, <1>2, OwnerStep, CountInit, CountStep, PTL DEF SupervisorSpec

-----------------------------------------------------------------------------

\* The outcome is judged once, when the process is over.
LEMMA JudgeStep == RunTypes /\ JudgeInv /\ [SupervisorNext]_supervisorVars => JudgeInv'
<1> SUFFICES ASSUME RunTypes, JudgeInv, [SupervisorNext]_supervisorVars PROVE JudgeInv'
  BY Zenon
<1> USE DEF RunTypes, JudgeInv, SucceededIffWorkDone, Judged, Launching, taskVars, procVars, endVars
<1>1. CASE Begin
  BY <1>1, Zenon DEF Begin
<1>2. CASE Rival \/ RivalReturns
  <2>1. UNCHANGED <<step, drainErr, proc, stuck, result>>
    BY <1>2, ZenonT(30) DEF Rival, RivalReturns
  <2> QED
    BY <2>1, Zenon
<1>3. CASE Launch
  BY <1>3, Zenon DEF Launch, Launching, Command, CreateNetwork, RunProxy, WaitForProxy, Spawn, LaunchFailed,
              launchVars
<1>4. ASSUME NEW r \in Streams, PrintLine(r) \/ WaitReader(r)
      PROVE  JudgeInv'
  BY <1>4, ZenonT(30) DEF PrintLine, WaitReader
<1>5. ASSUME NEW r \in Streams, Readers(r)
      PROVE  JudgeInv'
  <2>1. UNCHANGED <<step, proc, stuck, result>>
    BY <1>5, ZenonT(30) DEF Readers, Read, ReadFails, Deliver, DeliveryReturns
  <2>2. drainErr => drainErr'
    BY <1>5, ZenonT(30) DEF Readers, Read, ReadFails, Deliver, DeliveryReturns
  <2> QED
    BY <2>1, <2>2, Zenon
<1>6. CASE (\E code \in {"zero", "nonzero"} : Exit(code)) \/ OrphanExits
  <2>1. ASSUME NEW code \in {"zero", "nonzero"}, Exit(code)
        PROVE  JudgeInv'
    BY <2>1, Zenon DEF Exit
  <2>2. CASE OrphanExits
    <3>1. UNCHANGED <<step, drainErr, proc, stuck, result>>
      BY <2>2, ZenonT(30) DEF OrphanExits
    <3> QED
      BY <3>1, Zenon
  <2> QED
    BY <1>6, <2>1, <2>2, Zenon
<1>7. CASE Deadline \/ Cancel
  BY <1>7, Zenon DEF Deadline, Cancel, Kill
<1>8. CASE Waited \/ Drained \/ GraceExpires
  BY <1>8, ZenonT(30) DEF Waited, Drained, GraceExpires
<1>9. CASE Judge
  BY <1>9, Zenon DEF Judge, TerminalState
<1>10. CASE Terminate \/ Finish
  BY <1>10 DEF Terminate, Finish
<1>11. CASE UNCHANGED supervisorVars
  BY <1>11, Zenon DEF supervisorVars
<1> HIDE DEF RunTypes, JudgeInv
<1> QED
  BY <1>1, <1>2, <1>3, <1>4, <1>5, <1>6, <1>7, <1>8, <1>9, <1>10, <1>11, Zenon DEF SupervisorNext, Ending

\* Success is reported exactly when the process exited 0 and its output was
\* delivered, whatever deadline or cancellation raced it.
THEOREM SuccessIsEarned == SupervisorSpec => []SucceededIffWorkDone
<1>1. SupervisorInit => JudgeInv
  BY Zenon DEF SupervisorInit, JudgeInv, SucceededIffWorkDone, Judged, Launching
<1>2. JudgeInv => SucceededIffWorkDone
  BY Zenon DEF JudgeInv
<1> QED
  BY <1>1, <1>2, JudgeStep, CountInit, CountStep, PTL DEF SupervisorSpec

-----------------------------------------------------------------------------
(***************************************************************************)
(* The blob catalog.                                                       *)
(*                                                                         *)
(* Bytes: BytesInv says where the bytes are at each step on the way to a   *)
(* live row (sealed before it is published, copied before it is            *)
(* repointed) and that a deletion only follows when the row has left.      *)
(* References: with one writer, LockInv says what a transaction that has   *)
(* the write lock has read and nobody has changed since.  Trust: VouchInv  *)
(* extends TrustIsVouchedFor to released references and to links under way.*)
(***************************************************************************)

CatalogTypes ==
  /\ row \in [Hashes -> {"none", "pending", "live", "trashed"}]
  /\ driver \in [Hashes -> {Src, Dst}]
  /\ held \subseteq Refs
  /\ trust \in [Refs -> Levels \cup {"none"}]
  /\ phase \in [Producers -> {"idle", "sealed", "publish", "link"}]
  /\ ref \in [Producers -> Refs]
  /\ level \in [Producers -> Levels]
  /\ target \in Hashes
  /\ mover \in [Movers -> {"idle", "listed", "open", "copied", "moved"}]
  /\ moving \in [Movers -> Hashes]
  /\ cast \in Casts

BytesInv ==
  /\ LiveHasBytes
  /\ \A h \in Hashes : row[h] \in {"none", "pending"} => driver[h] = cast.catalog
  /\ \A p \in Producers :
       phase[p] \in {"sealed", "publish"} /\ row[ref[p].hash] \in {"none", "pending"}
         => <<cast.catalog, ref[p].hash>> \in bytes
  /\ \A m \in Movers :
       /\ mover[m] # "idle" => row[moving[m]] \in {"live", "trashed"}
       /\ mover[m] = "copied" => <<Dst, moving[m]>> \in bytes \/ row[moving[m]] = "trashed"
       /\ mover[m] = "moved" => driver[moving[m]] = Dst

LockInv ==
  /\ \A p \in Producers : phase[p] \in {"publish", "link"} => lock = p
  /\ sweeper = "trash" => lock = Sweeper /\ ~Referenced(target)
  /\ \A p \in Producers : phase[p] = "link" => row[ref[p].hash] = "live"
  /\ \A k \in held : row[k.hash] = "live"

VouchInv ==
  /\ \A k \in Refs : trust[k] = "trusted" => <<k.owner, k.hash>> \in vouched
  /\ \A p \in Producers :
       phase[p] = "link" /\ level[p] = "trusted" => <<ref[p].owner, ref[p].hash>> \in vouched

-----------------------------------------------------------------------------

\* A reference is an owner, an address and a source.
LEMMA RefFields == \A k \in Refs : k.hash \in Hashes /\ k.owner \in Owners
BY Zenon DEF Refs

\* Who takes part, and the driver the catalog is bound to.
LEMMA CastFields ==
  \A c \in Casts : /\ c.producers \subseteq Producers /\ c.movers \subseteq Movers
                   /\ c.refs \subseteq Refs /\ c.catalog \in {Src, Dst}
BY BlobConstants, Zenon

\* The first state is well typed.
LEMMA TypeInit == CatalogInit => CatalogTypes
<1> SUFFICES ASSUME CatalogInit PROVE CatalogTypes
  BY Zenon
<1>1. (CHOOSE k \in Refs : TRUE) \in Refs /\ (CHOOSE h \in Hashes : TRUE) \in Hashes
  BY BlobConstants, Zenon
<1> DEFINE k0 == CHOOSE k \in Refs : TRUE
           h0 == CHOOSE h \in Hashes : TRUE
<1>2. ref \in [Producers -> Refs] /\ target \in Hashes /\ moving \in [Movers -> Hashes]
  <2>1. k0 \in Refs /\ h0 \in Hashes
    BY <1>1, Zenon
  <2>2. ref \in [Producers -> {k0}] /\ target \in {h0} /\ moving \in [Movers -> {h0}]
    BY Zenon DEF CatalogInit
  <2> HIDE DEF k0, h0
  <2> QED
    BY <2>1, <2>2, Zenon
<1>3. driver \in [Hashes -> {Src, Dst}]
  BY CastFields, Zenon DEF CatalogInit
<1> QED
  BY <1>2, <1>3, Zenon DEF CatalogInit, CatalogTypes, Levels

\* Every step keeps the types.
LEMMA TypeStep == CatalogTypes /\ [CatalogNext]_catalogVars => CatalogTypes'
<1> SUFFICES ASSUME CatalogTypes, [CatalogNext]_catalogVars PROVE CatalogTypes'
  BY Zenon
<1> USE DEF CatalogTypes, files, moves, others
<1>1. ASSUME NEW p \in Producers, Produce(p) PROVE CatalogTypes'
  <2>1. CASE Seal(p)
    BY <2>1, CastFields, Zenon DEF Seal
  <2>2. CASE PublishReads(p)
    BY <2>2, Zenon DEF PublishReads
  <2>3. CASE PublishCommits(p)
    BY <2>3, RefFields, SMTT(20) DEF PublishCommits, InsertRef, Weaker, Levels
  <2>4. CASE LinkReads(p)
    BY <2>4, CastFields DEF LinkReads, Weaker, Levels
  <2>5. CASE LinkCommits(p)
    BY <2>5, Zenon DEF LinkCommits, InsertRef, Weaker, Levels
  <2> QED
    BY <1>1, <2>1, <2>2, <2>3, <2>4, <2>5, Zenon DEF Produce
<1>2. ASSUME NEW m \in Movers, Move(m) PROVE CatalogTypes'
  <2>1. CASE Pending(m)
    BY <2>1, Zenon DEF Pending
  <2>2. CASE OpenSource(m)
    BY <2>2, Zenon DEF OpenSource
  <2>3. CASE SealCopy(m)
    BY <2>3, Zenon DEF SealCopy
  <2>4. CASE Repoint(m)
    BY <2>4, Zenon DEF Repoint
  <2>5. CASE DeleteSource(m)
    BY <2>5, Zenon DEF DeleteSource
  <2> QED
    BY <1>2, <2>1, <2>2, <2>3, <2>4, <2>5, Zenon DEF Move
<1>3. ASSUME NEW h \in Hashes, Reserve(h) PROVE CatalogTypes'
  BY <1>3, Zenon DEF Reserve
<1>4. ASSUME NEW k \in Refs, Release(k) PROVE CatalogTypes'
  BY <1>4, Zenon DEF Release
<1>5. ASSUME NEW o \in Owners, NEW s \in Sources, ReleaseBySource(o, s) PROVE CatalogTypes'
  BY <1>5, Zenon DEF ReleaseBySource
<1>6. CASE Sweep
  BY <1>6, Zenon DEF Sweep, Unreferenced, TrashReads, TrashCommits, DeleteTrashedBytes
<1>7. CASE Crash
  BY <1>7, Zenon DEF Crash
<1>8. CASE UNCHANGED catalogVars
  BY <1>8, Zenon DEF catalogVars
<1> QED
  BY <1>1, <1>2, <1>3, <1>4, <1>5, <1>6, <1>7, <1>8, CastFields, Zenon DEF CatalogNext

-----------------------------------------------------------------------------

\* Sealing adds bytes and is what a publish rests on.
LEMMA BytesProduce ==
  ASSUME CatalogTypes, BytesInv, NEW p \in Producers, Produce(p)
  PROVE  BytesInv'
<1> USE DEF CatalogTypes, BytesInv, LiveHasBytes, files, moves
<1>1. CASE Seal(p)
  BY <1>1, CastFields, RefFields, ZenonT(40) DEF Seal
<1>2. CASE PublishReads(p)
  BY <1>2, Zenon DEF PublishReads
<1>3. CASE PublishCommits(p)
  BY <1>3, RefFields DEF PublishCommits, InsertRef
<1>4. CASE LinkReads(p)
  BY <1>4, ZenonT(30) DEF LinkReads
<1>5. CASE LinkCommits(p)
  BY <1>5, Zenon DEF LinkCommits
<1> QED
  BY <1>1, <1>2, <1>3, <1>4, <1>5, ZenonT(30) DEF Produce

\* Copy, then repoint, then delete.
LEMMA BytesMove ==
  ASSUME CatalogTypes, BytesInv, NEW m \in Movers, Move(m)
  PROVE  BytesInv'
<1> USE DEF CatalogTypes, BytesInv, LiveHasBytes, others
<1>1. CASE Pending(m)
  BY <1>1 DEF Pending
<1>2. CASE OpenSource(m)
  BY <1>2, Zenon DEF OpenSource
<1>3. CASE SealCopy(m)
  BY <1>3, ZenonT(40) DEF SealCopy
<1>4. CASE Repoint(m)
  BY <1>4, RefFields DEF Repoint
<1>5. CASE DeleteSource(m)
  BY <1>5, RefFields, BlobConstants, ZenonT(30) DEF DeleteSource
<1> QED
  BY <1>1, <1>2, <1>3, <1>4, <1>5, ZenonT(30) DEF Move

\* A trashed row is never live again, so its bytes may go.
LEMMA BytesSweep ==
  ASSUME CatalogTypes, BytesInv, Sweep
  PROVE  BytesInv'
<1> USE DEF CatalogTypes, BytesInv, LiveHasBytes, files, moves
<1>1. CASE Unreferenced \/ TrashReads
  BY <1>1, ZenonT(30) DEF Unreferenced, TrashReads
<1>2. CASE TrashCommits
  BY <1>2, RefFields DEF TrashCommits
<1>3. CASE DeleteTrashedBytes
  BY <1>3, RefFields, CastFields, Zenon DEF DeleteTrashedBytes
<1> QED
  BY <1>1, <1>2, <1>3, ZenonT(30) DEF Sweep

\* BytesInv is inductive on either engine.
LEMMA BytesStep == CatalogTypes /\ BytesInv /\ [CatalogNext]_catalogVars => BytesInv'
<1> SUFFICES ASSUME CatalogTypes, BytesInv, [CatalogNext]_catalogVars PROVE BytesInv'
  BY Zenon
<1>1. ASSUME NEW h \in Hashes, Reserve(h) PROVE BytesInv'
  BY <1>1, RefFields, ZenonT(40) DEF Reserve, CatalogTypes, BytesInv, LiveHasBytes, moves
<1>2. ASSUME NEW k \in Refs, Release(k) PROVE BytesInv'
  BY <1>2, ZenonT(30) DEF Release, BytesInv, LiveHasBytes, moves
<1>3. ASSUME NEW o \in Owners, NEW s \in Sources, ReleaseBySource(o, s) PROVE BytesInv'
  BY <1>3, ZenonT(30) DEF ReleaseBySource, BytesInv, LiveHasBytes, moves
<1>4. CASE Crash
  BY <1>4, Zenon DEF Crash, BytesInv, LiveHasBytes, files
<1>5. CASE UNCHANGED catalogVars
  BY <1>5, Zenon DEF catalogVars, BytesInv, LiveHasBytes, files, moves
<1>6. cast.producers \subseteq Producers /\ cast.movers \subseteq Movers
  BY CastFields, Zenon DEF CatalogTypes
<1> QED
  BY <1>1, <1>2, <1>3, <1>4, <1>5, <1>6, BytesProduce, BytesMove, BytesSweep, ZenonT(30) DEF CatalogNext

\* A live row has its bytes on the driver it names, whatever publishes, sweeps,
\* relocations and crashes overlap, on SQLite and on Postgres.
THEOREM LiveStored == CatalogSpec => []LiveHasBytes
<1>1. CatalogInit => BytesInv
  BY Zenon DEF CatalogInit, BytesInv, LiveHasBytes
<1>2. BytesInv => LiveHasBytes
  BY Zenon DEF BytesInv
<1> QED
  BY <1>1, <1>2, TypeInit, TypeStep, BytesStep, PTL DEF CatalogSpec

-----------------------------------------------------------------------------

\* What a producer's transaction read still holds when it commits.
LEMMA LockProduce ==
  ASSUME OneWriter, CatalogTypes, LockInv, NEW p \in Producers, Produce(p)
  PROVE  LockInv'
<1> USE BlobConstants DEF CatalogTypes, LockInv, Referenced, files, Writable, BeginTx, EndTx
<1>1. CASE Seal(p)
  BY <1>1, ZenonT(40) DEF Seal
<1>2. CASE PublishReads(p)
  BY <1>2 DEF PublishReads
<1>3. CASE PublishCommits(p)
  <2>1. row'[ref[p].hash] = "live" \/ UNCHANGED <<row, held>>
    BY <1>3, RefFields DEF PublishCommits
  <2>2. \A h \in Hashes : row[h] = "live" => row'[h] = "live"
    BY <1>3, RefFields, Zenon DEF PublishCommits
  <2> QED
    BY <1>3, <2>1, <2>2, RefFields DEF PublishCommits, InsertRef
<1>4. CASE LinkReads(p)
  BY <1>4 DEF LinkReads, Resolves
<1>5. CASE LinkCommits(p)
  BY <1>5 DEF LinkCommits, InsertRef
<1> QED
  BY <1>1, <1>2, <1>3, <1>4, <1>5, ZenonT(30) DEF Produce

\* trash asks for references under the lock it commits with.
LEMMA LockSweep ==
  ASSUME OneWriter, CatalogTypes, LockInv, Sweep
  PROVE  LockInv'
<1> USE BlobConstants DEF CatalogTypes, LockInv, Referenced, files, Writable, BeginTx, EndTx
<1>1. CASE Unreferenced
  BY <1>1, Zenon DEF Unreferenced
<1>2. CASE TrashReads
  BY <1>2 DEF TrashReads
<1>3. CASE TrashCommits
  BY <1>3, RefFields DEF TrashCommits
<1>4. CASE DeleteTrashedBytes
  BY <1>4, Zenon DEF DeleteTrashedBytes
<1> QED
  BY <1>1, <1>2, <1>3, <1>4, Zenon DEF Sweep

\* LockInv is inductive with one writer.
LEMMA LockStep == OneWriter /\ CatalogTypes /\ LockInv /\ [CatalogNext]_catalogVars => LockInv'
<1> SUFFICES ASSUME OneWriter, CatalogTypes, LockInv, [CatalogNext]_catalogVars PROVE LockInv'
  BY Zenon
<1> USE DEF LockInv, Referenced
<1>1. ASSUME NEW m \in Movers, Move(m) PROVE LockInv'
  BY <1>1, Zenon DEF Move, Pending, OpenSource, SealCopy, Repoint, DeleteSource, others
<1>2. ASSUME NEW h \in Hashes, Reserve(h) PROVE LockInv'
  BY <1>2, RefFields, Zenon DEF Reserve, CatalogTypes
<1>3. ASSUME NEW k \in Refs, Release(k) PROVE LockInv'
  BY <1>3, ZenonT(30) DEF Release
<1>4. ASSUME NEW o \in Owners, NEW s \in Sources, ReleaseBySource(o, s) PROVE LockInv'
  BY <1>4, ZenonT(30) DEF ReleaseBySource
<1>5. CASE Crash
  BY <1>5, ZenonT(30) DEF Crash, files
<1>6. CASE UNCHANGED catalogVars
  BY <1>6, ZenonT(30) DEF catalogVars, files
<1>7. cast.producers \subseteq Producers /\ cast.movers \subseteq Movers
  BY CastFields, ZenonT(30) DEF CatalogTypes
<1> HIDE DEF LockInv, Referenced
<1> QED
  BY <1>1, <1>2, <1>3, <1>4, <1>5, <1>6, <1>7, LockProduce, LockSweep, ZenonT(30) DEF CatalogNext

\* With SQLite's one writer a held reference reads: its row is live and the
\* bytes are where the row says.
THEOREM HeldReadable == ASSUME OneWriter PROVE CatalogSpec => []HeldIsReadable
<1>1. CatalogInit => LockInv /\ BytesInv
  BY Zenon DEF CatalogInit, LockInv, BytesInv, LiveHasBytes
<1>2. CatalogTypes /\ BytesInv /\ LockInv => HeldIsReadable
  BY RefFields, Zenon DEF CatalogTypes, BytesInv, LockInv, LiveHasBytes, HeldIsReadable
<1>3. CatalogTypes /\ LockInv /\ [CatalogNext]_catalogVars => LockInv'
  BY LockStep, Zenon
<1> QED
  BY <1>1, <1>2, <1>3, TypeInit, TypeStep, BytesStep, PTL DEF CatalogSpec

-----------------------------------------------------------------------------

\* A link is at most as trusted as what its owner holds, a revival at most as
\* trusted as it was.
LEMMA VouchProduce ==
  ASSUME CatalogTypes, VouchInv, NEW p \in Producers, Produce(p)
  PROVE  VouchInv'
<1> USE DEF CatalogTypes, VouchInv, files
<1>1. CASE Seal(p)
  BY <1>1, Zenon DEF Seal
<1>2. CASE PublishReads(p)
  BY <1>2, Zenon DEF PublishReads
<1>3. CASE PublishCommits(p)
  BY <1>3 DEF PublishCommits, InsertRef, Weaker
<1>4. CASE LinkReads(p)
  <2>1. PICK k \in cast.refs, l \in Levels :
          /\ Resolves(k.owner, k.hash)
          /\ ref' = [ref EXCEPT ![p] = k]
          /\ level' = [level EXCEPT ![p] = Weaker(l, HeldLevel(k.owner, k.hash))]
    BY <1>4, ZenonT(30) DEF LinkReads
  <2>2. level'[p] = "trusted" => <<k.owner, k.hash>> \in vouched
    BY <2>1, Zenon DEF Resolves, HeldLevel, Mine, Weaker
  <2> QED
    BY <1>4, <2>1, <2>2, CastFields, Zenon DEF LinkReads
<1>5. CASE LinkCommits(p)
  BY <1>5, Zenon DEF LinkCommits, InsertRef, Weaker
<1> QED
  BY <1>1, <1>2, <1>3, <1>4, <1>5, ZenonT(30) DEF Produce

\* VouchInv is inductive on either engine.
LEMMA VouchStep == CatalogTypes /\ VouchInv /\ [CatalogNext]_catalogVars => VouchInv'
<1> SUFFICES ASSUME CatalogTypes, VouchInv, [CatalogNext]_catalogVars PROVE VouchInv'
  BY Zenon
<1>1. ASSUME UNCHANGED <<trust, phase, ref, level, vouched>> PROVE VouchInv'
  BY <1>1, Zenon DEF VouchInv
<1>2. ASSUME NEW m \in Movers, Move(m) PROVE VouchInv'
  BY <1>1, <1>2, Zenon DEF Move, Pending, OpenSource, SealCopy, Repoint, DeleteSource, others
<1>3. CASE (\E h \in Hashes : Reserve(h)) \/ (\E k \in Refs : Release(k))
           \/ (\E o \in Owners, s \in Sources : ReleaseBySource(o, s))
  BY <1>1, <1>3, Zenon DEF Reserve, Release, ReleaseBySource
<1>4. CASE Sweep
  BY <1>1, <1>4, Zenon DEF Sweep, Unreferenced, TrashReads, TrashCommits, DeleteTrashedBytes, files
<1>5. CASE Crash
  BY <1>5, ZenonT(30) DEF Crash, VouchInv, files
<1>6. CASE UNCHANGED catalogVars
  BY <1>1, <1>6, Zenon DEF catalogVars, files
<1>7. cast.producers \subseteq Producers /\ cast.movers \subseteq Movers
  BY CastFields, Zenon DEF CatalogTypes
<1> QED
  BY <1>2, <1>3, <1>4, <1>5, <1>6, <1>7, VouchProduce, Zenon DEF CatalogNext

\* No sequence of links, releases and revivals gives an owner a trusted
\* reference to bytes they never published as trusted.
THEOREM TrustVouched == CatalogSpec => []TrustIsVouchedFor
<1>1. CatalogInit => VouchInv
  BY Zenon DEF CatalogInit, VouchInv
<1>2. CatalogTypes /\ VouchInv => TrustIsVouchedFor
  BY Zenon DEF CatalogTypes, VouchInv, TrustIsVouchedFor
<1> QED
  BY <1>1, <1>2, TypeInit, TypeStep, VouchStep, PTL DEF CatalogSpec
=============================================================================
