------------------------------ MODULE WasmHost ------------------------------
(***************************************************************************)
(* The wasm host: guest calls, pinned instances, the live-instance limiter *)
(* and the idle pool (hive-wasmhost).                                      *)
(*                                                                         *)
(* A task is one Host::call (CallTasks) or the owner of one PinnedInstance *)
(* (Pins).  Both resolve a memory tier, wait for the module's compilation, *)
(* queue for a limiter lease and get an instance: a call a warm one from   *)
(* the pool or a fresh one, a pin always a fresh one, against a            *)
(* reservation.  The guest then runs, calling capabilities that may give   *)
(* it untrusted bytes, until it returns, traps or meets its deadline.      *)
(*                                                                         *)
(* Every await is a place where the task's future may be dropped.  The     *)
(* host may be closed at any step of any task.                             *)
(***************************************************************************)
EXTENDS InstancePool, FiniteSets

CONSTANTS
  CallTasks, Pins,  \* the tasks
  CallArgs,         \* [module, principal, caps, pages, terminate, untrusted] records a caller may pass
  Imports,          \* the capabilities each module imports
  Tiers,            \* memory_tiers, in pages
  MaxLive,          \* the limiter's ceiling over the host, 0 for none
  MaxPerPrincipal   \* and over one principal, 0 for MaxLive

\* No task is both, there are finitely many pins, and a request's pages are a u32.
ASSUME HostConstants ==
  /\ CallTasks \cap Pins = {} /\ IsFiniteSet(Pins)
  /\ \A r \in CallArgs : r.pages \in Nat /\ r.untrusted \in BOOLEAN

Tasks      == CallTasks \cup Pins
Modules    == DOMAIN Imports
Principals == {r.principal : r \in CallArgs}
NoInst     == [key |-> "none"]
NoResult   == [taint |-> FALSE, exposed |-> FALSE]

VARIABLES
  pool,      \* the Pool
  closed,    \* Host::closed, which close sets with stop: the sweeper and the tickers end
  closing,   \* close: "no", "pool" then "tiers" still to clear, "done"
  tiers,     \* Host::tiers
  cell,      \* a module's OnceCell: "empty", the task compiling it, or "ready"
  live, per, \* the limiter's Counts
  task,      \* where each task is
  seen,      \* Held::taint_seen of a pin
  cut        \* history: a call on this pin was dropped before it ended

hostVars == <<closed, closing, tiers, cell>>
limVars  == <<live, per>>
pinVars  == <<seen, cut>>
wasmVars == <<pool, hostVars, limVars, task, pinVars>>

Fresh == [pc |-> "new", req |-> [module |-> "none"], inst |-> NoInst, lease |-> FALSE,
          woken |-> FALSE, taint |-> FALSE, result |-> NoResult]

HostInit ==
  /\ pool = EmptyPool
  /\ closed = FALSE /\ closing = "no"
  /\ tiers = {}
  /\ cell = [m \in Modules |-> "empty"]
  /\ live = 0 /\ per = [p \in Principals |-> 0]
  /\ task = [t \in Tasks |-> Fresh]
  /\ seen = [t \in Pins |-> FALSE] /\ cut = [t \in Pins |-> FALSE]

-----------------------------------------------------------------------------
(* The request's tier and the instance it may be served by.                *)

TooLarge(r)  == \A p \in Tiers : p < r.pages
Ceiling(r)   == Min({p \in Tiers : p >= r.pages})
TierKey(r)   == [pages |-> Ceiling(r), terminate |-> r.terminate]
KeyOf(r)     == [module |-> r.module, principal |-> r.principal, tier |-> TierKey(r), caps |-> r.caps]
CheckModule(r) == Imports[r.module] \subseteq r.caps
NewInst(r)   == [key |-> KeyOf(r), size |-> 1, dead |-> FALSE, exposed |-> FALSE]

TaskAt(t, pc) == task[t].pc = pc
Goto(t, pc) == task' = [task EXCEPT ![t].pc = pc]

\* A task that gives up: its lease, if it has one, is dropped on the way out.
GiveUp(t, result) ==
  IF task[t].lease THEN [Fresh EXCEPT !.pc = "unlease", !.req = task[t].req,
                                      !.lease = TRUE, !.result = result]
  ELSE Fresh
Fail(t) == task' = [task EXCEPT ![t] = GiveUp(t, NoResult)]

-----------------------------------------------------------------------------
(* Host::call and acquire_pinned, up to the compiled module.               *)

\* The argument checks; call also asks whether the host is closed,
\* acquire_pinned does not.
Start(t) ==
  /\ TaskAt(t, "new")
  /\ \E r \in CallArgs :
       task' = [task EXCEPT ![t] =
         IF TooLarge(r) \/ (t \in CallTasks /\ closed) THEN Fresh
         ELSE [Fresh EXCEPT !.pc = "tier", !.req = r, !.taint = r.untrusted]]
  /\ UNCHANGED <<pool, hostVars, limVars, pinVars>>

\* tier_for, first half: the closed check and the lookup.
FindTier(t) ==
  /\ TaskAt(t, "tier")
  /\ IF closed THEN Fail(t)
     ELSE Goto(t, IF TierKey(task[t].req) \in tiers THEN "compile" ELSE "insert")
  /\ UNCHANGED <<pool, hostVars, limVars, pinVars>>

\* tier_for, second half: an engine is built or found, then, under the tiers lock,
\* the closed check is made again.
InsertTier(t) ==
  /\ TaskAt(t, "insert")
  /\ IF closed
     THEN Fail(t) /\ UNCHANGED tiers
     ELSE tiers' = tiers \cup {TierKey(task[t].req)} /\ Goto(t, "compile")
  /\ UNCHANGED <<pool, closed, closing, cell, limVars, pinVars>>

\* Where a task goes once its module is compiled: call verifies the imports first.
AfterCompile(t) == t \in Pins \/ CheckModule(task[t].req)

\* ModuleCache::get: take the compiled module, or become the one task compiling it.
AskModule(t) ==
  LET m == task[t].req.module IN
  /\ TaskAt(t, "compile")
  /\ \/ /\ cell[m] = "ready"
        /\ IF AfterCompile(t) THEN Goto(t, "ask") ELSE Fail(t)
        /\ UNCHANGED cell
     \/ /\ cell[m] = "empty"
        /\ cell' = [cell EXCEPT ![m] = t]
        /\ Goto(t, "compiling")
  /\ UNCHANGED <<pool, closed, closing, tiers, limVars, pinVars>>

\* The fetch, the hash check and the compilation: a failure leaves the cell empty.
Compiled(t) ==
  LET m == task[t].req.module IN
  /\ TaskAt(t, "compiling")
  /\ \/ cell' = [cell EXCEPT ![m] = "ready"] /\ Goto(t, "compile")
     \/ cell' = [cell EXCEPT ![m] = "empty"] /\ Fail(t)
  /\ UNCHANGED <<pool, closed, closing, tiers, limVars, pinVars>>

-----------------------------------------------------------------------------
(* The limiter.                                                            *)

PerLimit == IF MaxPerPrincipal = 0 THEN MaxLive ELSE MaxPerPrincipal

Room(p) == /\ MaxLive > 0 => live < MaxLive
           /\ PerLimit > 0 => per[p] < PerLimit

\* acquire registers its interest in a release before it looks for room.
Register(t) ==
  /\ TaskAt(t, "ask")
  /\ task' = [task EXCEPT ![t].pc = "check", ![t].woken = FALSE]
  /\ UNCHANGED <<pool, hostVars, limVars, pinVars>>

\* It then takes a slot, or finds the limiter full.
TakeSlot(t) ==
  LET p == task[t].req.principal IN
  /\ TaskAt(t, "check")
  /\ IF Room(p)
     THEN /\ live' = live + 1 /\ per' = [per EXCEPT ![p] = @ + 1]
          /\ task' = [task EXCEPT ![t].pc = "slot", ![t].lease = TRUE, ![t].woken = FALSE]
     ELSE Goto(t, "full") /\ UNCHANGED limVars
  /\ UNCHANGED <<pool, hostVars, pinVars>>

\* The wait itself starts after the lock is let go: a release may come in between.
Park(t) ==
  /\ TaskAt(t, "full")
  /\ Goto(t, "parked")
  /\ UNCHANGED <<pool, hostVars, limVars, pinVars>>

Wake(t) ==
  /\ TaskAt(t, "parked") /\ task[t].woken
  /\ Goto(t, "ask")
  /\ UNCHANGED <<pool, hostVars, limVars, pinVars>>

WaitExpires(t) ==
  /\ TaskAt(t, "parked")
  /\ Fail(t)
  /\ UNCHANGED <<pool, hostVars, limVars, pinVars>>

\* A dropped lease: the counts under the lock, then the waiters are notified.
Unlease(t) ==
  LET p == task[t].req.principal IN
  /\ TaskAt(t, "unlease")
  /\ live' = Monus(live, 1) /\ per' = [per EXCEPT ![p] = Monus(@, 1)]
  /\ task' = [task EXCEPT ![t].pc = "notify", ![t].lease = FALSE]
  /\ UNCHANGED <<pool, hostVars, pinVars>>

\* notify_waiters wakes every task that has registered.
Notify(t) ==
  /\ TaskAt(t, "notify")
  /\ task' = [u \in Tasks |->
                IF u = t THEN Fresh
                ELSE IF task[u].pc \in {"check", "full", "parked"} THEN [task[u] EXCEPT !.woken = TRUE]
                ELSE task[u]]
  /\ UNCHANGED <<pool, hostVars, limVars, pinVars>>

-----------------------------------------------------------------------------
(* Getting an instance.                                                    *)

\* call: the hottest warm instance of the key, or a fresh one.
AcquireWarm(t) ==
  LET key == KeyOf(task[t].req) IN
  /\ TaskAt(t, "slot") /\ t \in CallTasks
  /\ IF WarmFor(pool, key) = {}
     THEN Goto(t, "instantiate") /\ UNCHANGED pool
     ELSE LET took == TakeWarm(pool, key) IN
          /\ pool' = took.pool
          /\ task' = [task EXCEPT ![t].pc = "begin", ![t].inst = took.inst]
  /\ UNCHANGED <<hostVars, limVars, pinVars>>

\* acquire_pinned: reserve what the module asked for, or refuse.
ReservePinned(t) ==
  LET want == task[t].req.pages IN
  /\ TaskAt(t, "slot") /\ t \in Pins
  /\ IF CanReserve(pool, want)
     THEN pool' = Reserve(pool, want) /\ Goto(t, "instantiate")
     ELSE Fail(t) /\ UNCHANGED pool
  /\ UNCHANGED <<hostVars, limVars, pinVars>>

PinnedWant(t) == task[t].req.pages

\* instantiate: the module's imports are checked again, and building may fail.
Instantiate(t) ==
  LET r == task[t].req IN
  /\ TaskAt(t, "instantiate")
  /\ \/ /\ CheckModule(r)
        /\ task' = [task EXCEPT ![t].pc = IF t \in Pins THEN "held" ELSE "begin",
                                ![t].inst = NewInst(r)]
        /\ UNCHANGED pool
     \/ /\ Fail(t)
        /\ pool' = IF t \in Pins THEN Unreserve(pool, PinnedWant(t)) ELSE pool
  /\ IF t \in Pins
     THEN seen' = [seen EXCEPT ![t] = task[t].taint] /\ cut' = [cut EXCEPT ![t] = FALSE]
     ELSE UNCHANGED pinVars
  /\ UNCHANGED <<hostVars, limVars>>

-----------------------------------------------------------------------------
(* The guest, and the capability calls it makes (invoke, hostmods.rs).     *)

\* A pinned call starts with the taint its instance has already seen.
PinnedCall(t) ==
  /\ TaskAt(t, "held") /\ t \in Pins
  /\ ~task[t].inst.dead
  /\ task' = [task EXCEPT ![t].pc = "begin", ![t].taint = seen[t]]
  /\ UNCHANGED <<pool, hostVars, limVars, pinVars>>

\* The guest starts on its input, which is as untrusted as the caller says.
BeginGuest(t) ==
  /\ TaskAt(t, "begin")
  /\ task' = [task EXCEPT ![t].pc = "guest", ![t].inst.exposed = @ \/ task[t].taint,
                          ![t].result = NoResult]
  /\ UNCHANGED <<pool, hostVars, limVars, pinVars>>

\* memory.grow, up to the tier's ceiling.
Grow(t) ==
  /\ TaskAt(t, "guest")
  /\ task[t].inst.size < task[t].inst.key.tier.pages
  /\ task' = [task EXCEPT ![t].inst.size = @ + 1]
  /\ UNCHANGED <<pool, hostVars, limVars, pinVars>>

\* capability_call: the guest waits on the data layer.
CapabilityCall(t) ==
  /\ TaskAt(t, "guest") /\ task[t].req.caps # {}
  /\ Goto(t, "host")
  /\ UNCHANGED <<pool, hostVars, limVars, pinVars>>

\* Mutant: a failed capability call leaves the taint alone.
CapabilityFailsClean(t) ==
  [task[t] EXCEPT !.pc = "guest", !.inst.exposed = TRUE]

\* A failure: its message reaches the guest, so it taints the invocation.
CapabilityFails(t) ==
  [task[t] EXCEPT !.pc = "guest", !.inst.exposed = TRUE, !.taint = TRUE]

\* A response: its trust is folded in, and only ever weakens.
CapabilityAnswers(t, untrusted) ==
  [task[t] EXCEPT !.pc = "guest", !.inst.exposed = @ \/ untrusted, !.taint = @ \/ untrusted]

\* sanitize alone sets the taint to what the sanitizer vouches for.
Sanitized(t) ==
  [task[t] EXCEPT !.pc = "guest", !.inst.exposed = FALSE, !.taint = FALSE]

CapabilityReturns(t) ==
  /\ TaskAt(t, "host")
  /\ \/ task' = [task EXCEPT ![t] = CapabilityFails(t)]
     \/ \E untrusted \in BOOLEAN : task' = [task EXCEPT ![t] = CapabilityAnswers(t, untrusted)]
     \/ /\ "sanitize" \in task[t].req.caps
        /\ task' = [task EXCEPT ![t] = Sanitized(t)]
  /\ UNCHANGED <<pool, hostVars, limVars, pinVars>>

-----------------------------------------------------------------------------
(* How an invocation ends.                                                 *)

\* The instance goes back to the pool, or stays with its pin; the result says
\* what the invocation's taint had become.
EndInvoke(t, dead) ==
  LET inst == [task[t].inst EXCEPT !.dead = dead]
      res  == [taint |-> task[t].taint, exposed |-> inst.exposed]
  IN  IF t \in CallTasks
      THEN /\ pool' = Release(pool, inst)
           /\ task' = [task EXCEPT ![t] = GiveUp(t, res)]
           /\ UNCHANGED pinVars
      ELSE /\ task' = [task EXCEPT ![t].pc = "held", ![t].inst = inst, ![t].result = res,
                                   ![t].taint = FALSE]
           /\ seen' = [seen EXCEPT ![t] = @ \/ task[t].taint]
           /\ UNCHANGED <<pool, cut>>

\* The module does not export the function: the instance was not touched.
NoSuchFunction(t) ==
  /\ TaskAt(t, "begin")
  /\ EndInvoke(t, FALSE)
  /\ UNCHANGED <<hostVars, limVars>>

\* Mutant: the instance is kept for the next call whatever the guest read.
DiesOfOverrun(t, late) == late

\* An overrun kills the instance, and so does having met untrusted bytes.
Dies(t, late) == late \/ task[t].taint

\* The guest returns, in time or late.
GuestReturns(t) ==
  /\ TaskAt(t, "guest")
  /\ \E late \in BOOLEAN : EndInvoke(t, Dies(t, late))
  /\ UNCHANGED <<hostVars, limVars>>

GuestTraps(t) ==
  /\ TaskAt(t, "guest")
  /\ EndInvoke(t, TRUE)
  /\ UNCHANGED <<hostVars, limVars>>

\* The epoch deadline stops a guest in its own code, where its engine has a
\* ticker and close has not ended the tickers.
EpochTrap(t) ==
  /\ TaskAt(t, "guest") /\ task[t].req.terminate /\ closing # "done"
  /\ EndInvoke(t, TRUE)
  /\ UNCHANGED <<hostVars, limVars>>

\* The deadline drops the future of a guest that waits on a host function.
DeadlineDrop(t) ==
  /\ TaskAt(t, "host")
  /\ EndInvoke(t, TRUE)
  /\ UNCHANGED <<hostVars, limVars>>

\* PinnedInstance::close, and its Drop: the reservation, then the lease.
ClosePinned(t) ==
  /\ TaskAt(t, "held") /\ t \in Pins
  /\ pool' = Unreserve(pool, PinnedWant(t))
  /\ task' = [task EXCEPT ![t] = GiveUp(t, NoResult)]
  /\ UNCHANGED <<hostVars, limVars, pinVars>>

-----------------------------------------------------------------------------
(* Whoever waits for a task may drop its future at any await.              *)

DropEarly(t) ==
  /\ task[t].pc \in {"compile", "compiling", "full", "parked", "instantiate"}
  /\ Fail(t)
  /\ cell' = [m \in Modules |-> IF cell[m] = t THEN "empty" ELSE cell[m]]
  /\ UNCHANGED <<pool, closed, closing, tiers, limVars, pinVars>>

\* A call's instance is dropped with its future; a pin keeps its instance.
DropInvoke(t) ==
  /\ TaskAt(t, "host")
  /\ IF t \in CallTasks THEN Fail(t) /\ UNCHANGED cut
     ELSE /\ task' = [task EXCEPT ![t].pc = "held", ![t].taint = FALSE]
          /\ cut' = [cut EXCEPT ![t] = TRUE]
  /\ UNCHANGED <<pool, hostVars, limVars, seen>>

-----------------------------------------------------------------------------
(* The sweeper and close.                                                  *)

SweepPool ==
  /\ ~closed
  /\ \E n \in 1..Len(pool.idle) : pool' = Sweep(pool, n)
  /\ UNCHANGED <<hostVars, limVars, task, pinVars>>

BeginClose ==
  /\ ~closed
  /\ closed' = TRUE /\ closing' = "pool"
  /\ UNCHANGED <<pool, tiers, cell, limVars, task, pinVars>>

ClosePool ==
  /\ closing = "pool"
  /\ pool' = CloseAll(pool) /\ closing' = "tiers"
  /\ UNCHANGED <<closed, tiers, cell, limVars, task, pinVars>>

\* The tiers are cleared and the tickers joined.
CloseTiers ==
  /\ closing = "tiers"
  /\ tiers' = {} /\ closing' = "done"
  /\ UNCHANGED <<pool, closed, cell, limVars, task, pinVars>>

-----------------------------------------------------------------------------
\* The steps the host takes for a task by itself.
HostStep(t) ==
  \/ FindTier(t) \/ InsertTier(t) \/ AskModule(t) \/ Compiled(t)
  \/ Register(t) \/ TakeSlot(t) \/ Park(t) \/ Wake(t) \/ WaitExpires(t)
  \/ Unlease(t) \/ Notify(t)
  \/ AcquireWarm(t) \/ ReservePinned(t) \/ Instantiate(t)
  \/ BeginGuest(t) \/ NoSuchFunction(t)

\* Mutant: nothing stops a guest that waits on a host function.
StoppedByEpoch(t) == EpochTrap(t)

Stopped(t) == EpochTrap(t) \/ DeadlineDrop(t)

GuestStep(t) ==
  \/ Grow(t) \/ CapabilityCall(t) \/ CapabilityReturns(t)
  \/ GuestReturns(t) \/ GuestTraps(t)

OwnerStep(t) ==
  \/ Start(t) \/ PinnedCall(t) \/ ClosePinned(t) \/ DropEarly(t) \/ DropInvoke(t)

HostNext ==
  \/ \E t \in Tasks : HostStep(t) \/ Stopped(t) \/ GuestStep(t) \/ OwnerStep(t)
  \/ SweepPool \/ BeginClose \/ ClosePool \/ CloseTiers

HostSpec == HostInit /\ [][HostNext]_wasmVars

\* Tokio polls a task that can go on, a wait has a deadline, and the clock and
\* the ticker reach the deadline of a running guest.
HostFairness ==
  \A t \in Tasks : /\ SF_wasmVars(HostStep(t)) /\ SF_wasmVars(WaitExpires(t))
                   /\ WF_wasmVars(Stopped(t))

FairHostSpec == HostSpec /\ HostFairness

-----------------------------------------------------------------------------
\* What the pins that are held, in a call or being built have been promised.
Promisees == {t \in Pins : task[t].pc \in {"instantiate", "held", "begin", "guest", "host"}}
Promised  == SumFunction([t \in Promisees |-> PinnedWant(t)])

\* The pool's counters agree with what is idle, the idle set stays inside what
\* the reservations leave of the budget, and every reservation a pin relies on is
\* still charged (pool.rs, every operation, in any interleaving of calls, pins,
\* sweeps and close).
PoolAccounts ==
  /\ pool.count = Len(pool.idle)
  /\ pool.bytes = SizeOf(pool.idle)
  /\ pool.bytes <= EvictableBudget(pool)
  /\ pool.reserved >= Promised

\* What the pool can hand out has met no untrusted byte since it was last
\* sanitized, and a call only ever runs in an instance its own principal made
\* with the very capabilities this call has, which cover the module's imports
\* (pool.rs:16-27, call.rs:513-521).
ReuseIsClean ==
  /\ \A i \in DOMAIN pool.idle : ~pool.idle[i].exposed /\ ~pool.idle[i].dead
  /\ \A t \in CallTasks : task[t].inst # NoInst =>
       task[t].inst.key = KeyOf(task[t].req) /\ CheckModule(task[t].req)

\* An invocation that met untrusted bytes, in this call or in an earlier one on
\* the same pinned instance, reports itself untrusted, whether it succeeded or
\* failed.  A pinned call whose future was dropped reports nothing, so a pin is
\* covered until one is (call.rs:444-448, pinned.rs:144-151).
TaintIsReported ==
  \A t \in Tasks :
    task[t].result.exposed /\ ~(t \in Pins /\ cut[t]) => task[t].result.taint

InCall(t) == task[t].pc \notin {"new", "held"}

\* While the host stays open, every call of a module that can be terminated
\* comes to an end: nobody waits for ever on a compilation, a slot or a guest.
EveryCallEnds ==
  [](~closed) =>
    \A t \in Tasks : (InCall(t) /\ task[t].req.terminate) ~> ~InCall(t)

\* Does not hold (README, "Divergences").  A reservation lasts no longer than
\* the pin it was made for (pinned.rs:176-178: "the reservation goes back so the
\* pool's accounting stays honest").
ReservedIsPromised == pool.reserved = Promised
=============================================================================
