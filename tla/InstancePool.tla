---------------------------- MODULE InstancePool ----------------------------
(***************************************************************************)
(* The idle-instance pool of the wasm host (hive-wasmhost/src/pool.rs).    *)
(*                                                                         *)
(* A pool is a record.  The code keeps one stack per key and finds the     *)
(* oldest instance by its use counter; here one sequence holds every idle  *)
(* instance in the order of that counter, so the stack of a key is its     *)
(* subsequence, its top is the last of them, and the least recently used   *)
(* instance is the head.  "count", "bytes" and "reserved" are counters of  *)
(* their own, as in the code: nothing here makes them agree with "idle".   *)
(*                                                                         *)
(* Every operation runs under the pool's lock, so each is one step of the  *)
(* call that makes it.  Memory is counted in pages; an instance's "size"   *)
(* stands for its linear memory and the fixed overhead charged with it.    *)
(***************************************************************************)
EXTENDS Integers, Sequences, FiniteSetsExt

CONSTANTS
  Budget,          \* pool_memory_budget
  ReservedBudget   \* reserved_memory_budget

\* Both are unsigned.
ASSUME PoolConstants == Budget \in Nat /\ ReservedBudget \in Nat

EmptyPool == [idle |-> <<>>, count |-> 0, bytes |-> 0, reserved |-> 0, closed |-> FALSE]

\* u64::saturating_sub.
Monus(a, b) == IF a > b THEN a - b ELSE 0

EvictableBudget(pool) == Monus(Budget, pool.reserved)

\* The pages of these instances together, as charge adds them up one by one.
SizeOf(insts) ==
  LET upTo[n \in 0..Len(insts)] == IF n = 0 THEN 0 ELSE upTo[n - 1] + insts[n].size
  IN  upTo[Len(insts)]

Without(insts, i) == SubSeq(insts, 1, i - 1) \o SubSeq(insts, i + 1, Len(insts))

\* Mutant: the evictions forget to give their bytes back.
DetachUncounted(pool, n) ==
  [pool EXCEPT !.idle = SubSeq(@, n + 1, Len(@)), !.count = @ - n]

\* Drops the n least recently used instances (detach_oldest, n times).
Detach(pool, n) ==
  [pool EXCEPT !.idle = SubSeq(@, n + 1, Len(@)),
               !.count = @ - n,
               !.bytes = @ - SizeOf(SubSeq(pool.idle, 1, n))]

\* Evicts until the idle bytes fit what the reservations leave, or nothing is idle.
EvictLocked(pool) ==
  LET fits(n) == pool.bytes - SizeOf(SubSeq(pool.idle, 1, n)) <= EvictableBudget(pool)
      enough  == {n \in 0..Len(pool.idle) : fits(n)}
  IN  Detach(pool, IF enough = {} THEN Len(pool.idle) ELSE Min(enough))

CanReserve(pool, pages) ==
  /\ ~pool.closed
  /\ ReservedBudget > 0 => pool.reserved + pages <= ReservedBudget

Reserve(pool, pages) == EvictLocked([pool EXCEPT !.reserved = @ + pages])

Unreserve(pool, pages) == [pool EXCEPT !.reserved = Monus(@, pages)]

\* The positions of the idle instances one key may take.
WarmFor(pool, key) ==
  IF pool.closed THEN {} ELSE {i \in DOMAIN pool.idle : pool.idle[i].key = key}

\* Takes the hottest of them: the instance, and the pool without it.
TakeWarm(pool, key) ==
  LET at == Max(WarmFor(pool, key))
  IN  [inst |-> pool.idle[at],
       pool |-> [pool EXCEPT !.idle = Without(@, at),
                             !.count = @ - 1,
                             !.bytes = @ - pool.idle[at].size]]

Release(pool, inst) ==
  IF inst.dead \/ pool.closed THEN pool
  ELSE EvictLocked([pool EXCEPT !.idle = Append(@, inst),
                                !.count = @ + 1,
                                !.bytes = @ + inst.size])

\* The idle instances past their TTL are the n least recently used, for some n.
Sweep(pool, n) == IF pool.closed THEN pool ELSE Detach(pool, n)

CloseAll(pool) == [pool EXCEPT !.closed = TRUE, !.count = 0, !.bytes = 0, !.idle = <<>>]
=============================================================================
