----------------------------- MODULE BufferPool -----------------------------
(***************************************************************************)
(* The pool of packet buffers that all sessions share.  It never refuses a *)
(* block: when it is empty it allocates one more, which later joins the    *)
(* free list like the others.  The blocks themselves are interchangeable,  *)
(* so the pool is three numbers.                                           *)
(***************************************************************************)
EXTENDS Integers

CONSTANT PoolSize   \* buffer_pool_count (8192)

ASSUME PoolSizeAssumption == PoolSize \in Nat

\* pool_.size(), total_allocated_ and peak_used_.
Pools   == [available : Nat, total : Nat, peak : Nat]
NewPool == [available |-> PoolSize, total |-> PoolSize, peak |-> 0]

Larger(a, b) == IF a > b THEN a ELSE b
InUse(p)     == p.total - p.available

\* Mutant: an empty pool hands out a block that it does not have.
Acquire_NoGrow(p) ==
  [p EXCEPT !.available = @ - 1, !.peak = Larger(@, InUse(p) + 1)]

\* acquire: the last free block, or a new one.
Acquire(p) ==
  [available |-> IF p.available = 0 THEN 0 ELSE p.available - 1,
   total     |-> IF p.available = 0 THEN p.total + 1 ELSE p.total,
   peak      |-> Larger(p.peak, InUse(p) + 1)]

\* release, of n blocks.
Release(p, n) == [p EXCEPT !.available = @ + n]
=============================================================================
