----------------------------- MODULE StaticPool -----------------------------
(***************************************************************************)
(* The memory of an HTTP worker's fields (static_pool of                   *)
(* 0old/server/net_mgr/fields_alloc.hpp): blocks are cut off one after     *)
(* the other, and nothing is given back before all of them are.  A block   *)
(* has size 1 here.                                                        *)
(***************************************************************************)
EXTENDS Naturals

CONSTANT PoolSize   \* size_

EmptyPool == [count |-> 0, used |-> 0]

\* alloc() of n blocks, one call for each; the end itself may not be reached.
HasRoom(pool, n) == n = 0 \/ pool.used + n < PoolSize

Alloc(pool, n) == [count |-> pool.count + n, used |-> pool.used + n]

\* dealloc(), n times.
Dealloc(pool, n) ==
    IF n > 0 /\ n = pool.count THEN EmptyPool ELSE [pool EXCEPT !.count = @ - n]
=============================================================================
