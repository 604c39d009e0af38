----------------------------- MODULE DbConnections -----------------------------
(***************************************************************************)
(* The connection pool under every SessionLocal of the backend             *)
(* (src/backend/config/db.py).  The engine is created with its default     *)
(* QueuePool: a fixed number of connections, and a checkout that finds     *)
(* none waits for a while and then raises TimeoutError.                    *)
(*                                                                         *)
(* Most code borrows a connection for one short transaction and gives it   *)
(* back before anything else can run; only those that keep one while they  *)
(* wait for something else are members of held.                            *)
(*                                                                         *)
(* The wait is a plain blocking call.  On the event loop it stops the      *)
(* whole server, so only a worker thread can give a connection back in the *)
(* meantime; in the model that is the thread's step coming first, and a    *)
(* checkout that still finds nothing fails.                                *)
(***************************************************************************)
EXTENDS Integers, FiniteSets

CONSTANT
    PoolSize    \* pool_size + max_overflow of the engine

ASSUME PoolSizeAssumption == PoolSize \in Nat \ {0}

VARIABLE
    held        \* those that keep a connection while they wait

\* n connections can be checked out one on top of the other.
CanCheckOut(n) == Cardinality(held) + n <= PoolSize
=============================================================================
