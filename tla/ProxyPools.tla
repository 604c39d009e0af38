------------------------------ MODULE ProxyPools ------------------------------
(***************************************************************************)
(* Proxy pools, their nodes and the health check                           *)
(* (src/backend/proxies_router.py), and the choice of a node for a request *)
(* that came in through an endpoint (src/backend/proxy_selector.py).       *)
(*                                                                         *)
(* The REST handlers run in worker threads, one transaction each; the      *)
(* choice of a node runs on the event loop.  A health check loads the      *)
(* nodes of a pool, probes them one after the other for seconds with its   *)
(* transaction open, and writes what it found at the end: StartCheck and   *)
(* FinishCheck.                                                            *)
(*                                                                         *)
(* Ids are given out as SQLite does for INTEGER PRIMARY KEY: one more than *)
(* the highest in use, so the id of a deleted row can come back.  Foreign  *)
(* keys are not enforced.                                                  *)
(***************************************************************************)
EXTENDS DbConnections, Sequences

CONSTANTS
    MaxPools,   \* bound: pool ids are 1 .. MaxPools
    MaxNodes,   \* bound: node ids are 1 .. MaxNodes
    MaxEdits,   \* bound: changes made through the REST API
    Checks      \* the calls of the health check that can run side by side

ASSUME ProxyAssumption ==
    /\ MaxPools \in Nat \ {0} /\ MaxNodes \in Nat \ {0} /\ MaxEdits \in Nat
    /\ IsFiniteSet(Checks)

VARIABLES
    pools,      \* the ids in use
    strategy,   \* rotation_strategy
    cursor,     \* last_used_index
    home,       \* pool_id of a node, NoPool when there is no such row
    status,     \* status of a node
    bound,      \* proxy_pool_id of the endpoint, NoPool for NULL
    probe,      \* what a health check under way has loaded
    edits,
    tally,      \* history: round-robin choices of a node since its pool's
                \* healthy nodes or strategy last changed
    again       \* history: those of them after which the cursor was not saved

poolVars  == <<pools, strategy, cursor, home, status, bound, probe, edits, tally, again>>
editables == <<pools, strategy, cursor, home, status>>

NoPool     == 0
PoolIds    == 1 .. MaxPools
NodeIds    == 1 .. MaxNodes
Strategies == {"failover", "random", "round_robin"}
Verdicts   == {"healthy", "dead"}
Statuses   == Verdicts \cup {"unknown"}

\* A health check that is not under way.
Idle == [pool |-> NoPool, seen |-> << >>]

Nodes == {n \in NodeIds : home[n] # NoPool}

\* The nodes a pool can offer, for given homes and statuses of the nodes.
Healthy(h, s, p) == {n \in NodeIds : h[n] = p /\ s[n] = "healthy"}

NextId(ids) == 1 + (IF ids = {} THEN 0 ELSE CHOOSE i \in ids : \A j \in ids : j <= i)

PoolsTypeOK ==
    /\ pools \subseteq PoolIds
    /\ strategy \in [PoolIds -> Strategies] /\ cursor \in [PoolIds -> Nat]
    /\ home \in [NodeIds -> PoolIds \cup {NoPool}] /\ status \in [NodeIds -> Statuses]
    /\ bound \in PoolIds \cup {NoPool}
    /\ \A c \in Checks : /\ probe[c].pool \in PoolIds \cup {NoPool}
                         /\ DOMAIN probe[c].seen \subseteq NodeIds
    /\ edits \in 0 .. MaxEdits
    /\ tally \in [NodeIds -> Nat] /\ again \in [NodeIds -> Nat]

\* A database with one pool, left by an earlier run of the program.
PoolsInit ==
    /\ pools = {1}
    /\ strategy \in {[p \in PoolIds |-> s] : s \in Strategies}
    /\ cursor \in {[p \in PoolIds |-> i] : i \in 0 .. 1}
    /\ home \in [NodeIds -> {1, NoPool}]
    /\ status \in [NodeIds -> Statuses]
    /\ \A n \in NodeIds \ Nodes : status[n] = "unknown"
    /\ bound \in {1, NoPool}
    /\ probe = [c \in Checks |-> Idle]
    /\ edits = 0
    /\ tally = [n \in NodeIds |-> 0] /\ again = tally

-----------------------------------------------------------------------------
(* The REST API                                                            *)

\* The counts start again where the healthy nodes or the strategy changed.
Recount(h, s, strat) ==
    LET same == {n \in NodeIds :
                    /\ h[n] = home[n] /\ h[n] # NoPool /\ strat[h[n]] = strategy[h[n]]
                    /\ Healthy(h, s, h[n]) = Healthy(home, status, h[n])}
    IN  /\ tally' = [n \in NodeIds |-> IF n \in same THEN tally[n] ELSE 0]
        /\ again' = [n \in NodeIds |-> IF n \in same THEN again[n] ELSE 0]

\* One change of the tables, by a request of the user.
Change(ps, strat, cur, h, s) ==
    /\ edits < MaxEdits /\ edits' = edits + 1
    /\ pools' = ps /\ strategy' = strat /\ cursor' = cur /\ home' = h /\ status' = s
    /\ Recount(h, s, strat)
    /\ UNCHANGED <<bound, probe>>

CreatePool(strat) ==
    LET p == NextId(pools)
    IN  /\ p \in PoolIds
        /\ Change(pools \cup {p}, [strategy EXCEPT ![p] = strat],
                  [cursor EXCEPT ![p] = 0], home, status)

UpdatePool(p, strat) ==
    p \in pools /\ Change(pools, [strategy EXCEPT ![p] = strat], cursor, home, status)

\* The nodes go with their pool; an endpoint bound to it keeps the id.
DeletePool(p) ==
    LET gone == {n \in NodeIds : home[n] = p}
    IN  /\ p \in pools
        /\ Change(pools \ {p}, strategy, cursor,
                  [n \in NodeIds |-> IF n \in gone THEN NoPool ELSE home[n]],
                  [n \in NodeIds |-> IF n \in gone THEN "unknown" ELSE status[n]])

AddNode(p) ==
    LET n == NextId(Nodes)
    IN  /\ p \in pools /\ n \in NodeIds
        /\ Change(pools, strategy, cursor, [home EXCEPT ![n] = p],
                  [status EXCEPT ![n] = "unknown"])

\* A change of the address alone leaves the status as it is.
UpdateNode(n, s) ==
    n \in Nodes /\ Change(pools, strategy, cursor, home, [status EXCEPT ![n] = s])

DeleteNode(n) ==
    n \in Nodes /\ Change(pools, strategy, cursor, [home EXCEPT ![n] = NoPool],
                          [status EXCEPT ![n] = "unknown"])

\* update_endpoint takes any id and ignores NULL, so a binding never goes away.
BindPool(p) ==
    /\ edits < MaxEdits /\ edits' = edits + 1
    /\ bound' = p
    /\ UNCHANGED <<pools, strategy, cursor, home, status, probe, tally, again>>

ConfigurePools ==
    \/ \E p \in PoolIds :
          \/ DeletePool(p) \/ AddNode(p) \/ BindPool(p)
          \/ \E s \in Strategies : UpdatePool(p, s)
    \/ \E s \in Strategies : CreatePool(s)
    \/ \E n \in NodeIds : DeleteNode(n) \/ \E s \in Statuses : UpdateNode(n, s)

-----------------------------------------------------------------------------
(* The health check                                                        *)

\* The connection stays with the check until it has written its findings.
StartCheck(c, p) ==
    /\ probe[c] = Idle /\ p \in pools /\ CanCheckOut(1)
    /\ probe' = [probe EXCEPT ![c] =
                    [pool |-> p, seen |-> [n \in {m \in NodeIds : home[m] = p} |-> status[n]]]]
    /\ held' = held \cup {c}
    /\ UNCHANGED <<editables, bound, edits, tally, again>>

\* What the session writes: only a status that differs from the one it loaded
\* is part of the UPDATE.
Findings(c, found) ==
    [n \in NodeIds |->
        IF n \in DOMAIN found /\ found[n] # probe[c].seen[n] THEN found[n] ELSE status[n]]

\* Every loaded node is updated in one transaction.  One that is gone makes the
\* whole transaction fail (StaleDataError); one whose id was given out again is
\* updated in place of the node that was probed.
FinishCheck(c, found) ==
    LET lost == ~ DOMAIN found \subseteq Nodes
        s    == IF lost THEN status ELSE Findings(c, found)
    IN  /\ probe[c] # Idle
        /\ status' = s
        /\ Recount(home, s, strategy)
        /\ probe' = [probe EXCEPT ![c] = Idle]
        /\ held' = held \ {c}
        /\ UNCHANGED <<pools, strategy, cursor, home, bound, edits>>

Probing ==
    \E c \in Checks :
       \/ \E p \in PoolIds : StartCheck(c, p)
       \/ \E found \in [DOMAIN probe[c].seen -> Verdicts] : FinishCheck(c, found)

-----------------------------------------------------------------------------
(* The choice of a node                                                    *)

\* The nodes are listed in the order of their ids, as the relationship loads
\* them: the one that i others come before.
Listed(S, i) == CHOOSE n \in S : Cardinality({m \in S : m < n}) = i

\* Defect: the cursor is read and not advanced.
Advanced_Kept(i) == i

Advanced(i) == i + 1

\* select_node for the pool of the endpoint: without a pool row or a healthy
\* node there is no proxy and the request goes out directly.  `enabled' of the
\* pool is not looked at.  When the cursor cannot be saved, as while another
\* thread keeps the database locked, that is rolled back and logged, the node is
\* used all the same, and the next request gets it again.
SelectNode ==
    LET cands == Healthy(home, status, bound)
        at    == cursor[bound] % Cardinality(cands)
        n     == Listed(cands, at)
    IN  IF bound \in pools /\ cands # {} /\ strategy[bound] = "round_robin"
        THEN /\ tally' = [tally EXCEPT ![n] = @ + 1]
             /\ \/ cursor' = [cursor EXCEPT ![bound] = Advanced(@)] /\ UNCHANGED again
                \/ again' = [again EXCEPT ![n] = @ + 1] /\ UNCHANGED cursor
             /\ UNCHANGED <<pools, strategy, home, status, bound, probe, edits>>
        ELSE UNCHANGED poolVars

-----------------------------------------------------------------------------
(* Properties                                                              *)

\* The requests a node served in its turn: without those after which the cursor
\* was not saved, so that its turn was not over.
SavedTurns(n) == tally[n] - again[n]

\* Between two changes of a pool's healthy nodes or strategy a round-robin pool is
\* rotated: no healthy node has had two turns more than another one, whatever
\* health checks, edits and deletions of other pools and nodes came in between,
\* and however often ids were given out again.  A turn is one request, save that
\* it goes on for another one each time the cursor could not be saved.
RotationEven ==
    \A p \in pools : \A m, n \in Healthy(home, status, p) : SavedTurns(m) <= SavedTurns(n) + 1
=============================================================================
