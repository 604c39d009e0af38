------------------------------- MODULE MCGateway -------------------------------
(***************************************************************************)
(* Instances for TLC of systems that share little state: the choice of an  *)
(* account, the HTTP surfaces of the gateway, the proxy pools under the    *)
(* endpoints' requests, the chat playground over the gateway, and the      *)
(* conversation of an agent.  part says which of them a behaviour is       *)
(* about; the others stay in their first state, so the numbers of states   *)
(* add up instead of multiplying.                                          *)
(***************************************************************************)
EXTENDS AccountSelection, ChatSessions, AgentLoop, TLC

CONSTANTS c1, c2, lookup, repair

VARIABLE part

mcVars == <<vars, playVars, loopVars, part>>

MCSavers == <<"caveman", "ponytail">>

MCOwner == [a \in Accounts |-> "p"]

\* Calls start alike and only differ in what becomes of them: they are numbered
\* in the order of their start.
InOrder(S) == {c \in S : phase[c] = "new" => \A d \in S : d < c => phase[d] # "new"}

\* Where every kind of request is the subject, two of them, or two checks or
\* errands, exhaust the connections.  The pools are rotated by all requests of one kind,
\* one after the other: a choice is one step, wherever the other calls are.
Calling == IF part = "http" THEN {r \in Requests : \E d \in Requests : r < d}
           ELSE {r \in Requests : \A d \in Requests : phase[d] \in {"new", "ended"}}
Asked   == IF part = "http" THEN Asks
           ELSE {a \in ByEndpoint : a.surface = "chat" /\ ~ a.stream /\ a.target = "provider"}

\* The first state of the pools where nothing depends on them.
PlainPools ==
    /\ strategy = [p \in PoolIds |-> "failover"] /\ cursor = [p \in PoolIds |-> 0]
    /\ home = [n \in NodeIds |-> NoPool] /\ bound = NoPool

MCInit ==
    /\ part \in {"accounts", "http", "pools", "chat", "agent"}
    /\ Init /\ PlayInit /\ LoopInit /\ own = <<"caveman">>
    /\ part # "accounts" => book.token = [a \in Accounts |-> "valid"]
    /\ IF part = "pools" THEN bound = 1 /\ strategy[1] = "round_robin" ELSE PlainPools

\* One check at a time where the nodes are edited as well.
OneCheck == part = "pools" => probe[c2] = Idle /\ probe'[c2] = Idle

Choosing  == part = "accounts" /\ UNCHANGED <<playVars, loopVars, part>>
Http      == part = "http" /\ UNCHANGED <<vars, chatVars, loopVars, part>>
Pools     == part = "pools" /\ UNCHANGED <<vars, chatVars, loopVars, part>>
Routes    == Http \/ Pools
Chat      == part = "chat" /\ UNCHANGED <<vars, loopVars, part>>
Beside    == part \in {"http", "chat"} /\ UNCHANGED <<vars, chatVars, loopVars, part>>
Agent     == part = "agent" /\ UNCHANGED <<vars, playVars, part>>

MCNext ==
    \/ \E p \in Providers, pin \in Accounts \cup {Legacy} :
          Choosing /\ Select(p, pin)
    \/ \E a \in Accounts : Choosing /\ Disturb(a)
    \/ \E a \in Accounts : Choosing /\ Ages(a)
    \/ Choosing /\ Restart
    \/ \E r \in InOrder(Calling) : \E a \in Asked : Routes /\ Starve(r, a)
    \/ \E r \in InOrder(Calling) : \E a \in Asked : Http /\ Refuse(r, a)
    \/ \E r \in InOrder(Calling) : \E a \in Asked : Routes /\ CallUpstream(r, a)
    \/ \E r \in Requests : Http /\ Answered(r)
    \/ \E r \in Requests : Http /\ Mangled(r)
    \/ \E r \in Requests : Routes /\ Failed(r)
    \/ \E r \in Requests : Http /\ Primed(r)
    \/ \E r \in Requests : Routes /\ Log(r)
    \/ \E r \in Requests : Http /\ Told(r)
    \/ \E r \in Requests : Http /\ Eof(r)
    \/ \E r \in Requests : Http /\ Cut(r)
    \/ \E r \in Requests : Http /\ Leave(r)
    \/ Pools /\ Configures
    \/ Routes /\ Probes /\ OneCheck
    \/ \E w \in Errands : Beside /\ Borrow(w)
    \/ \E w \in Errands : Beside /\ GiveBack(w)
    \/ \E b \in BOOLEAN : Chat /\ CreateSession(b)
    \/ \E s \in Sids : Chat /\ UpdateSession(s)
    \/ \E s \in Sids : Chat /\ DeleteSession(s)
    \/ \E t \in InOrder(Turns) : \E s \in Sids : Chat /\ Ask(t, s)
    \/ \E t \in InOrder(Turns) : Chat /\ AskInVain(t)
    \/ \E t \in Turns : Chat /\ Submit(t)
    \/ \E t \in Turns : Chat /\ StreamStops(t)
    \/ \E t \in Turns : \E b \in BOOLEAN : Chat /\ Store(t, b)
    \/ \E t \in Turns : Chat /\ Elsewhere(t)
    \/ Agent /\ UserWrites
    \/ \E f \in Formats, on \in {{}, {"caveman", "ponytail"}} : Agent /\ Send(f, on)
    \/ \E f \in Formats : \E s \in Shapes(f), w \in {"done", "tools", "limit", "filter"} :
          Agent /\ Answer(s, w)
    \/ Agent /\ Fail

MCSpec == MCInit /\ [][MCNext]_mcVars
=============================================================================
