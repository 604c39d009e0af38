---------------------------- MODULE TerminalView ----------------------------
(***************************************************************************)
(* What the terminal promises to whoever looks at it, without threads,     *)
(* locks, queues or buffers: a connection is bound to one session; it sees *)
(* a gap-free run of that session's output, starting anywhere; once the    *)
(* session is over it may be told so, once, and sees nothing after that.   *)
(***************************************************************************)
EXTENDS Naturals, Sequences

CONSTANTS Sessions, Views, MaxOut, Exit, None

VARIABLES
    made,    \* number of output chunks of each session
    over,    \* the sessions that are over
    seen,    \* the session a connection is bound to
    shown    \* the frames a connection has been sent

viewVars == <<made, over, seen, shown>>

ViewInit ==
    /\ made = [s \in Sessions |-> 0]
    /\ over = [s \in Sessions |-> FALSE]
    /\ seen = [v \in Views |-> None]
    /\ shown = [v \in Views |-> <<>>]

Told(v) == \E i \in DOMAIN shown[v] : shown[v][i] = Exit

Produce(s) ==
    /\ made[s] < MaxOut
    /\ made' = [made EXCEPT ![s] = @ + 1]
    /\ UNCHANGED <<over, seen, shown>>

Finish(s) ==
    /\ over' = [over EXCEPT ![s] = TRUE]
    /\ UNCHANGED <<made, seen, shown>>

Bind(v, s) ==
    /\ seen[v] = None
    /\ seen' = [seen EXCEPT ![v] = s]
    /\ UNCHANGED <<made, over, shown>>

ShowChunk(v, n) ==
    /\ seen[v] # None /\ ~Told(v)
    /\ n <= made[seen[v]]
    /\ shown[v] # <<>> => n = shown[v][Len(shown[v])] + 1
    /\ shown' = [shown EXCEPT ![v] = Append(@, n)]
    /\ UNCHANGED <<made, over, seen>>

ShowExit(v) ==
    /\ seen[v] # None /\ ~Told(v)
    /\ over[seen[v]]
    /\ shown' = [shown EXCEPT ![v] = Append(@, Exit)]
    /\ UNCHANGED <<made, over, seen>>

ViewNext ==
    \/ \E s \in Sessions : Produce(s) \/ Finish(s)
    \/ \E v \in Views, s \in Sessions : Bind(v, s)
    \/ \E v \in Views : ShowExit(v) \/ \E n \in 1 .. MaxOut : ShowChunk(v, n)

ViewSpec == ViewInit /\ [][ViewNext]_viewVars
=============================================================================
