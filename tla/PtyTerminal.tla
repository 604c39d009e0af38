---------------------------- MODULE PtyTerminal ----------------------------
(***************************************************************************)
(* The server side of the web terminal: the registry of PTY sessions, the  *)
(* reader thread of each session, the WebSocket views that attach to a     *)
(* session, the periodic reaper, and the self-heal thread that shares the  *)
(* registry (src/backend/terminal/session.py, router.py, pty.py and the    *)
(* session helpers of selfheal.py).                                        *)
(*                                                                         *)
(* Granularity.  One action is one critical section (session.lock or       *)
(* _registry_lock), one call on the PTY, or one stretch of a coroutine     *)
(* between two awaits.  Everything the asyncio event loop runs is one      *)
(* actor, Loop: while it is inside a synchronous stretch (pc[Loop] # "idle") *)
(* no other coroutine moves, but reader threads and the self-heal thread do. *)
(*                                                                         *)
(* A view is identified with its WebSocket and with the asyncio.Queue that *)
(* attach() makes for it: a connection attaches exactly once.              *)
(***************************************************************************)
EXTENDS Naturals, Sequences, FiniteSets, SequencesExt

CONSTANTS
    Keys,         \* tab ids, the registry keys
    MaxSessions,  \* bound: PtySession objects ever created
    Views,        \* WebSocket connections
    Ponging,      \* the views whose client answers heartbeat pings
    Loop,         \* the asyncio event-loop thread
    Healers,      \* self-heal threads: {} or one thread
    HealKey,      \* HEAL_TAB_KEY
    MaxOut,       \* bound: output chunks per shell
    ChunkSize,    \* bytes of the n-th chunk
    RingMax,      \* RING_MAX_BYTES
    Grace,        \* idle-orphan grace, in ticks of the coarse clock
    KillMayFail,  \* may pty.kill() fail?
    ReadMayFail,  \* may pty.read() fail while the shell runs?
    Reaper,       \* the job of reaper_loop
    Exit,         \* the PtyExit sentinel, and the exit frame made of it
    None

Sessions == 1 .. MaxSessions
Chunks   == 1 .. MaxOut
Items    == Chunks \cup {Exit}
Actors   == {Loop} \cup Healers
Threads  == Actors \cup Sessions    \* the reader thread of s is named s

ASSUME ConstantsAssumption ==
    /\ MaxSessions \in Nat /\ MaxOut \in Nat
    /\ ChunkSize \in [Chunks -> Nat] /\ RingMax \in Nat /\ Grace \in Nat
    /\ KillMayFail \in BOOLEAN /\ ReadMayFail \in BOOLEAN
    /\ HealKey \in Keys /\ Ponging \subseteq Views

ASSUME NamesAssumption ==
    /\ Loop \notin Healers /\ Exit \notin Nat
    /\ Actors \cap Sessions = {} /\ Keys \cap Sessions = {}
    /\ Reaper \notin Views /\ HealKey \notin Views \cup {Reaper}
    /\ None \notin Views \cup Sessions \cup Keys \cup {Reaper}
    /\ None \notin [view : Views, item : Items]

VARIABLES
    registry,     \* _sessions: key -> session or None
    keyOf,        \* tab_key
    shell,        \* the child process: "unborn", "running", "dead"
    stuck,        \* sessions whose kill failed (history)
    unread,       \* output chunks the PTY holds that read() has not returned
    outSeq,       \* chunks published so far; chunk n is the n-th one
    ring, att, exited, exitView, stop,
    idle,         \* ticks since last_output_ts, saturating at Grace
    pong,         \* last_pong_ts: "none", "fresh", "stale"
    rpc,          \* program counter of the reader thread
    hand,         \* the item a thread is about to put on a view's queue
    pc, tgt, job, sweep, doomed, why,    \* an actor inside session.py
    vst,          \* state of the connection's handler
    bound,        \* the handler's session variable
    replay, queue, got,
    pump,         \* the pump task: "off", "run", "done"
    sock,         \* "open", "dropped" (by the client), "closed" (by us)
    closing       \* close_view calls scheduled on the loop

regVars  == <<registry, keyOf>>
ptyVars  == <<shell, stuck, unread>>
sesVars  == <<outSeq, ring, att, exited, exitView, stop, idle, pong>>
actVars  == <<pc, tgt, job, sweep, doomed, why>>
connVars == <<vst, bound, replay, queue, got, pump, sock, closing>>
vars == <<regVars, ptyVars, sesVars, rpc, hand, actVars, connVars>>

ActorPcs  == {"idle", "sweep", "notify", "deliver", "kill", "drop", "unregister",
              "clear", "create", "start", "pid", "attach", "detach", "exitcheck",
              "forget", "enter"}
ReaderPcs == {"off", "top", "read", "empty", "deliver", "after", "notify", "gone"}

RegType ==
    /\ registry \in [Keys -> Sessions \cup {None}]
    /\ keyOf \in [Sessions -> Keys \cup {None}]

PtyType ==
    /\ shell \in [Sessions -> {"unborn", "running", "dead"}]
    /\ stuck \in SUBSET Sessions
    /\ unread \in [Sessions -> 0 .. MaxOut]

SesType ==
    /\ outSeq \in [Sessions -> 0 .. MaxOut]
    /\ ring \in [Sessions -> Seq(Chunks)]
    /\ att \in [Sessions -> Views \cup {None}]
    /\ exited \in [Sessions -> BOOLEAN]
    /\ exitView \in [Sessions -> Views \cup {None}]
    /\ stop \in [Sessions -> BOOLEAN]
    /\ idle \in [Sessions -> 0 .. Grace]
    /\ pong \in [Sessions -> {"none", "fresh", "stale"}]

ThreadType ==
    /\ rpc \in [Sessions -> ReaderPcs]
    /\ hand \in [Threads -> [view : Views, item : Items] \cup {None}]

ActorType ==
    /\ pc \in [Actors -> ActorPcs]
    /\ tgt \in [Actors -> Sessions \cup {None}]
    /\ job \in [Actors -> Views \cup {Reaper, HealKey, None}]
    /\ sweep \in [Actors -> SUBSET Sessions]
    /\ doomed \in [Actors -> Views \cup {None}]
    /\ why \in [Actors -> {"none", "exited", "orphan", "close"}]

ConnType ==
    /\ vst \in [Views -> {"off", "connecting", "replay", "live", "closing", "closed"}]
    /\ bound \in [Views -> Sessions \cup {None}]
    /\ replay \in [Views -> Seq(Chunks)]
    /\ queue \in [Views -> Seq(Items)]
    /\ got \in [Views -> Seq(Items)]
    /\ pump \in [Views -> {"off", "run", "done"}]
    /\ sock \in [Views -> {"open", "dropped", "closed"}]
    /\ closing \in SUBSET Views

TypeOK == RegType /\ PtyType /\ SesType /\ ThreadType /\ ActorType /\ ConnType

-----------------------------------------------------------------------------
(* Initially no session was ever created and no client is connected.       *)

Init ==
    /\ registry = [k \in Keys |-> None]
    /\ keyOf = [s \in Sessions |-> None]
    /\ shell = [s \in Sessions |-> "unborn"]
    /\ stuck = {}
    /\ unread = [s \in Sessions |-> 0]
    /\ outSeq = [s \in Sessions |-> 0]
    /\ ring = [s \in Sessions |-> <<>>]
    /\ att = [s \in Sessions |-> None]
    /\ exited = [s \in Sessions |-> FALSE]
    /\ exitView = [s \in Sessions |-> None]
    /\ stop = [s \in Sessions |-> FALSE]
    /\ idle = [s \in Sessions |-> 0]
    /\ pong = [s \in Sessions |-> "none"]
    /\ rpc = [s \in Sessions |-> "off"]
    /\ hand = [t \in Threads |-> None]
    /\ pc = [a \in Actors |-> "idle"]
    /\ tgt = [a \in Actors |-> None]
    /\ job = [a \in Actors |-> None]
    /\ sweep = [a \in Actors |-> {}]
    /\ doomed = [a \in Actors |-> None]
    /\ why = [a \in Actors |-> "none"]
    /\ vst = [v \in Views |-> "off"]
    /\ bound = [v \in Views |-> None]
    /\ replay = [v \in Views |-> <<>>]
    /\ queue = [v \in Views |-> <<>>]
    /\ got = [v \in Views |-> <<>>]
    /\ pump = [v \in Views |-> "off"]
    /\ sock = [v \in Views |-> "closed"]
    /\ closing = {}

-----------------------------------------------------------------------------
(* Helpers shared by several operations.                                   *)

Registered == {s \in Sessions : \E k \in Keys : registry[k] = s}
Goto(a, l) == pc' = [pc EXCEPT ![a] = l]
Alive(s)   == shell[s] = "running"

Bytes(q)   == FoldSeq(LAMBDA n, total : ChunkSize[n] + total, 0, q)

\* Defect: the ring is never trimmed.
TrimmedAt_Never(q, i) == i = 1

\* q without its first i - 1 chunks is what _publish leaves in the ring: the
\* oldest chunks go until the rest fits, but one chunk always stays.
TrimmedAt(q, i) ==
    LET Fits(j) == j = Len(q) \/ Bytes(SubSeq(q, j, Len(q))) <= RingMax
    IN  Fits(i) /\ \A j \in 1 .. i - 1 : ~Fits(j)

\* deque append on the queue of the view the thread captured under the lock.
Deliver(t) ==
    /\ queue' = [queue EXCEPT ![hand[t].view] = Append(@, hand[t].item)]
    /\ hand' = [hand EXCEPT ![t] = None]

\* Defect: every notice goes out, also to a view that had one.
Untold_Again(s) == att[s] # None

\* The attached view has not been told of the exit yet.
Untold(s) == att[s] # None /\ att[s] # exitView[s]

\* The critical section of notify_exit, run by thread t.
NotifyExit(t, s) ==
    /\ exited' = [exited EXCEPT ![s] = TRUE]
    /\ IF Untold(s)
       THEN /\ exitView' = [exitView EXCEPT ![s] = att[s]]
            /\ hand' = [hand EXCEPT ![t] = [view |-> att[s], item |-> Exit]]
       ELSE UNCHANGED <<exitView, hand>>

-----------------------------------------------------------------------------
(* The shell, and the reader thread of its session.                        *)

ShellOutput(s) ==
    /\ Alive(s) /\ outSeq[s] + unread[s] < MaxOut
    /\ unread' = [unread EXCEPT ![s] = @ + 1]
    /\ UNCHANGED <<shell, stuck, regVars, sesVars, rpc, hand, actVars, connVars>>

ShellExits(s) ==
    /\ Alive(s)
    /\ shell' = [shell EXCEPT ![s] = "dead"]
    /\ UNCHANGED <<stuck, unread, regVars, sesVars, rpc, hand, actVars, connVars>>

\* The while test.
ReaderTop(s) ==
    /\ rpc[s] = "top"
    /\ rpc' = [rpc EXCEPT ![s] = IF stop[s] THEN "after" ELSE "read"]
    /\ UNCHANGED <<regVars, ptyVars, sesVars, hand, actVars, connVars>>

\* read() returns a chunk and _publish records it; the live queue is captured
\* under the same lock and served afterwards, outside it.
ReaderPublish(s) ==
    /\ rpc[s] = "read" /\ unread[s] > 0
    /\ unread' = [unread EXCEPT ![s] = @ - 1]
    /\ outSeq' = [outSeq EXCEPT ![s] = @ + 1]
    /\ LET all == Append(ring[s], outSeq[s] + 1)
       IN  \E i \in 1 .. Len(all) :
              /\ TrimmedAt(all, i)
              /\ ring' = [ring EXCEPT ![s] = SubSeq(all, i, Len(all))]
    /\ idle' = [idle EXCEPT ![s] = 0]
    /\ IF att[s] = None
       THEN rpc' = [rpc EXCEPT ![s] = "top"] /\ UNCHANGED hand
       ELSE /\ rpc' = [rpc EXCEPT ![s] = "deliver"]
            /\ hand' = [hand EXCEPT ![s] = [view |-> att[s], item |-> outSeq[s] + 1]]
    /\ UNCHANGED <<regVars, shell, stuck, att, exited, exitView, stop, pong,
                   actVars, connVars>>

\* Defect: the live queue is looked up after the lock was released.
ReaderDeliver_LateLookup(s) ==
    /\ rpc[s] = "deliver" /\ att[s] # None
    /\ rpc' = [rpc EXCEPT ![s] = IF hand[s].item = Exit THEN "gone" ELSE "top"]
    /\ queue' = [queue EXCEPT ![att[s]] = Append(@, hand[s].item)]
    /\ hand' = [hand EXCEPT ![s] = None]
    /\ UNCHANGED <<regVars, ptyVars, sesVars, actVars,
                   vst, bound, replay, got, pump, sock, closing>>

ReaderDeliver(s) ==
    /\ rpc[s] = "deliver"
    /\ rpc' = [rpc EXCEPT ![s] = IF hand[s].item = Exit THEN "gone" ELSE "top"]
    /\ Deliver(s)
    /\ UNCHANGED <<regVars, ptyVars, sesVars, actVars,
                   vst, bound, replay, got, pump, sock, closing>>

\* read() returns b"": at end of file, or when nothing is there yet.
ReaderEmpty(s) ==
    /\ rpc[s] = "read" /\ unread[s] = 0
    /\ rpc' = [rpc EXCEPT ![s] = "empty"]
    /\ UNCHANGED <<regVars, ptyVars, sesVars, hand, actVars, connVars>>

ReaderAfterEmpty(s) ==
    /\ rpc[s] = "empty"
    /\ rpc' = [rpc EXCEPT ![s] = IF Alive(s) THEN "top" ELSE "after"]
    /\ UNCHANGED <<regVars, ptyVars, sesVars, hand, actVars, connVars>>

\* read() raises PtyError: the loop ends whether or not the shell is dead.
ReaderError(s) ==
    /\ rpc[s] = "read"
    /\ ReadMayFail \/ ~Alive(s)
    /\ rpc' = [rpc EXCEPT ![s] = "after"]
    /\ UNCHANGED <<regVars, ptyVars, sesVars, hand, actVars, connVars>>

\* Defect: the end of the reader is taken for the end of the shell.
ReaderEnds_Unchecked(s) ==
    /\ rpc[s] = "after"
    /\ rpc' = [rpc EXCEPT ![s] = "notify"]
    /\ exited' = [exited EXCEPT ![s] = TRUE]
    /\ UNCHANGED <<regVars, ptyVars, outSeq, ring, att, exitView, stop, idle,
                   pong, hand, actVars, connVars>>

\* After the loop: a dead shell is recorded, a live one loses its reader.
ReaderEnds(s) ==
    /\ rpc[s] = "after"
    /\ IF Alive(s)
       THEN rpc' = [rpc EXCEPT ![s] = "gone"] /\ UNCHANGED exited
       ELSE /\ rpc' = [rpc EXCEPT ![s] = "notify"]
            /\ exited' = [exited EXCEPT ![s] = TRUE]
    /\ UNCHANGED <<regVars, ptyVars, outSeq, ring, att, exitView, stop, idle,
                   pong, hand, actVars, connVars>>

ReaderNotifies(s) ==
    /\ rpc[s] = "notify"
    /\ NotifyExit(s, s)
    /\ rpc' = [rpc EXCEPT ![s] = IF Untold(s) THEN "deliver" ELSE "gone"]
    /\ UNCHANGED <<regVars, ptyVars, outSeq, ring, att, stop, idle, pong,
                   actVars, connVars>>

Reader(s) ==
    \/ ReaderTop(s)     \/ ReaderPublish(s)    \/ ReaderDeliver(s)
    \/ ReaderEmpty(s)   \/ ReaderAfterEmpty(s) \/ ReaderError(s)
    \/ ReaderEnds(s)    \/ ReaderNotifies(s)

-----------------------------------------------------------------------------
(* Killing a session: try_reap, terminate and _kill_and_unregister, run by *)
(* an actor a for the session tgt[a].                                      *)

\* stop_event.set() and the call of _kill_and_unregister.
Condemn(a, s, reason) ==
    /\ stop' = [stop EXCEPT ![s] = TRUE]
    /\ tgt' = [tgt EXCEPT ![a] = s]
    /\ why' = [why EXCEPT ![a] = reason]
    /\ Goto(a, "notify")

\* Defect: only the reader's verdict counts.
Gone_ReaderOnly(s) == exited[s]

\* Defect: a dead session stays while it is watched.
Eligible_Detached(s) == att[s] = None /\ idle[s] >= Grace

\* try_reap, the critical section: which sessions a sweep kills.
Gone(s)     == exited[s] \/ ~Alive(s)
Eligible(s) == Gone(s) \/ (att[s] = None /\ idle[s] >= Grace)

TryReap(a, s) ==
    /\ pc[a] = "sweep" /\ s \in sweep[a]
    /\ sweep' = [sweep EXCEPT ![a] = @ \ {s}]
    /\ IF Eligible(s)
       THEN Condemn(a, s, IF Gone(s) THEN "exited" ELSE "orphan")
       ELSE UNCHANGED <<stop, tgt, why, pc>>
    /\ UNCHANGED <<regVars, ptyVars, outSeq, ring, att, exited, exitView, idle,
                   pong, rpc, hand, job, doomed, connVars>>

KillNotifies(a) ==
    /\ pc[a] = "notify"
    /\ NotifyExit(a, tgt[a])
    /\ Goto(a, IF Untold(tgt[a]) THEN "deliver" ELSE "kill")
    /\ UNCHANGED <<regVars, ptyVars, outSeq, ring, att, stop, idle, pong, rpc,
                   tgt, job, sweep, doomed, why, connVars>>

KillDelivers(a) ==
    /\ pc[a] = "deliver"
    /\ Deliver(a)
    /\ Goto(a, "kill")
    /\ UNCHANGED <<regVars, ptyVars, sesVars, rpc, tgt, job, sweep, doomed, why,
                   vst, bound, replay, got, pump, sock, closing>>

\* pty.kill() when the shell still runs; its failure is logged and forgotten.
KillShell(a) ==
    /\ pc[a] = "kill"
    /\ \/ /\ shell' = [shell EXCEPT ![tgt[a]] = "dead"]
          /\ UNCHANGED stuck
       \/ /\ KillMayFail /\ Alive(tgt[a])
          /\ stuck' = stuck \cup {tgt[a]}
          /\ UNCHANGED shell
    /\ Goto(a, "drop")
    /\ UNCHANGED <<unread, regVars, sesVars, rpc, hand, tgt, job, sweep, doomed, why,
                   connVars>>

\* The second critical section: the view state is captured and cleared.
DropView(a) ==
    /\ pc[a] = "drop"
    /\ exited' = [exited EXCEPT ![tgt[a]] = TRUE]
    /\ doomed' = [doomed EXCEPT ![a] = att[tgt[a]]]
    /\ att' = [att EXCEPT ![tgt[a]] = None]
    /\ Goto(a, "unregister")
    /\ UNCHANGED <<regVars, ptyVars, outSeq, ring, exitView, stop, idle, pong, rpc,
                   hand, tgt, job, sweep, why, connVars>>

\* unregister(tab_key, expected=self)
Unregister(s) ==
    registry' = [k \in Keys |-> IF k = keyOf[s] /\ registry[k] = s THEN None
                                ELSE registry[k]]

KillUnregisters(a) ==
    /\ pc[a] = "unregister"
    /\ Unregister(tgt[a])
    /\ Goto(a, "clear")
    /\ UNCHANGED <<keyOf, ptyVars, sesVars, rpc, hand, tgt, job, sweep, doomed,
                   why, connVars>>

\* An actor sweeps for get_or_create or for the reaper; otherwise it is in the
\* finally block of the handler of the view job[a].
Sweeping(a) == job[a] \in Views => vst[job[a]] = "connecting"

\* The finally block ends with close_view of the handler's own socket.
HandlerEnds(v) ==
    /\ vst' = [vst EXCEPT ![v] = "closed"]
    /\ sock' = [sock EXCEPT ![v] = IF @ = "open" THEN "closed" ELSE @]

ActorRests(a) == Goto(a, "idle") /\ job' = [job EXCEPT ![a] = None]

\* close_view is scheduled for the captured view, if there was one.
ScheduleClose(v) == closing' = closing \cup ({v} \ {None})

\* The captured view's socket is told to close; then the caller goes on.  The
\* tab's pid is cleared before that, if the database lets it be: nothing reads
\* the column, and it is left out.
KillEnds(a) ==
    /\ pc[a] = "clear"
    /\ ScheduleClose(doomed[a])
    /\ doomed' = [doomed EXCEPT ![a] = None]
    /\ tgt' = [tgt EXCEPT ![a] = None]
    /\ why' = [why EXCEPT ![a] = "none"]
    /\ \/ Sweeping(a) /\ Goto(a, "sweep") /\ UNCHANGED <<job, vst, sock>>
       \/ ~Sweeping(a) /\ HandlerEnds(job[a]) /\ ActorRests(a)
    /\ UNCHANGED <<regVars, ptyVars, sesVars, rpc, hand, sweep, bound, replay,
                   queue, got, pump>>

KillPath(a) ==
    \/ KillNotifies(a) \/ KillDelivers(a)    \/ KillShell(a)
    \/ DropView(a)     \/ KillUnregisters(a) \/ KillEnds(a)

-----------------------------------------------------------------------------
(* get_or_create and reap_idle.                                            *)

Unborn == {s \in Sessions : shell[s] = "unborn"}

\* reap_idle copies the registry, then looks at each session.
Snapshot(a) ==
    /\ sweep' = [sweep EXCEPT ![a] = Registered]
    /\ Goto(a, "sweep")

SweepEnds(a) ==
    /\ pc[a] = "sweep" /\ sweep[a] = {}
    /\ IF job[a] = Reaper THEN ActorRests(a) ELSE Goto(a, "create") /\ UNCHANGED job
    /\ UNCHANGED <<regVars, ptyVars, sesVars, rpc, hand, tgt, sweep, doomed, why,
                   connVars>>

\* reaper_loop wakes up.
ReaperWakes ==
    /\ pc[Loop] = "idle"
    /\ job' = [job EXCEPT ![Loop] = Reaper]
    /\ Snapshot(Loop)
    /\ UNCHANGED <<regVars, ptyVars, sesVars, rpc, hand, tgt, doomed, why, connVars>>

\* The tab id of a connection is whatever the client put in the URL.
JobKeys(a) == IF a = Loop THEN Keys ELSE {HealKey}

\* A healer is done once it has a session; a connection attaches to it.
HasSession(a) ==
    IF a = Loop THEN Goto(a, "attach") /\ UNCHANGED job ELSE ActorRests(a)

\* Defect: the registry is not looked up again under its lock.
Vacant_Unchecked(k) == TRUE
Vacant(k)           == registry[k] = None

FindSession(a) ==
    /\ pc[a] = "create"
    /\ \E k \in JobKeys(a) :
          /\ ~Vacant(k)
          /\ tgt' = [tgt EXCEPT ![a] = IF a = Loop THEN registry[k] ELSE None]
    /\ HasSession(a)
    /\ UNCHANGED <<regVars, ptyVars, sesVars, rpc, hand, sweep, doomed, why, connVars>>

\* spawn_shell, create_tab and the insertion, all under the registry lock.
Spawn(a) ==
    /\ pc[a] = "create"
    /\ \E k \in JobKeys(a), s \in Unborn :
          /\ Vacant(k)
          /\ \A u \in Unborn : s <= u
          /\ shell' = [shell EXCEPT ![s] = "running"]
          /\ keyOf' = [keyOf EXCEPT ![s] = k]
          /\ registry' = [registry EXCEPT ![k] = s]
          /\ tgt' = [tgt EXCEPT ![a] = s]
    /\ Goto(a, "start")
    /\ UNCHANGED <<stuck, unread, sesVars, rpc, hand, job, sweep, doomed, why,
                   connVars>>

\* spawn_shell raises PtyError: the handler closes its socket, the healer gives
\* up.  Beyond the bound MaxSessions this is the only outcome.
SpawnFails(a) ==
    /\ pc[a] = "create"
    /\ \E k \in JobKeys(a) : Vacant(k)
    /\ IF a = Loop THEN HandlerEnds(job[a]) ELSE UNCHANGED <<vst, sock>>
    /\ ActorRests(a)
    /\ UNCHANGED <<regVars, ptyVars, sesVars, rpc, hand, tgt, sweep, doomed, why,
                   bound, replay, queue, got, pump, closing>>

StartReader(a) ==
    /\ pc[a] = "start"
    /\ rpc' = [rpc EXCEPT ![tgt[a]] = "top"]
    /\ Goto(a, "pid")
    /\ UNCHANGED <<regVars, ptyVars, sesVars, hand, tgt, job, sweep, doomed, why,
                   connVars>>

\* The pid is written to the tab's row, if the database lets it be (see
\* KillEnds), and get_or_create returns.
Created(a) ==
    /\ pc[a] = "pid"
    /\ tgt' = [tgt EXCEPT ![a] = IF a = Loop THEN @ ELSE None]
    /\ HasSession(a)
    /\ UNCHANGED <<regVars, ptyVars, sesVars, rpc, hand, sweep, doomed, why,
                   connVars>>

GetOrCreate(a) ==
    \/ \E s \in Sessions : TryReap(a, s)
    \/ SweepEnds(a)   \/ FindSession(a) \/ Spawn(a)
    \/ SpawnFails(a)  \/ StartReader(a) \/ Created(a)

-----------------------------------------------------------------------------
(* _ensure_heal_session: the self-heal thread's way to its session.        *)

SessionAlive(s) == Alive(s) /\ ~exited[s]

\* A live session under HEAL_TAB_KEY is reused (no step); a dead one is dropped
\* from the registry first.
HealEnsures(a) ==
    /\ a \in Healers /\ pc[a] = "idle"
    /\ LET s == registry[HealKey]
       IN  IF s = None
           THEN Snapshot(a) /\ UNCHANGED tgt
           ELSE /\ ~SessionAlive(s)
                /\ tgt' = [tgt EXCEPT ![a] = s]
                /\ Goto(a, "forget")
                /\ UNCHANGED sweep
    /\ job' = [job EXCEPT ![a] = HealKey]
    /\ UNCHANGED <<regVars, ptyVars, sesVars, rpc, hand, doomed, why, connVars>>

HealForgets(a) ==
    /\ pc[a] = "forget"
    /\ Unregister(tgt[a])
    /\ tgt' = [tgt EXCEPT ![a] = None]
    /\ Goto(a, "enter")
    /\ UNCHANGED <<keyOf, ptyVars, sesVars, rpc, hand, job, sweep, doomed, why,
                   connVars>>

HealEnters(a) ==
    /\ pc[a] = "enter"
    /\ Snapshot(a)
    /\ UNCHANGED <<regVars, ptyVars, sesVars, rpc, hand, tgt, job, doomed, why,
                   connVars>>

Heal(a) == HealEnsures(a) \/ HealForgets(a) \/ HealEnters(a)

-----------------------------------------------------------------------------
(* A connection: terminal_ws, its pump and its heartbeat.                  *)

LoopFree  == pc[Loop] = "idle"
LoopJob(v) == job' = [job EXCEPT ![Loop] = v]

\* accept(), then get_or_create, which sweeps first.
Connect(v) ==
    /\ LoopFree /\ vst[v] = "off"
    /\ vst' = [vst EXCEPT ![v] = "connecting"]
    /\ sock' = [sock EXCEPT ![v] = "open"]
    /\ LoopJob(v)
    /\ Snapshot(Loop)
    /\ UNCHANGED <<regVars, ptyVars, sesVars, rpc, hand, tgt, doomed, why,
                   bound, replay, queue, got, pump, closing>>

\* PtySession.attach: replay and live queue change hands under one lock.
Attach(v) ==
    /\ pc[Loop] = "attach" /\ v = job[Loop]
    /\ LET s == tgt[Loop]
       IN  /\ bound' = [bound EXCEPT ![v] = s]
           /\ replay' = [replay EXCEPT ![v] = ring[s]]
           /\ queue' = [queue EXCEPT ![v] = IF exited[s] THEN <<Exit>> ELSE <<>>]
           /\ att' = [att EXCEPT ![s] = v]
           /\ exitView' = [exitView EXCEPT ![s] = IF exited[s] THEN v ELSE None]
           /\ pong' = [pong EXCEPT ![s] = "none"]
    /\ vst' = [vst EXCEPT ![v] = "replay"]
    /\ tgt' = [tgt EXCEPT ![Loop] = None]
    /\ ActorRests(Loop)
    /\ UNCHANGED <<regVars, ptyVars, outSeq, ring, exited, stop, idle, rpc, hand,
                   sweep, doomed, why, got, pump, sock, closing>>

\* One awaited send of the catch-up loop.
SendReplay(v) ==
    /\ LoopFree /\ vst[v] = "replay" /\ sock[v] = "open" /\ replay[v] # <<>>
    /\ got' = [got EXCEPT ![v] = Append(@, Head(replay[v]))]
    /\ replay' = [replay EXCEPT ![v] = Tail(@)]
    /\ UNCHANGED <<regVars, ptyVars, sesVars, rpc, hand, actVars,
                   vst, bound, queue, pump, sock, closing>>

\* The catch-up is over, or a send failed: the pump and the heartbeat start.
StartPump(v) ==
    /\ LoopFree /\ vst[v] = "replay"
    /\ replay[v] = <<>> \/ sock[v] # "open"
    /\ replay' = [replay EXCEPT ![v] = <<>>]
    /\ vst' = [vst EXCEPT ![v] = "live"]
    /\ pump' = [pump EXCEPT ![v] = "run"]
    /\ UNCHANGED <<regVars, ptyVars, sesVars, rpc, hand, actVars,
                   bound, queue, got, sock, closing>>

\* Defect: the pump goes on after the exit frame.
PumpSends_PastExit(v) ==
    /\ LoopFree /\ pump[v] = "run" /\ queue[v] # <<>>
    /\ got' = [got EXCEPT ![v] = IF sock[v] = "open" THEN Append(@, Head(queue[v])) ELSE @]
    /\ queue' = [queue EXCEPT ![v] = Tail(@)]
    /\ UNCHANGED <<regVars, ptyVars, sesVars, rpc, hand, actVars,
                   vst, bound, replay, pump, sock, closing>>

\* The pump sends one item; the sentinel becomes the exit frame and a close,
\* even when the frame cannot be sent.
PumpSends(v) ==
    /\ LoopFree /\ pump[v] = "run" /\ queue[v] # <<>>
    /\ LET item == Head(queue[v])
           sent == sock[v] = "open"
       IN  /\ got' = [got EXCEPT ![v] = IF sent THEN Append(@, item) ELSE @]
           /\ pump' = [pump EXCEPT ![v] = IF sent /\ item # Exit THEN @ ELSE "done"]
           /\ sock' = [sock EXCEPT ![v] = IF sent /\ item = Exit THEN "closed" ELSE @]
    /\ queue' = [queue EXCEPT ![v] = Tail(@)]
    /\ UNCHANGED <<regVars, ptyVars, sesVars, rpc, hand, actVars,
                   vst, bound, replay, closing>>

\* An inbound {"type": "pong"} frame, taken by the session of this handler.
Pong(v) ==
    /\ v \in Ponging /\ LoopFree /\ vst[v] = "live" /\ sock[v] = "open"
    /\ pong' = [pong EXCEPT ![bound[v]] = "fresh"]
    /\ UNCHANGED <<regVars, ptyVars, outSeq, ring, att, exited, exitView, stop, idle, rpc, hand, actVars, connVars>>

\* PONG_TIMEOUT_SECONDS pass.
PongAges(s) ==
    /\ pong[s] = "fresh"
    /\ pong' = [pong EXCEPT ![s] = "stale"]
    /\ UNCHANGED <<regVars, ptyVars, outSeq, ring, att, exited, exitView, stop, idle, rpc, hand, actVars, connVars>>

\* Defect: whichever view is attached goes.
DetachView_Any(s, v) == att' = [att EXCEPT ![s] = None]
\* PtySession.detach
DetachView(s, v)      == att' = [att EXCEPT ![s] = IF @ = v THEN None ELSE @]

\* The heartbeat of v finds the session's view stale, whichever view it is.
HeartbeatDrops(v) ==
    /\ LoopFree /\ vst[v] = "live" /\ sock[v] = "open"
    /\ att[bound[v]] # None /\ pong[bound[v]] = "stale"
    /\ DetachView(bound[v], v)
    /\ sock' = [sock EXCEPT ![v] = "closed"]
    /\ UNCHANGED <<regVars, ptyVars, outSeq, ring, exited, exitView, stop, idle, pong,
                   rpc, hand, actVars, vst, bound, replay, queue, got, pump, closing>>

\* An inbound {"type": "close"}: the finally block cancels the pump, then
\* terminates the session.
ReceiveClose(v) ==
    /\ LoopFree /\ vst[v] = "live" /\ sock[v] = "open"
    /\ vst' = [vst EXCEPT ![v] = "closing"]
    /\ pump' = [pump EXCEPT ![v] = "done"]
    /\ LoopJob(v)
    /\ Condemn(Loop, bound[v], "close")
    /\ UNCHANGED <<regVars, ptyVars, outSeq, ring, att, exited, exitView, idle,
                   pong, rpc, hand, sweep, doomed, bound, replay, queue, got, sock,
                   closing>>

\* The receive loop ends because the socket did, from either side.
ReceiveEnds(v) ==
    /\ LoopFree /\ vst[v] = "live" /\ sock[v] # "open"
    /\ vst' = [vst EXCEPT ![v] = "closing"]
    /\ pump' = [pump EXCEPT ![v] = "done"]
    /\ LoopJob(v)
    /\ tgt' = [tgt EXCEPT ![Loop] = bound[v]]
    /\ Goto(Loop, "detach")
    /\ UNCHANGED <<regVars, ptyVars, sesVars, rpc, hand, sweep, doomed, why,
                   bound, replay, queue, got, sock, closing>>

Detach(v) ==
    /\ pc[Loop] = "detach" /\ v = job[Loop]
    /\ DetachView(tgt[Loop], v)
    /\ Goto(Loop, "exitcheck")
    /\ UNCHANGED <<regVars, ptyVars, outSeq, ring, exited, exitView, stop, idle, pong,
                   rpc, hand, tgt, job, sweep, doomed, why, connVars>>

\* if session.exited: terminate("pty exited"), else leave the shell alone.
ExitCheck(v) ==
    /\ pc[Loop] = "exitcheck" /\ v = job[Loop]
    /\ IF exited[tgt[Loop]]
       THEN Condemn(Loop, tgt[Loop], "exited") /\ UNCHANGED <<job, vst, sock>>
       ELSE /\ tgt' = [tgt EXCEPT ![Loop] = None]
            /\ HandlerEnds(v) /\ ActorRests(Loop)
            /\ UNCHANGED <<stop, why>>
    /\ UNCHANGED <<regVars, ptyVars, outSeq, ring, att, exited, exitView, idle,
                   pong, rpc, hand, sweep, doomed, bound, replay, queue, got, pump,
                   closing>>

\* A close_view that _kill_and_unregister scheduled on the loop.
CloseView(v) ==
    /\ LoopFree /\ v \in closing
    /\ closing' = closing \ {v}
    /\ sock' = [sock EXCEPT ![v] = IF @ = "open" THEN "closed" ELSE @]
    /\ UNCHANGED <<regVars, ptyVars, sesVars, rpc, hand, actVars,
                   vst, bound, replay, queue, got, pump>>

ClientDrops(v) ==
    /\ sock[v] = "open"
    /\ sock' = [sock EXCEPT ![v] = "dropped"]
    /\ UNCHANGED <<regVars, ptyVars, sesVars, rpc, hand, actVars,
                   vst, bound, replay, queue, got, pump, closing>>

Handler(v) ==
    \/ Attach(v)      \/ SendReplay(v) \/ StartPump(v) \/ PumpSends(v)
    \/ ReceiveEnds(v) \/ Detach(v)     \/ ExitCheck(v) \/ CloseView(v)
    \/ HeartbeatDrops(v)

Client(v) == Connect(v) \/ Pong(v) \/ ReceiveClose(v) \/ ClientDrops(v)

-----------------------------------------------------------------------------
(* A tick of the coarse clock by which the reaper measures idleness.       *)

Older(age) == IF age < Grace THEN age + 1 ELSE age

Tick ==
    /\ idle' = [s \in Sessions |-> IF Alive(s) THEN Older(idle[s]) ELSE idle[s]]
    /\ UNCHANGED <<regVars, ptyVars, outSeq, ring, att, exited, exitView, stop, pong,
                   rpc, hand, actVars, connVars>>

Next ==
    \/ \E s \in Sessions : ShellOutput(s) \/ ShellExits(s) \/ Reader(s) \/ PongAges(s)
    \/ \E a \in Actors : KillPath(a) \/ GetOrCreate(a) \/ Heal(a)
    \/ \E v \in Views : Handler(v) \/ Client(v)
    \/ ReaperWakes
    \/ Tick

Spec == Init /\ [][Next]_vars

(* Fairness.  Threads are scheduled by the OS.  The event loop runs its    *)
(* ready callbacks in FIFO order, so a coroutine that is ready again and   *)
(* again, whenever the loop is free, gets its turn: strong fairness.       *)
(* reaper_loop sleeps a fixed time between sweeps.  Nothing is assumed of  *)
(* shells, clients, the clock or the start of self-heal runs.              *)
Fairness ==
    /\ \A s \in Sessions : WF_vars(Reader(s))
    /\ \A a \in Actors : WF_vars(KillPath(a) \/ GetOrCreate(a))
    /\ \A a \in Healers : WF_vars(HealForgets(a) \/ HealEnters(a))
    /\ \A v \in Views :
          /\ WF_vars(Attach(v) \/ Detach(v) \/ ExitCheck(v))
          /\ SF_vars(SendReplay(v) \/ StartPump(v) \/ PumpSends(v) \/ ReceiveEnds(v)
                       \/ CloseView(v))
    /\ SF_vars(ReaperWakes)

FairSpec == Spec /\ Fairness

-----------------------------------------------------------------------------
(* Safety                                                                  *)

IsChunk(i) == i # Exit

\* The j-th item of q is the first chunk after the chunk at i.
FollowsIn(q, i, j) ==
    /\ i < j /\ IsChunk(q[i]) /\ IsChunk(q[j])
    /\ \A k \in i + 1 .. j - 1 : ~IsChunk(q[k])

Unbroken(q) == \A i, j \in 1 .. Len(q) : FollowsIn(q, i, j) => q[j] = q[i] + 1

\* The last chunk of q is the n-th, or q has none and none was published.
UpTo(q, n) ==
    \/ n = 0 /\ \A i \in 1 .. Len(q) : ~IsChunk(q[i])
    \/ \E i \in 1 .. Len(q) :
          /\ IsChunk(q[i]) /\ q[i] = n
          /\ \A k \in i + 1 .. Len(q) : ~IsChunk(q[k])

\* What an open view has shown and will still show: frames sent, replay left,
\* live queue, and the chunk its session's reader holds for it.
Coming(v) == got[v] \o replay[v] \o queue[v]

Stream(v) ==
    LET h == hand[bound[v]]
    IN  IF h # None /\ h.view = v /\ IsChunk(h.item)
        THEN Append(Coming(v), h.item) ELSE Coming(v)

\* A chunk is never lost to an open view, shown twice or out of order, however
\* attach() interleaves with the reader's _publish and _deliver; and the view
\* that is attached misses nothing of what has been published.
StreamUnbroken ==
    \A v \in Views :
        (bound[v] # None /\ sock[v] = "open") =>
            /\ Unbroken(Stream(v))
            /\ att[bound[v]] = v => UpTo(Stream(v), outSeq[bound[v]])

\* The catch-up buffer is a gap-free suffix of the output that ends with the
\* newest chunk and overflows its cap only as a single chunk (_publish).
RingIsRecent ==
    \A s \in Sessions :
        /\ Len(ring[s]) <= outSeq[s]
        /\ outSeq[s] > 0 => ring[s] # <<>>
        /\ \A i \in DOMAIN ring[s] : ring[s][i] = outSeq[s] - Len(ring[s]) + i
        /\ Len(ring[s]) > 1 => Bytes(ring[s]) <= RingMax

\* The stages of _kill_and_unregister before the registry entry goes.
BeingKilled(s) ==
    \E a \in Actors : tgt[a] = s /\ pc[a] \in {"notify", "deliver", "kill"}

\* A running shell that the registry does not know can never be reattached or
\* reaped: it exists only while a kill path is about to kill it, or after the
\* kill failed.
NoOrphanShell ==
    \A s \in Sessions :
        Alive(s) /\ s \notin Registered => BeingKilled(s) \/ s \in stuck

\* An exit frame is shown only of a session that is over: its shell is dead, or
\* a kill path is past notify_exit, or its kill failed.
ExitFrameHonest ==
    \A v \in Views :
        (\E i \in DOMAIN got[v] : got[v][i] = Exit) =>
            /\ exited[bound[v]]
            /\ Alive(bound[v]) => BeingKilled(bound[v]) \/ bound[v] \in stuck

\* Where an exit sentinel for v is: in a thread's hand, or among what v was
\* and will be sent.
InHand(t, v)  == hand[t] # None /\ hand[t].view = v /\ hand[t].item = Exit
InStream(v)   == {i \in DOMAIN Coming(v) : Coming(v)[i] = Exit}
Carriers(v)   == {t \in Threads : InHand(t, v)}

\* The view that a kill path has let go of, and will close.
Dismissed(v) == v \in closing \/ \E a \in Actors : doomed[a] = v

\* A view is told of the end at most once, whichever of the reader thread, the
\* kill paths of two threads and attach() gets there first ("at most once per
\* view", notify_exit); and a view that is dismissed, be it one that attached
\* after try_reap had decided, is told, since the notice goes out "BEFORE the
\* view state is cleared" (_kill_and_unregister).
ToldOnce ==
    \A v \in Views :
        /\ \A t, u \in Carriers(v) : t = u
        /\ \A i, j \in InStream(v) : i = j
        /\ Carriers(v) = {} \/ InStream(v) = {}
        /\ Dismissed(v) /\ sock[v] = "open" => InStream(v) # {} \/ Carriers(v) # {}

-----------------------------------------------------------------------------
(* What makes the above inductive.                                         *)

HasTarget == {"notify", "deliver", "kill", "drop", "unregister", "clear", "start",
              "pid", "attach", "detach", "exitcheck", "forget"}

\* A program counter vouches for the variables its next step reads.
Control ==
    /\ \A a \in Actors : pc[a] \in HasTarget => tgt[a] \in Sessions
    /\ \A a \in Actors : pc[a] = "deliver" => hand[a] # None
    /\ \A s \in Sessions : rpc[s] = "deliver" => hand[s] # None
    /\ pc[Loop] # "idle" => job[Loop] \in Views \cup {Reaper}
    /\ pc[Loop] \in {"create", "attach", "detach", "exitcheck"} => job[Loop] \in Views
    /\ pc[Loop] \in {"start", "pid"} => job[Loop] \in Views
    /\ \A v \in Views : vst[v] \in {"replay", "live", "closing"} => bound[v] \in Sessions
    /\ \A s \in Sessions : outSeq[s] + unread[s] <= MaxOut

Born(s) == shell[s] # "unborn"

\* Sessions in use were spawned; past the kill stage the shell is dead or could
\* not be killed; a session marked exited runs on only until its kill.
Lifecycle ==
    /\ \A s \in Sessions : ~Born(s) => ~exited[s] /\ s \notin stuck /\ s \notin Registered
    /\ \A a \in Actors : \A s \in sweep[a] : Born(s)
    /\ \A v \in Views : bound[v] \in Sessions => Born(bound[v])
    /\ \A a \in Actors : pc[a] \in HasTarget => Born(tgt[a])
    /\ \A a \in Actors :
          pc[a] \in {"drop", "unregister", "clear"} => ~Alive(tgt[a]) \/ tgt[a] \in stuck
    /\ \A a \in Actors : pc[a] = "forget" => ~SessionAlive(tgt[a])
    /\ \A s \in Sessions : rpc[s] # "off" => Born(s)
    /\ \A s \in Sessions : rpc[s] = "notify" => ~Alive(s)
    /\ \A s \in Sessions : exited[s] /\ Alive(s) => BeingKilled(s) \/ s \in stuck

-----------------------------------------------------------------------------
(* The promise to a viewer.                                                *)

View == INSTANCE TerminalView
            WITH made <- outSeq, over <- exited, seen <- bound, shown <- got

\* Every step of the threads, tasks and actors above is, for whoever looks at a
\* terminal, a step of TerminalView or no step at all.
KeepsPromise == View!ViewSpec

-----------------------------------------------------------------------------
(* Action properties                                                       *)

\* A view loses its session only when the session ends, its own handler is
\* finishing or its own heartbeat drops it: the teardown of an older connection
\* never detaches the newer view that took the session over (detach).
OnlyOwnDetach ==
    [][\A s \in Sessions :
          (att[s] # None /\ att'[s] = None) =>
             exited'[s] \/ job[Loop] = att[s] \/ sock'[att[s]] = "closed"]_vars

-----------------------------------------------------------------------------
(* Liveness                                                                *)

\* The view attached to a dead shell does not hang: its socket ends, unless
\* another connection takes the session over.
ViewOfDeadShellEnds ==
    \A s \in Sessions, v \in Views :
        (att[s] = v /\ shell[s] = "dead") ~> (sock[v] # "open" \/ att[s] \notin {v, None})

\* A dead session leaves the registry, also when its reader thread is long gone
\* and nobody is attached.
DeadSessionReclaimed ==
    \A s \in Sessions, k \in Keys :
        (registry[k] = s /\ shell[s] = "dead") ~> (registry[k] # s)
============================================================================
