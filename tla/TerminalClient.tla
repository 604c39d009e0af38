---------------------------- MODULE TerminalClient ----------------------------
(***************************************************************************)
(* The life of one terminal tab as the browser sees it (static/terminal.js): *)
(* its WebSockets, the reconnect timer, the watchdog that looks for server  *)
(* pings, the page that is hidden, frozen, discarded and reloaded, and the  *)
(* id kept in sessionStorage; against the server cut down to what a client  *)
(* can tell of it (terminal/router.py; PtyTerminal has its threads).        *)
(*                                                                         *)
(* A hidden page may be frozen: nothing is assumed of its scripts.  The     *)
(* close event of a socket comes after the frames the server sent before,   *)
(* unless the connection broke.                                            *)
(***************************************************************************)
EXTENDS Naturals, Sequences, SequencesExt

CONSTANTS
    MaxSocks,     \* bound: WebSocket objects ever created
    MaxTroubles   \* bound: broken connections, failed spawns, discarded pages

ASSUME ClientAssumption ==
    MaxSocks \in Nat \ {0} /\ MaxTroubles \in Nat

Socks == 1 .. MaxSocks
None  == 0

VARIABLES
    page,     \* "visible", "hidden", or "gone": discarded
    front,    \* whether the tab is the active one of its page (activeId)
    tab,      \* the tab object; open means not userClosed
    saved,    \* whether sessionStorage holds its id
    sock,     \* the WebSockets, their connection and the frames on the way
    used,     \* how many there are
    srv,      \* the server's handler of each
    shell,    \* whether the shell of the tab's session runs
    quiet,    \* whether it printed nothing for the reaper's grace period
    att,      \* PtySession.attached
    pong,     \* PtySession.last_pong_ts: "none", "fresh" or "stale"
    troubles,
    ended,    \* history: how the tab was closed
    seen      \* history: whether that shell is the one the tab was connected to

serverVars == <<srv, shell, quiet, att, pong>>
pageVars == <<page, front>>
vars == <<pageVars, tab, saved, sock, used, serverVars, troubles, ended, seen>>

Frames == {"ping", "exit", "over", "failed"}

TypeOK ==
    /\ page \in {"visible", "hidden", "gone"} /\ front \in BOOLEAN
    /\ tab \in [open : BOOLEAN, ws : 0 .. used, timer : BOOLEAN, watch : BOOLEAN,
                force : BOOLEAN, pinged : {"never", "fresh", "quiet"}]
    /\ saved \in BOOLEAN /\ used \in 0 .. MaxSocks
    /\ sock \in [Socks -> [state : {"none", "connecting", "open", "closing", "closed"},
                           up : BOOLEAN, down : Seq(Frames),
                           sent : {"nothing", "bye", "kill"}]]
    /\ srv \in [Socks -> {"none", "live", "done"}]
    /\ shell \in BOOLEAN /\ quiet \in BOOLEAN /\ (quiet => shell)
    /\ att \in 0 .. used /\ (front => tab.open)
    /\ att # None => srv[att] = "live" /\ shell
    /\ pong \in {"none", "fresh", "stale"}
    /\ troubles \in 0 .. MaxTroubles
    /\ ended \in {"no", "user", "exit"} /\ seen \in BOOLEAN /\ (seen => shell)

-----------------------------------------------------------------------------
(* Opening and closing.                                                    *)

NoSock  == [state |-> "none", up |-> FALSE, down |-> <<>>, sent |-> "nothing"]
NewSock == [state |-> "connecting", up |-> TRUE, down |-> <<>>, sent |-> "nothing"]
NewTab(ws) ==
    [open |-> TRUE, ws |-> ws, timer |-> FALSE, watch |-> FALSE, force |-> FALSE,
     pinged |-> "never"]
NoTab == [NewTab(None) EXCEPT !.open = FALSE]

\* openTab: the tab was just opened by the user.
Init ==
    /\ page = "visible" /\ front = TRUE /\ tab = NewTab(1) /\ saved = TRUE
    /\ sock = [[s \in Socks |-> NoSock] EXCEPT ![1] = NewSock] /\ used = 1
    /\ srv = [s \in Socks |-> "none"]
    /\ shell = FALSE /\ quiet = FALSE /\ att = None /\ pong = "none"
    /\ troubles = 0 /\ ended = "no" /\ seen = FALSE

\* ws.close(), with or without the kill frame; a connection not yet open is
\* abandoned.
Shut(k, ws, last) ==
    CASE k[ws].state = "open"       -> [k EXCEPT ![ws].state = "closing", ![ws].sent = last]
      [] k[ws].state = "connecting" -> [k EXCEPT ![ws].state = "closing", ![ws].up = FALSE]
      [] OTHER                      -> k

\* Defect: the id is kept for the next page.
Forgets_Not == saved
\* removeSavedTabId
Forgets == FALSE

\* closeTab, with the sockets k.
CloseTab(k, why) ==
    /\ sock' = Shut(k, tab.ws, IF why = "user" THEN "kill" ELSE "bye")
    /\ tab' = NoTab /\ front' = FALSE /\ saved' = Forgets /\ ended' = why

\* scheduleReconnect; the delay is left out.
Scheduled(t) == [t EXCEPT !.timer = TRUE]

\* connectSocket, when the timer fires.
Reconnect ==
    /\ page # "gone" /\ tab.timer /\ used < MaxSocks
    /\ used' = used + 1
    /\ sock' = [sock EXCEPT ![used'] = NewSock]
    /\ tab' = [tab EXCEPT !.timer = FALSE, !.ws = used']
    /\ UNCHANGED <<pageVars, saved, serverVars, troubles, ended, seen>>

UserCloses ==
    /\ page = "visible" /\ tab.open
    /\ CloseTab(sock, "user")
    /\ UNCHANGED <<page, used, serverVars, troubles, seen>>

-----------------------------------------------------------------------------
(* The events of a socket.                                                 *)

\* onopen
Opened(s) ==
    /\ page # "gone" /\ sock[s].state = "connecting" /\ sock[s].up /\ srv[s] # "none"
    /\ sock' = [sock EXCEPT ![s].state = "open"]
    /\ tab' = IF tab.open THEN [tab EXCEPT !.pinged = "fresh", !.watch = TRUE] ELSE tab
    /\ seen' = shell
    /\ UNCHANGED <<pageVars, saved, used, serverVars, troubles, ended>>

\* The socket is closed; what is still on the way, to either side, is lost.
Over(k, s) ==
    [k EXCEPT ![s] = [state |-> "closed", up |-> FALSE, down |-> <<>>, sent |-> "nothing"]]

\* onclose: after a watchdog's close at once, after a clean close for good,
\* else with a delay.
OnClose(k, clean) ==
    IF ~tab.open THEN sock' = k /\ UNCHANGED <<tab, front, saved, ended>>
    ELSE IF clean /\ ~tab.force THEN CloseTab(k, "exit")
    ELSE /\ sock' = k /\ tab' = Scheduled([tab EXCEPT !.force = FALSE])
         /\ UNCHANGED <<front, saved, ended>>

\* The handler of s and its client can talk.
Live(s) == srv[s] = "live" /\ sock[s].up

\* handleWsMessage, which answers a ping (the pong arrives at once), or the close
\* event: with code 1000 when the server is done with the view, 1011 when there is
\* no shell to be had.
Receive(s) ==
    /\ page # "gone" /\ sock[s].state \in {"open", "closing"} /\ sock[s].down # <<>>
    /\ LET f == Head(sock[s].down)
           k == [sock EXCEPT ![s].down = Tail(@)]
       IN  \/ /\ f \in {"over", "failed"}
              /\ OnClose(Over(k, s), f = "over") /\ UNCHANGED pong
           \/ /\ f = "exit" /\ tab.open /\ sock[s].state = "open"
              /\ CloseTab(k, "exit") /\ UNCHANGED pong
           \/ /\ f = "ping" /\ tab.open /\ sock[s].state = "open"
              /\ sock' = k /\ tab' = [tab EXCEPT !.pinged = "fresh", !.watch = TRUE]
              /\ pong' = IF Live(s) THEN "fresh" ELSE pong
              /\ UNCHANGED <<front, saved, ended>>
           \/ /\ f \notin {"over", "failed"} /\ (~tab.open \/ sock[s].state # "open")
              /\ sock' = k /\ UNCHANGED <<tab, front, saved, ended, pong>>
    /\ UNCHANGED <<page, used, srv, shell, quiet, att, troubles, seen>>

\* The close event without a frame of the server: the connection broke, was
\* refused, or the close of this side is done.
Closed(s) ==
    /\ page # "gone"
    /\ \/ sock[s].state \in {"connecting", "open"} /\ ~sock[s].up
       \/ sock[s].state = "closing" /\ (~sock[s].up \/ srv[s] = "done")
    /\ OnClose(Over(sock, s), FALSE)
    /\ UNCHANGED <<page, used, serverVars, troubles, seen>>

-----------------------------------------------------------------------------
(* The watchdog and the page.                                              *)

\* The socket of t looks open, and no reconnect is under way.
Watched(t) == t.open /\ ~t.timer /\ sock[t.ws].state = "open" /\ t.pinged # "never"

\* Defect: a watchdog that fires early is not armed again.
CheckLiveness_Once(t) ==
    IF Watched(t) /\ t.pinged = "quiet"
    THEN tab' = [t EXCEPT !.force = TRUE] /\ sock' = Shut(sock, t.ws, "bye")
    ELSE tab' = t /\ UNCHANGED sock
\* checkLiveness of the tab t, when it is the active one of a visible page.
CheckLiveness(t) ==
    IF Watched(t) /\ t.pinged = "quiet"
    THEN tab' = [t EXCEPT !.force = TRUE] /\ sock' = Shut(sock, t.ws, "bye")
    ELSE tab' = [t EXCEPT !.watch = @ \/ Watched(t)] /\ UNCHANGED sock

\* 45 seconds after it was armed last; the tabs in the background are left alone.
Watchdog ==
    /\ page # "gone" /\ tab.watch
    /\ LET t == [tab EXCEPT !.watch = FALSE]
       IN  IF page = "visible" /\ front THEN CheckLiveness(t) ELSE tab' = t /\ UNCHANGED sock
    /\ UNCHANGED <<pageVars, saved, used, serverVars, troubles, ended, seen>>

\* No ping came for 45 seconds.
PingsStop ==
    /\ tab.open /\ tab.pinged = "fresh" /\ (page = "hidden" \/ ~sock[tab.ws].up)
    /\ tab' = [tab EXCEPT !.pinged = "quiet"]
    /\ UNCHANGED <<pageVars, saved, sock, used, serverVars, troubles, ended, seen>>

Hide ==
    /\ page = "visible" /\ page' = "hidden"
    /\ UNCHANGED <<front, tab, saved, sock, used, serverVars, troubles, ended, seen>>

\* activate: another tab comes to the front, or this one; its connection is not
\* looked at.  On a hidden page it is the end of the tab in front that does it.
Switch ==
    /\ tab.open /\ (page = "visible" \/ (page = "hidden" /\ ~front))
    /\ front' = ~front
    /\ UNCHANGED <<page, tab, saved, sock, used, serverVars, troubles, ended, seen>>

\* The visibilitychange handler, which looks at the active tab.
Show ==
    /\ page = "hidden" /\ page' = "visible"
    /\ IF ~front THEN UNCHANGED <<tab, sock>>
       ELSE IF sock[tab.ws].state \in {"closing", "closed"}
       THEN tab' = Scheduled(tab) /\ UNCHANGED sock
       ELSE CheckLiveness(tab)
    /\ UNCHANGED <<front, saved, used, serverVars, troubles, ended, seen>>

\* The browser kills the renderer of a page it does not show.
Discard ==
    /\ page = "hidden" /\ troubles < MaxTroubles
    /\ page' = "gone" /\ troubles' = troubles + 1 /\ tab' = NoTab /\ front' = FALSE
    /\ sock' = [s \in Socks |-> IF sock[s].state = "none" THEN sock[s]
                                ELSE Over(sock, s)[s]]
    /\ UNCHANGED <<saved, used, serverVars, ended, seen>>

\* restoreTabs; the last of the tabs is the active one.
Reload ==
    /\ page = "gone" /\ page' = "visible"
    /\ IF saved /\ used < MaxSocks
       THEN /\ used' = used + 1 /\ tab' = NewTab(used') /\ front' \in BOOLEAN
            /\ sock' = [sock EXCEPT ![used'] = NewSock]
       ELSE UNCHANGED <<used, tab, front, sock>>
    /\ UNCHANGED <<saved, serverVars, troubles, ended, seen>>

-----------------------------------------------------------------------------
(* The server and the network.                                             *)

\* A frame, if the connection is up.
Sent(k, s, fs) == IF s # None /\ k[s].up THEN [k EXCEPT ![s].down = @ \o fs] ELSE k

\* A connection reaches the server, never after one that was made later.
Arrives(s) == sock[s].state # "none" /\ \A t \in s .. MaxSocks : srv[t] = "none"

\* terminal_ws: get_or_create, then attach, which takes the session over.
Accept(s) ==
    /\ Arrives(s)
    /\ srv' = [srv EXCEPT ![s] = "live"]
    /\ shell' = TRUE /\ att' = s /\ pong' = "none" /\ quiet' = FALSE
    /\ UNCHANGED <<pageVars, tab, saved, sock, used, troubles, ended, seen>>

\* The spawn fails: close(1011).
Refuse(s) ==
    /\ Arrives(s) /\ ~shell /\ troubles < MaxTroubles
    /\ srv' = [srv EXCEPT ![s] = "done"] /\ troubles' = troubles + 1
    /\ sock' = Sent(sock, s, <<"failed">>)
    /\ UNCHANGED <<pageVars, tab, saved, used, shell, quiet, att, pong, ended, seen>>

\* Defect: the view of a handler that ends stays attached.
DetachedFrom_Not(s) == att
\* PtySession.detach
DetachedFrom(s) == IF att = s THEN None ELSE att

\* A heartbeat: a ping, and the close of a view that went silent.
Heartbeat(s) ==
    /\ Live(s) /\ "ping" \notin ToSet(sock[s].down)
    /\ IF att # None /\ pong = "stale"
       THEN /\ sock' = Sent(sock, s, <<"ping", "over">>)
            /\ srv' = [srv EXCEPT ![s] = "done"] /\ att' = DetachedFrom(s)
       ELSE sock' = Sent(sock, s, <<"ping">>) /\ UNCHANGED <<srv, att>>
    /\ UNCHANGED <<pageVars, tab, saved, used, shell, quiet, pong, troubles, ended, seen>>

\* PONG_TIMEOUT_SECONDS pass without a pong.  A visible page answers, on any
\* connection that works and that it has not given up.
PongIsLate ==
    /\ att # None /\ pong = "fresh" /\ pong' = "stale"
    /\ \/ ~tab.open
       \/ \A s \in Socks : srv[s] = "live" /\ sock[s].up => sock[s].state \in {"closing", "closed"}
       \/ page # "visible"
    /\ UNCHANGED <<pageVars, tab, saved, sock, used, srv, shell, quiet, att, troubles, ended, seen>>

\* The shell is over: whoever is attached is told, and its socket closed.
ShellOver ==
    /\ shell' = FALSE /\ quiet' = FALSE /\ att' = None /\ seen' = FALSE
    /\ sock' = Sent(sock, att, <<"exit", "over">>)

\* The receive loop of a handler comes to the close, or to the kill frame.
Inbound(s) ==
    /\ srv[s] = "live" /\ sock[s].sent # "nothing"
    /\ \/ /\ sock[s].sent = "bye"
          /\ srv' = [srv EXCEPT ![s] = "done"] /\ att' = DetachedFrom(s)
          /\ UNCHANGED <<sock, shell, quiet, seen>>
       \/ /\ sock[s].sent = "kill"
          /\ srv' = [srv EXCEPT ![s] = "done", ![IF att = None THEN s ELSE att] = "done"]
          /\ ShellOver
    /\ UNCHANGED <<pageVars, tab, saved, used, pong, troubles, ended>>

\* A handler notices that its connection broke.
Lost(s) ==
    /\ srv[s] = "live" /\ ~sock[s].up
    /\ srv' = [srv EXCEPT ![s] = "done"] /\ att' = DetachedFrom(s)
    /\ UNCHANGED <<pageVars, tab, saved, sock, used, shell, quiet, pong, troubles, ended, seen>>

ShellExits ==
    /\ shell /\ ShellOver
    /\ srv' = IF att = None THEN srv ELSE [srv EXCEPT ![att] = "done"]
    /\ UNCHANGED <<pageVars, tab, saved, used, pong, troubles, ended>>

\* The shell prints again, or has printed nothing for the grace period; while its
\* tab watches it nobody asks.
Output ==
    /\ shell /\ ~(tab.open /\ att # None)
    /\ quiet' = ~quiet
    /\ UNCHANGED <<pageVars, tab, saved, sock, used, srv, shell, att, pong, troubles,
                   ended, seen>>

\* try_reap: idle for an hour, and nobody attached.
Reap ==
    /\ shell /\ att = None /\ quiet
    /\ shell' = FALSE /\ quiet' = FALSE /\ seen' = FALSE
    /\ UNCHANGED <<pageVars, tab, saved, sock, used, srv, att, pong, troubles, ended>>

\* The connection breaks, and neither side may notice for long.
Cut(s) ==
    /\ sock[s].up /\ sock[s].state # "closed" /\ troubles < MaxTroubles
    /\ troubles' = troubles + 1
    /\ sock' = [sock EXCEPT ![s].up = FALSE]
    /\ UNCHANGED <<pageVars, tab, saved, used, serverVars, ended, seen>>

Events(s) == Opened(s) \/ Receive(s) \/ Closed(s)
Server(s) == Accept(s) \/ Inbound(s) \/ Lost(s)

Next ==
    \/ \E s \in Socks : Events(s) \/ Server(s) \/ Refuse(s) \/ Heartbeat(s) \/ Cut(s)
    \/ Reconnect \/ Watchdog \/ PingsStop
    \/ UserCloses \/ Switch \/ Hide \/ Show \/ Discard \/ Reload
    \/ PongIsLate \/ ShellExits \/ Output \/ Reap

Spec == Init /\ [][Next]_vars

Visible == page = "visible"

\* The scripts of a visible page run and its timers fire; a broken connection
\* that looks open may never be noticed by the browser, but the server's pings
\* stop.  The server's handlers and its reaper run on.
FairSpec ==
    /\ Spec
    /\ \A s \in Socks :
          /\ WF_vars(Visible /\ (Opened(s) \/ Receive(s)))
          /\ WF_vars(Visible /\ sock[s].state # "open" /\ Closed(s))
          /\ WF_vars(sock[s].up /\ Accept(s)) /\ WF_vars(Inbound(s) \/ Lost(s))
          /\ WF_vars(Heartbeat(s))
    /\ WF_vars(Visible /\ Reconnect) /\ WF_vars(Visible /\ Watchdog)
    /\ WF_vars(Visible /\ PingsStop) /\ WF_vars(PongIsLate) /\ WF_vars(Reap)

-----------------------------------------------------------------------------
(* Properties                                                              *)

\* "A CLEAN server close (1000) only ever follows the exit sentinel (BE
\* contract)" (wireSocket): a tab that closes itself as ended leaves no running
\* shell behind.
ExitedMeansDead == ended = "exit" => ~seen

\* "Stop reconnecting FIRST" and "a later reload never resurrects it"
\* (closeTab): no connection is made for a tab that was closed, though timers,
\* close events and reloads are still to come.
ClosedStaysClosed == [][ended # "no" => used' = used]_vars

Attached == att # None /\ sock[att].state = "open" /\ sock[att].up

\* The socket looks open and the watchdog is not armed: it fired, once, while the
\* page was hidden or another tab was the active one.
Unguarded == Watched(tab) /\ ~tab.watch

\* Terminal tabs survive what happens to their connection: the active tab of a
\* visible page gets a live connection, also when its socket looks open and is not
\* (unless the bound on sockets is reached).  Excepted is a tab that comes to the
\* front Unguarded: activate() does not look at its socket.
Reattaches ==
    front /\ Visible /\ ~Unguarded ~> ~front \/ ~Visible \/ Attached \/ used = MaxSocks

\* A second connection of the tab, forgotten when it was closed: a reconnect
\* may be scheduled twice, by the page that is shown and by the close event.
Forgotten == \E s \in Socks : ~tab.open /\ sock[s].state \in {"connecting", "open"}

\* No shell without a tab that has fallen silent runs for ever, whether the close
\* reached the server or the page is gone, unless a forgotten connection holds it;
\* one that goes on printing is a running job and does ("never reaped just because
\* its WS dropped", session.py).
ShellsEnd == ~tab.open /\ shell /\ quiet ~> tab.open \/ ~shell \/ ~quiet \/ Forgotten

=============================================================================
