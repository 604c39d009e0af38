------------------------- MODULE TerminalClientProofs -------------------------
(***************************************************************************)
(* Proofs about the terminal tab in the browser, for any number of          *)
(* WebSockets and of broken connections: types, and that a tab which was    *)
(* closed is not connected again.                                           *)
(***************************************************************************)
EXTENDS TerminalClient, SequenceTheorems, TLAPS

SockTypes ==
    [Socks -> [state : {"none", "connecting", "open", "closing", "closed"},
               up : BOOLEAN, down : Seq(Frames), sent : {"nothing", "bye", "kill"}]]
TabTypes(n) ==
    [open : BOOLEAN, ws : 0 .. n, timer : BOOLEAN, watch : BOOLEAN,
     force : BOOLEAN, pinged : {"never", "fresh", "quiet"}]

\* No WebSocket is made or unmade between k and l.
SameSocks(k, l) == \A s \in Socks : k[s].state = "none" <=> l[s].state = "none"

\* An open tab has a WebSocket, and those that are used were made.
Made ==
    /\ tab.open => tab.ws # None
    /\ \A s \in Socks : sock[s].state = "none" <=> used < s

\* A closed tab waits for nothing, and nothing will bring it back.
Gone == ended # "no" => ~tab.open /\ ~tab.timer /\ ~saved

Inv == TypeOK /\ Made /\ Gone

LEMMA Typed ==
  /\ TypeOK => sock \in SockTypes /\ tab \in TabTypes(used) /\ used \in 0 .. MaxSocks
  /\ MaxSocks \in Nat \ {0} /\ ~NoTab.open /\ ~NoTab.timer
  /\ \A n \in Nat : NoTab \in TabTypes(n)
  /\ NewSock \in [state : {"connecting"}, up : BOOLEAN, down : Seq(Frames), sent : {"nothing"}]
<1>1. /\ ~NoTab.open /\ ~NoTab.timer
      /\ \A n \in Nat : NoTab \in TabTypes(n)
  <2> DEFINE x == NewTab(None)
  <2>1. /\ ~x.timer
        /\ \A n \in Nat : x \in TabTypes(n)
    <3>1. \A n \in Nat : 0 \in 0 .. n
      OBVIOUS
    <3> QED
      BY <3>1 DEF NewTab, None, TabTypes
  <2>2. NoTab = [x EXCEPT !.open = FALSE]
    BY DEF NoTab
  <2> HIDE DEF x
  <2>3. x \in TabTypes(0)
    BY <2>1
  <2> QED
    BY <2>1, <2>2, <2>3 DEF TabTypes
<1>2. <<>> \in Seq(Frames)
  OBVIOUS
<1> QED
  BY <1>1, <1>2, ClientAssumption DEF TypeOK, SockTypes, TabTypes, NewSock

LEMMA InvInit == Init => Inv
<1> SUFFICES ASSUME Init PROVE Inv
  OBVIOUS
<1>1. 1 \in Socks /\ MaxSocks \in Nat
  BY ClientAssumption DEF Socks
<1>2. <<>> \in Seq(Frames)
  OBVIOUS
<1>3. /\ sock = [s \in Socks |-> IF s = 1 THEN NewSock ELSE NoSock]
      /\ sock \in SockTypes
  BY <1>1, <1>2 DEF Init, NewSock, NoSock, SockTypes
<1>4. tab \in TabTypes(1) /\ tab.open /\ tab.ws = 1
  BY DEF Init, NewTab, TabTypes
<1>5. Made
  BY <1>1, <1>3, <1>4 DEF Init, Made, NewSock, NoSock, Socks, None
<1>6. TypeOK
  <2>1. used = 1 /\ 1 \in 0 .. MaxSocks /\ 0 \in 0 .. MaxTroubles /\ 0 \in 0 .. 1
    BY <1>1, ClientAssumption DEF Init, Socks
  <2>2. srv \in [Socks -> {"none", "live", "done"}]
    BY DEF Init
  <2> QED
    BY <1>3, <1>4, <2>1, <2>2 DEF Init, TypeOK, SockTypes, TabTypes, None
<1> QED
  BY <1>5, <1>6 DEF Inv, Gone, Init

LEMMA ShutIs ==
  ASSUME NEW k \in SockTypes, NEW ws \in Socks, NEW last \in {"bye", "kill"}
  PROVE  Shut(k, ws, last) \in SockTypes /\ SameSocks(Shut(k, ws, last), k)
<1>1. CASE k[ws].state = "open"
  <2>1. Shut(k, ws, last) = [k EXCEPT ![ws].state = "closing", ![ws].sent = last]
    BY <1>1 DEF Shut
  <2> DEFINE r == [k[ws] EXCEPT !.state = "closing", !.sent = last]
  <2>2. Shut(k, ws, last) = [k EXCEPT ![ws] = r]
    BY <2>1
  <2>3. /\ r \in [state : {"none", "connecting", "open", "closing", "closed"},
                  up : BOOLEAN, down : Seq(Frames), sent : {"nothing", "bye", "kill"}]
        /\ r.state = "closing"
    BY DEF SockTypes
  <2> HIDE DEF r
  <2> QED
    BY <1>1, <2>2, <2>3 DEF SockTypes, SameSocks
<1>2. CASE k[ws].state = "connecting"
  <2>1. Shut(k, ws, last) = [k EXCEPT ![ws].state = "closing", ![ws].up = FALSE]
    BY <1>2 DEF Shut
  <2> DEFINE r == [k[ws] EXCEPT !.state = "closing", !.up = FALSE]
  <2>2. Shut(k, ws, last) = [k EXCEPT ![ws] = r]
    BY <2>1
  <2>3. /\ r \in [state : {"none", "connecting", "open", "closing", "closed"},
                  up : BOOLEAN, down : Seq(Frames), sent : {"nothing", "bye", "kill"}]
        /\ r.state = "closing"
    BY DEF SockTypes
  <2> HIDE DEF r
  <2> QED
    BY <1>2, <2>2, <2>3 DEF SockTypes, SameSocks
<1>3. CASE k[ws].state \notin {"open", "connecting"}
  <2>1. Shut(k, ws, last) = k
    BY <1>3 DEF Shut
  <2> QED
    BY <2>1 DEF SameSocks
<1> QED
  BY <1>1, <1>2, <1>3

\* The tab is closed, with the sockets k.
LEMMA CloseTabIs ==
  ASSUME Inv, tab.open, NEW k \in SockTypes, NEW why \in {"user", "exit"}, CloseTab(k, why)
  PROVE  /\ sock' \in SockTypes /\ SameSocks(sock', k)
         /\ tab' = NoTab /\ saved' = FALSE /\ ended' = why
<1>1. tab.ws \in Socks
  BY Typed DEF Inv, Made, TabTypes, Socks, None
<1>2. sock' = Shut(k, tab.ws, IF why = "user" THEN "kill" ELSE "bye")
  BY DEF CloseTab
<1> QED
  BY <1>1, <1>2, ShutIs DEF CloseTab, Forgets

LEMMA OverIs ==
  ASSUME NEW k \in SockTypes, NEW s \in Socks, k[s].state # "none"
  PROVE  Over(k, s) \in SockTypes /\ SameSocks(Over(k, s), k)
<1> DEFINE r == [state |-> "closed", up |-> FALSE, down |-> <<>>, sent |-> "nothing"]
<1>1. /\ r \in [state : {"none", "connecting", "open", "closing", "closed"},
                up : BOOLEAN, down : Seq(Frames), sent : {"nothing", "bye", "kill"}]
      /\ r.state = "closed"
  OBVIOUS
<1>2. Over(k, s) = [k EXCEPT ![s] = r]
  BY DEF Over
<1> HIDE DEF r
<1> QED
  BY <1>1, <1>2 DEF SockTypes, SameSocks

\* A tab that changes, and a record it stays.
TabKeeps ==
    /\ tab' \in TabTypes(used) /\ (tab'.open => tab'.ws # None)
    /\ ended' \in {"no", "user", "exit"} /\ saved' \in BOOLEAN
    /\ ended' # "no" => ~tab'.open /\ ~tab'.timer /\ ~saved'

LEMMA ClosedTabKeeps ==
  ASSUME Inv, tab' = NoTab, saved' = FALSE, ended' \in {"user", "exit"}
  PROVE  TabKeeps
<1>1. used \in Nat
  BY Typed DEF Inv
<1> QED
  BY <1>1, Typed DEF TabKeeps

LEMMA SameTabKeeps ==
  ASSUME Inv, tab' = tab, saved' = saved, ended' = ended
  PROVE  TabKeeps
  BY Typed DEF Inv, TabKeeps, Made, Gone, TypeOK

LEMMA OnCloseIs ==
  ASSUME Inv, NEW k \in SockTypes, NEW clean \in BOOLEAN, OnClose(k, clean)
  PROVE  sock' \in SockTypes /\ SameSocks(sock', k) /\ TabKeeps
<1>1. CASE ~tab.open
  BY <1>1, SameTabKeeps DEF OnClose, SameSocks
<1>2. CASE tab.open /\ clean /\ ~tab.force
  <2>1. CloseTab(k, "exit")
    BY <1>2 DEF OnClose
  <2> QED
    BY <1>2, <2>1, CloseTabIs, ClosedTabKeeps
<1>3. CASE tab.open /\ ~(clean /\ ~tab.force)
  <2>1. /\ sock' = k /\ tab' = [[tab EXCEPT !.force = FALSE] EXCEPT !.timer = TRUE]
        /\ saved' = saved /\ ended' = ended
    BY <1>3 DEF OnClose, Scheduled
  <2>2. ended = "no"
    BY <1>3 DEF Inv, Gone
  <2>3. tab \in TabTypes(used) /\ tab.ws # None
    BY <1>3, Typed DEF Inv, Made
  <2>4. TabKeeps
    BY <2>1, <2>2, <2>3 DEF TabKeeps, TabTypes, Inv, TypeOK
  <2> QED
    BY <2>1, <2>4 DEF SameSocks
<1> QED
  BY <1>1, <1>2, <1>3

\* The watchdog looks at the tab t.
LEMMA LivenessIs ==
  ASSUME Inv, NEW t \in TabTypes(used), t.open = tab.open, t.ws = tab.ws, t.timer = tab.timer,
         CheckLiveness(t), saved' = saved, ended' = ended
  PROVE  sock' \in SockTypes /\ SameSocks(sock', sock) /\ TabKeeps
<1>1. sock \in SockTypes /\ saved \in BOOLEAN /\ ended \in {"no", "user", "exit"}
  BY Typed DEF Inv, TypeOK
<1>2. CASE Watched(t) /\ t.pinged = "quiet"
  <2>1. t.ws \in Socks
    BY <1>2, Typed DEF Watched, Inv, Made, TabTypes, Socks, None
  <2>2. tab' = [t EXCEPT !.force = TRUE] /\ sock' = Shut(sock, t.ws, "bye")
    BY <1>2 DEF CheckLiveness
  <2>3. sock' \in SockTypes /\ SameSocks(sock', sock)
    BY <1>1, <2>1, <2>2, ShutIs
  <2>4. TabKeeps
    BY <1>1, <2>2 DEF TabKeeps, TabTypes, Inv, Made, Gone
  <2> QED
    BY <2>3, <2>4
<1>3. CASE ~(Watched(t) /\ t.pinged = "quiet")
  <2>1. tab' = [t EXCEPT !.watch = @ \/ Watched(t)] /\ sock' = sock
    BY <1>3 DEF CheckLiveness
  <2>2. t.watch \/ Watched(t) \in BOOLEAN
    BY DEF Watched, TabTypes
  <2>3. TabKeeps
    BY <1>1, <2>1, <2>2 DEF TabKeeps, TabTypes, Inv, Made, Gone
  <2> QED
    BY <1>1, <2>1, <2>3 DEF SameSocks
<1> QED
  BY <1>2, <1>3

LEMMA SentIs ==
  ASSUME NEW k \in SockTypes, NEW s \in Socks \cup {None}, NEW fs \in Seq(Frames)
  PROVE  Sent(k, s, fs) \in SockTypes /\ SameSocks(Sent(k, s, fs), k)
<1>1. CASE s # None /\ k[s].up
  <2>1. s \in Socks /\ Sent(k, s, fs) = [k EXCEPT ![s].down = k[s].down \o fs]
    BY <1>1 DEF Sent
  <2>2. k[s].down \o fs \in Seq(Frames)
    BY <2>1, ConcatProperties DEF SockTypes
  <2> DEFINE r == [k[s] EXCEPT !.down = k[s].down \o fs]
  <2>3. Sent(k, s, fs) = [k EXCEPT ![s] = r]
    BY <2>1
  <2>4. /\ r \in [state : {"none", "connecting", "open", "closing", "closed"},
                  up : BOOLEAN, down : Seq(Frames), sent : {"nothing", "bye", "kill"}]
        /\ r.state = k[s].state
    BY <2>1, <2>2 DEF SockTypes
  <2> HIDE DEF r
  <2> DEFINE l == [k EXCEPT ![s] = r]
  <2>5. l \in SockTypes
    BY <2>1, <2>4 DEF SockTypes
  <2>6. SameSocks(l, k)
    BY <2>1, <2>4 DEF SockTypes, SameSocks
  <2> QED
    BY <2>3, <2>5, <2>6
<1>2. CASE ~(s # None /\ k[s].up)
  BY <1>2 DEF Sent, SameSocks
<1> QED
  BY <1>1, <1>2

\* What a step does to the client's side.
ClientKeeps ==
    /\ sock' \in SockTypes
    /\ \/ used' = used /\ SameSocks(sock', sock) /\ TabKeeps
       \/ /\ used' = used + 1 /\ used < MaxSocks /\ ended' = "no" /\ ended = "no"
          /\ tab' \in TabTypes(used') /\ tab'.ws = used' /\ saved' \in BOOLEAN
          /\ \A s \in Socks : sock'[s].state = "none" <=> used' < s

LEMMA NewSocketIs ==
  ASSUME Inv, used < MaxSocks, used' = used + 1, sock' = [sock EXCEPT ![used'] = NewSock]
  PROVE  /\ sock' \in SockTypes /\ used' \in Socks
         /\ \A s \in Socks : sock'[s].state = "none" <=> used' < s
<1>1. used' \in Socks /\ used \in Nat /\ sock \in SockTypes
  BY Typed DEF Inv, Socks
<1>2. /\ NewSock.state = "connecting"
      /\ NewSock \in [state : {"none", "connecting", "open", "closing", "closed"},
                      up : BOOLEAN, down : Seq(Frames), sent : {"nothing", "bye", "kill"}]
  BY DEF NewSock
<1>3. sock' \in SockTypes
  BY <1>1, <1>2 DEF SockTypes
<1>4. ASSUME NEW s \in Socks PROVE sock'[s].state = "none" <=> used' < s
  <2>1. s \in Nat
    BY ClientAssumption DEF Socks
  <2>2. CASE s = used'
    BY <1>1, <1>2, <2>1, <2>2 DEF SockTypes
  <2>3. CASE s # used'
    BY <1>1, <2>1, <2>3 DEF SockTypes, Inv, Made
  <2> QED
    BY <2>2, <2>3
<1> QED
  BY <1>1, <1>3, <1>4

LEMMA TabEvents ==
  ASSUME Inv, \/ Reconnect \/ Reload \/ UserCloses \/ Watchdog \/ PingsStop
              \/ Switch \/ Hide \/ Show \/ Discard
  PROVE  ClientKeeps
<1>1. /\ sock \in SockTypes /\ tab \in TabTypes(used) /\ used \in 0 .. MaxSocks
      /\ saved \in BOOLEAN /\ ended \in {"no", "user", "exit"} /\ used \in Nat
  BY Typed DEF Inv, TypeOK
<1>2. /\ tab.open => ended = "no"
      /\ tab.timer => ended = "no"
      /\ saved => ended = "no"
      /\ tab.open => tab.ws # None
  BY DEF Inv, Gone, Made
<1>3. CASE Reconnect
  <2>1. /\ used < MaxSocks /\ used' = used + 1 /\ sock' = [sock EXCEPT ![used'] = NewSock]
        /\ tab' = [tab EXCEPT !.timer = FALSE, !.ws = used'] /\ saved' = saved
        /\ ended' = "no" /\ ended = "no"
    BY <1>2, <1>3 DEF Reconnect
  <2>2. tab' \in TabTypes(used') /\ tab'.ws = used'
    <3>1. used' \in 0 .. used'
      BY <1>1, <2>1
    <3> QED
      BY <1>1, <2>1, <3>1 DEF TabTypes
  <2> QED
    BY <1>1, <2>1, <2>2, NewSocketIs DEF ClientKeeps
<1>4. CASE Reload
  <2>1. CASE saved /\ used < MaxSocks
    <3>1. /\ used' = used + 1 /\ sock' = [sock EXCEPT ![used'] = NewSock]
          /\ tab' = NewTab(used') /\ saved' = saved /\ ended' = "no" /\ ended = "no"
      BY <1>2, <1>4, <2>1 DEF Reload
    <3>2. tab' \in TabTypes(used') /\ tab'.ws = used'
      BY <1>1, <3>1 DEF TabTypes, NewTab
    <3> QED
      BY <1>1, <2>1, <3>1, <3>2, NewSocketIs DEF ClientKeeps
  <2>2. CASE ~(saved /\ used < MaxSocks)
    BY <1>1, <1>4, <2>2, SameTabKeeps DEF Reload, ClientKeeps, SameSocks
  <2> QED
    BY <2>1, <2>2
<1>5. CASE UserCloses
  <2>1. tab.open /\ CloseTab(sock, "user") /\ used' = used
    BY <1>5 DEF UserCloses
  <2> QED
    BY <1>1, <2>1, CloseTabIs, ClosedTabKeeps DEF ClientKeeps
<1>6. CASE Watchdog
  <2> DEFINE t == [tab EXCEPT !.watch = FALSE]
  <2>1. /\ t \in TabTypes(used) /\ t.open = tab.open /\ t.ws = tab.ws /\ t.timer = tab.timer
    BY <1>1 DEF TabTypes
  <2>2. /\ used' = used /\ saved' = saved /\ ended' = ended
        /\ CheckLiveness(t) \/ (tab' = t /\ sock' = sock)
    BY <1>6 DEF Watchdog
  <2> HIDE DEF t
  <2>3. CASE CheckLiveness(t)
    BY <2>1, <2>2, <2>3, LivenessIs DEF ClientKeeps
  <2>4. CASE tab' = t /\ sock' = sock
    BY <1>1, <1>2, <2>1, <2>2, <2>4 DEF ClientKeeps, TabKeeps, SameSocks, Inv, Gone
  <2> QED
    BY <2>2, <2>3, <2>4
<1>7. CASE PingsStop
  <2>1. /\ tab' = [tab EXCEPT !.pinged = "quiet"] /\ sock' = sock
        /\ used' = used /\ saved' = saved /\ ended' = ended
    BY <1>7 DEF PingsStop
  <2>2. /\ tab' \in TabTypes(used) /\ tab'.open = tab.open /\ tab'.ws = tab.ws
        /\ tab'.timer = tab.timer
    BY <1>1, <2>1 DEF TabTypes
  <2> QED
    BY <1>1, <1>2, <2>1, <2>2 DEF ClientKeeps, TabKeeps, SameSocks, Inv, Gone
<1>8. CASE Switch \/ Hide
  BY <1>1, <1>8, SameTabKeeps DEF Switch, Hide, ClientKeeps, SameSocks
<1>9. CASE Show
  <2>1. used' = used /\ saved' = saved /\ ended' = ended
    BY <1>9 DEF Show
  <2>0. front => tab.open
    BY DEF Inv, TypeOK
  <2>2. CASE front /\ sock[tab.ws].state \in {"closing", "closed"}
    <3>1. tab' = [tab EXCEPT !.timer = TRUE] /\ sock' = sock
      BY <1>9, <2>2 DEF Show, Scheduled
    <3>2. tab' \in TabTypes(used) /\ tab'.open = tab.open /\ tab'.ws = tab.ws
      BY <1>1, <3>1 DEF TabTypes
    <3> QED
      BY <1>1, <1>2, <2>0, <2>1, <2>2, <3>1, <3>2 DEF ClientKeeps, TabKeeps, SameSocks
  <2>3. CASE CheckLiveness(tab)
    BY <1>1, <2>1, <2>3, LivenessIs DEF ClientKeeps
  <2>4. CASE tab' = tab /\ sock' = sock
    BY <1>1, <2>1, <2>4, SameTabKeeps DEF ClientKeeps, SameSocks
  <2> QED
    BY <1>9, <2>2, <2>3, <2>4 DEF Show
<1>10. CASE Discard
  <2>1. /\ used' = used /\ saved' = saved /\ ended' = ended /\ tab' = NoTab
        /\ sock' = [s \in Socks |-> IF sock[s].state = "none" THEN sock[s]
                                    ELSE Over(sock, s)[s]]
    BY <1>10 DEF Discard
  <2>2. \A s \in Socks : sock[s].state # "none" =>
           /\ Over(sock, s)[s] \in
                [state : {"none", "connecting", "open", "closing", "closed"}, up : BOOLEAN,
                 down : Seq(Frames), sent : {"nothing", "bye", "kill"}]
           /\ Over(sock, s)[s].state # "none"
    BY <1>1, OverIs DEF SockTypes, SameSocks
  <2>3. sock' \in SockTypes /\ SameSocks(sock', sock)
    BY <1>1, <2>1, <2>2 DEF SockTypes, SameSocks
  <2>4. TabKeeps
    BY <1>1, <1>2, <2>1, Typed DEF TabKeeps
  <2> QED
    BY <2>1, <2>3, <2>4 DEF ClientKeeps
<1> QED
  BY <1>3, <1>4, <1>5, <1>6, <1>7, <1>8, <1>9, <1>10

LEMMA SocketEvents ==
  ASSUME Inv, NEW s \in Socks, Events(s)
  PROVE  ClientKeeps
<1>1. /\ sock \in SockTypes /\ tab \in TabTypes(used) /\ used \in 0 .. MaxSocks
      /\ saved \in BOOLEAN /\ ended \in {"no", "user", "exit"} /\ used' = used
  BY Typed DEF Inv, TypeOK, Events, Opened, Receive, Closed
<1>2. CASE Opened(s)
  <2>1. /\ sock' = [sock EXCEPT ![s].state = "open"] /\ saved' = saved /\ ended' = ended
        /\ tab' = IF tab.open THEN [tab EXCEPT !.pinged = "fresh", !.watch = TRUE] ELSE tab
        /\ sock[s].state = "connecting"
    BY <1>2 DEF Opened
  <2>2. sock' \in SockTypes /\ SameSocks(sock', sock)
    BY <1>1, <2>1 DEF SockTypes, SameSocks
  <2>3. /\ tab' \in TabTypes(used) /\ tab'.open = tab.open /\ tab'.ws = tab.ws
        /\ tab'.timer = tab.timer
    BY <1>1, <2>1 DEF TabTypes
  <2> QED
    BY <1>1, <2>1, <2>2, <2>3 DEF ClientKeeps, TabKeeps, Inv, Gone, Made
<1>3. CASE Receive(s)
  <2> DEFINE f == Head(sock[s].down)
             k == [sock EXCEPT ![s].down = Tail(@)]
             c == Over(k, s)
  <2>1. /\ sock[s].state \in {"open", "closing"} /\ sock[s].down # <<>>
        /\ \/ OnClose(c, f = "over")
           \/ tab.open /\ CloseTab(k, "exit")
           \/ /\ tab.open /\ sock' = k
              /\ tab' = [tab EXCEPT !.pinged = "fresh", !.watch = TRUE]
              /\ UNCHANGED <<saved, ended>>
           \/ sock' = k /\ UNCHANGED <<tab, saved, ended>>
    BY <1>3 DEF Receive
  <2>2. Tail(sock[s].down) \in Seq(Frames)
    BY <1>1, <2>1, HeadTailProperties DEF SockTypes
  <2>3. k \in SockTypes /\ SameSocks(k, sock) /\ k[s].state \in {"open", "closing"}
    BY <1>1, <2>1, <2>2 DEF SockTypes, SameSocks
  <2> HIDE DEF k
  <2>4. c \in SockTypes /\ SameSocks(c, sock)
    BY <2>3, OverIs DEF SameSocks
  <2> HIDE DEF c, f
  <2>5. CASE OnClose(c, f = "over")
    <3>1. sock' \in SockTypes /\ SameSocks(sock', c) /\ TabKeeps
      BY <2>4, <2>5, OnCloseIs
    <3> QED
      BY <1>1, <2>4, <3>1 DEF ClientKeeps, SameSocks
  <2>6. CASE tab.open /\ CloseTab(k, "exit")
    <3>1. sock' \in SockTypes /\ SameSocks(sock', k) /\ TabKeeps
      BY <2>3, <2>6, CloseTabIs, ClosedTabKeeps
    <3> QED
      BY <1>1, <2>3, <3>1 DEF ClientKeeps, SameSocks
  <2>7. CASE /\ tab.open /\ sock' = k
             /\ tab' = [tab EXCEPT !.pinged = "fresh", !.watch = TRUE]
             /\ UNCHANGED <<saved, ended>>
    <3>1. /\ tab' \in TabTypes(used) /\ tab'.open = tab.open /\ tab'.ws = tab.ws
          /\ tab'.timer = tab.timer
      BY <1>1, <2>7 DEF TabTypes
    <3> QED
      BY <1>1, <2>3, <2>7, <3>1 DEF ClientKeeps, TabKeeps, Inv, Gone, Made
  <2>8. CASE sock' = k /\ UNCHANGED <<tab, saved, ended>>
    BY <1>1, <2>3, <2>8, SameTabKeeps DEF ClientKeeps
  <2> QED
    BY <2>1, <2>5, <2>6, <2>7, <2>8
<1>4. CASE Closed(s)
  <2> DEFINE k == Over(sock, s)
  <2>1. OnClose(k, FALSE) /\ sock[s].state \in {"connecting", "open", "closing"}
    BY <1>4 DEF Closed
  <2>3. k \in SockTypes /\ SameSocks(k, sock)
    BY <1>1, <2>1, OverIs
  <2> HIDE DEF k
  <2>4. sock' \in SockTypes /\ SameSocks(sock', k) /\ TabKeeps
    BY <2>1, <2>3, OnCloseIs
  <2> QED
    BY <1>1, <2>3, <2>4 DEF ClientKeeps, SameSocks
<1> QED
  BY <1>2, <1>3, <1>4 DEF Events

\* The steps of the server and of the network.
Outside ==
    \/ \E s \in Socks : Server(s) \/ Refuse(s) \/ Heartbeat(s) \/ Cut(s)
    \/ PongIsLate \/ ShellExits \/ Output \/ Reap

LEMMA OutsideEvents ==
  ASSUME Inv, Outside
  PROVE  ClientKeeps
<1>1. /\ sock \in SockTypes /\ att \in Socks \cup {None} /\ used' = used
      /\ tab' = tab /\ saved' = saved /\ ended' = ended
  <2>1. sock \in SockTypes /\ att \in 0 .. used /\ used \in 0 .. MaxSocks
    BY Typed DEF Inv, TypeOK
  <2>2. att \in Socks \cup {None}
    BY <2>1, ClientAssumption DEF Socks, None
  <2>3. used' = used /\ tab' = tab /\ saved' = saved /\ ended' = ended
    BY DEF Outside, Server, Accept, Inbound, Lost, Refuse, Heartbeat, Cut, PongIsLate,
           ShellExits, Output, Reap
  <2> QED
    BY <2>1, <2>2, <2>3
<1>2. /\ <<"failed">> \in Seq(Frames) /\ <<"ping">> \in Seq(Frames)
      /\ <<"ping", "over">> \in Seq(Frames) /\ <<"exit", "over">> \in Seq(Frames)
  BY DEF Frames
<1>3. \/ sock' = sock
      \/ \E s \in Socks \cup {None}, fs \in Seq(Frames) : sock' = Sent(sock, s, fs)
      \/ \E s \in Socks : sock[s].state # "closed" /\ sock' = [sock EXCEPT ![s].up = FALSE]
  <2>1. CASE PongIsLate \/ ShellExits \/ Output \/ Reap
    BY <1>1, <1>2, <2>1 DEF PongIsLate, ShellExits, ShellOver, Output, Reap
  <2>2. ASSUME NEW s \in Socks, Server(s) \/ Refuse(s) \/ Heartbeat(s) \/ Cut(s)
        PROVE  \/ sock' = sock
               \/ \E v \in Socks \cup {None}, fs \in Seq(Frames) : sock' = Sent(sock, v, fs)
               \/ \E v \in Socks : /\ sock[v].state # "closed"
                                   /\ sock' = [sock EXCEPT ![v].up = FALSE]
    <3>1. CASE Accept(s) \/ Lost(s)
      BY <3>1 DEF Accept, Lost
    <3>2. CASE Inbound(s)
      <4>1. sock' = sock \/ sock' = Sent(sock, att, <<"exit", "over">>)
        BY <3>2 DEF Inbound, ShellOver
      <4> QED
        BY <1>1, <1>2, <4>1
    <3>3. CASE Refuse(s)
      <4>1. sock' = Sent(sock, s, <<"failed">>)
        BY <3>3 DEF Refuse
      <4> QED
        BY <1>2, <4>1
    <3>4. CASE Heartbeat(s)
      <4>1. sock' = Sent(sock, s, <<"ping">>) \/ sock' = Sent(sock, s, <<"ping", "over">>)
        BY <3>4 DEF Heartbeat
      <4> QED
        BY <1>2, <4>1
    <3>5. CASE Cut(s)
      BY <3>5 DEF Cut
    <3> QED
      BY <2>2, <3>1, <3>2, <3>3, <3>4, <3>5 DEF Server
  <2> QED
    BY <2>1, <2>2 DEF Outside
<1>4. sock' \in SockTypes /\ SameSocks(sock', sock)
  <2>1. CASE sock' = sock
    BY <1>1, <2>1 DEF SameSocks
  <2>2. CASE \E s \in Socks \cup {None}, fs \in Seq(Frames) : sock' = Sent(sock, s, fs)
    BY <1>1, <2>2, SentIs
  <2>3. CASE \E s \in Socks : sock[s].state # "closed" /\ sock' = [sock EXCEPT ![s].up = FALSE]
    <3>1. PICK s \in Socks : sock' = [sock EXCEPT ![s].up = FALSE]
      BY <2>3
    <3> QED
      BY <1>1, <3>1 DEF SockTypes, SameSocks
  <2> QED
    BY <1>3, <2>1, <2>2, <2>3
<1> QED
  BY <1>1, <1>4, SameTabKeeps DEF ClientKeeps

LEMMA ClientStep == Inv /\ Next => ClientKeeps
<1>1. Next => \/ \E s \in Socks : Events(s)
              \/ Reconnect \/ Reload \/ UserCloses \/ Watchdog \/ PingsStop
              \/ Switch \/ Hide \/ Show \/ Discard \/ Outside
  BY DEF Next, Outside
<1> QED
  BY <1>1, TabEvents, SocketEvents, OutsideEvents

\* The server's side, which forgets the view of a handler that is done.
ServerOK ==
    /\ srv \in [Socks -> {"none", "live", "done"}] /\ shell \in BOOLEAN /\ att \in 0 .. used
    /\ quiet \in BOOLEAN /\ (quiet => shell)
    /\ att # None => srv[att] = "live" /\ shell
    /\ pong \in {"none", "fresh", "stale"} /\ seen \in BOOLEAN /\ (seen => shell)

LEMMA ServerStep ==
  ASSUME Inv, Next
  PROVE  ServerOK'
<1>1. ServerOK /\ used \in 0 .. MaxSocks /\ MaxSocks \in Nat /\ used \in Nat
  BY Typed DEF Inv, TypeOK, ServerOK
<1>2. used' = used \/ used' = used + 1
  BY ClientStep DEF ClientKeeps
<1>3. \A a \in 0 .. used : a \in 0 .. used' /\ (a # None => a \in Socks)
  BY <1>1, <1>2 DEF Socks, None
<1>4. ASSUME NEW s \in Socks, sock[s].state # "none"
      PROVE  s \in 0 .. used'
  <2>1. s \in Nat /\ ~(used < s)
    BY <1>1, <1>4 DEF Inv, Made, Socks
  <2> QED
    BY <1>1, <1>2, <2>1
<1>5. CASE UNCHANGED <<serverVars, seen>>
  BY <1>1, <1>3, <1>5 DEF ServerOK, serverVars
<1>6. ASSUME NEW s \in Socks, Accept(s) PROVE ServerOK'
  BY <1>1, <1>4, <1>6 DEF Accept, Arrives, ServerOK
<1>7. ASSUME NEW s \in Socks, Refuse(s) PROVE ServerOK'
  <2>1. /\ ~shell /\ srv' = [srv EXCEPT ![s] = "done"]
        /\ UNCHANGED <<shell, quiet, att, pong, seen>>
    BY <1>7 DEF Refuse
  <2>2. att = None
    BY <1>1, <2>1 DEF ServerOK
  <2> QED
    BY <1>1, <1>3, <2>1, <2>2 DEF ServerOK
<1>8. ASSUME NEW s \in Socks, srv' = [srv EXCEPT ![s] = "done"], att' = DetachedFrom(s),
             UNCHANGED <<shell, quiet, pong, seen>>
      PROVE  ServerOK'
  <2>1. CASE att = s
    BY <1>1, <1>3, <1>8, <2>1 DEF ServerOK, DetachedFrom, None
  <2>2. CASE att # s
    BY <1>1, <1>3, <1>8, <2>2 DEF ServerOK, DetachedFrom
  <2> QED
    BY <2>1, <2>2
<1>9. ASSUME NEW s \in Socks, Heartbeat(s) PROVE ServerOK'
  <2>1. CASE att # None /\ pong = "stale"
    BY <1>8, <1>9, <2>1 DEF Heartbeat
  <2>2. CASE ~(att # None /\ pong = "stale")
    BY <1>5, <1>9, <2>2 DEF Heartbeat, serverVars
  <2> QED
    BY <2>1, <2>2
<1>10. ASSUME srv' \in [Socks -> {"none", "live", "done"}], shell' = FALSE, quiet' = FALSE,
              att' = None, seen' = FALSE, pong' = pong
       PROVE  ServerOK'
  <2>1. 0 \in 0 .. used'
    BY <1>1, <1>2
  <2> QED
    BY <1>1, <1>10, <2>1 DEF ServerOK, None
<1>11. ASSUME NEW s \in Socks, Inbound(s) PROVE ServerOK'
  <2>1. pong' = pong
    BY <1>11 DEF Inbound
  <2>2. CASE sock[s].sent = "bye"
    BY <1>8, <1>11, <2>1, <2>2 DEF Inbound
  <2>3. CASE sock[s].sent # "bye"
    <3>1. ShellOver /\ srv' = [srv EXCEPT ![s] = "done",
                                          ![IF att = None THEN s ELSE att] = "done"]
      BY <1>11, <2>3 DEF Inbound
    <3>2. srv' \in [Socks -> {"none", "live", "done"}]
      BY <1>1, <3>1 DEF ServerOK
    <3> QED
      BY <1>10, <2>1, <3>1, <3>2 DEF ShellOver
  <2> QED
    BY <2>2, <2>3
<1>12. ASSUME NEW s \in Socks, Lost(s) PROVE ServerOK'
  BY <1>8, <1>12 DEF Lost
<1>13. CASE ShellExits
  <2>1. srv' \in [Socks -> {"none", "live", "done"}]
    BY <1>1, <1>13 DEF ShellExits, ServerOK
  <2> QED
    BY <1>10, <1>13, <2>1 DEF ShellExits, ShellOver
<1>14. CASE Reap
  BY <1>1, <1>10, <1>14 DEF Reap, ServerOK
<1>15. CASE PongIsLate \/ Output
  BY <1>1, <1>3, <1>15 DEF PongIsLate, Output, ServerOK
<1>16. ASSUME NEW s \in Socks, Opened(s) PROVE ServerOK'
  BY <1>1, <1>3, <1>16 DEF Opened, ServerOK, serverVars
<1>17. ASSUME NEW s \in Socks, Receive(s) PROVE ServerOK'
  <2>1. UNCHANGED <<srv, shell, quiet, att, seen>> /\ pong' \in {pong, "fresh"}
    BY <1>17 DEF Receive
  <2> QED
    BY <1>1, <1>3, <2>1 DEF ServerOK
<1>18. ASSUME NEW s \in Socks, Closed(s) \/ Cut(s) PROVE ServerOK'
  BY <1>5, <1>18 DEF Closed, Cut
<1>19. CASE \/ Reconnect \/ Watchdog \/ PingsStop \/ UserCloses
            \/ Switch \/ Hide \/ Show \/ Discard \/ Reload
  BY <1>5, <1>19 DEF Reconnect, Watchdog, PingsStop, UserCloses, Switch, Hide, Show, Discard,
                     Reload
<1> QED
  BY <1>6, <1>7, <1>9, <1>11, <1>12, <1>13, <1>14, <1>15, <1>16, <1>17, <1>18, <1>19
     DEF Next, Events, Server

\* The active tab of a page is an open one.
FrontOK == front \in BOOLEAN /\ (front => tab.open)

LEMMA FrontStep ==
  ASSUME Inv, Next
  PROVE  FrontOK'
<1>1. FrontOK /\ tab \in TabTypes(used)
  BY Typed DEF Inv, TypeOK, FrontOK
<1>2. ASSUME front' = front, tab'.open = tab.open PROVE FrontOK'
  BY <1>1, <1>2 DEF FrontOK
<1>3. ASSUME NEW k, NEW why, CloseTab(k, why) PROVE FrontOK'
  BY <1>3 DEF CloseTab, FrontOK
<1>4. ASSUME NEW k, NEW clean, OnClose(k, clean) PROVE FrontOK'
  <2>1. CASE ~tab.open
    BY <1>2, <1>4, <2>1 DEF OnClose
  <2>2. CASE tab.open /\ clean /\ ~tab.force
    BY <1>3, <1>4, <2>2 DEF OnClose
  <2>3. CASE tab.open /\ ~(clean /\ ~tab.force)
    <3>1. /\ tab' = [[tab EXCEPT !.force = FALSE] EXCEPT !.timer = TRUE]
          /\ front' = front
      BY <1>4, <2>3 DEF OnClose, Scheduled
    <3> QED
      BY <1>1, <1>2, <3>1 DEF TabTypes
  <2> QED
    BY <2>1, <2>2, <2>3
<1>5. ASSUME NEW t \in TabTypes(used), t.open = tab.open, CheckLiveness(t), front' = front
      PROVE  FrontOK'
  <2>1. tab' \in {[t EXCEPT !.force = TRUE], [t EXCEPT !.watch = @ \/ Watched(t)]}
    BY <1>5 DEF CheckLiveness
  <2>2. tab'.open = t.open
    BY <2>1 DEF TabTypes
  <2> QED
    BY <1>2, <1>5, <2>2
<1>6. CASE \E s \in Socks : Opened(s)
  <2>1. /\ front' = front
        /\ tab' \in {tab, [tab EXCEPT !.pinged = "fresh", !.watch = TRUE]}
    BY <1>6 DEF Opened, pageVars
  <2> QED
    BY <1>1, <1>2, <2>1 DEF TabTypes
<1>7. ASSUME NEW s \in Socks, Receive(s) PROVE FrontOK'
  <2>1. \/ \E k \in {Over([sock EXCEPT ![s].down = Tail(@)], s)}, c \in BOOLEAN : OnClose(k, c)
        \/ \E k \in {[sock EXCEPT ![s].down = Tail(@)]} : CloseTab(k, "exit")
        \/ tab' = [tab EXCEPT !.pinged = "fresh", !.watch = TRUE] /\ front' = front
        \/ tab' = tab /\ front' = front
    BY <1>7 DEF Receive
  <2> QED
    BY <1>1, <1>2, <1>3, <1>4, <2>1 DEF TabTypes
<1>8. ASSUME NEW s \in Socks, Closed(s) PROVE FrontOK'
  <2>1. OnClose(Over(sock, s), FALSE)
    BY <1>8 DEF Closed
  <2> QED
    BY <1>4, <2>1
<1>9. CASE Reconnect \/ PingsStop
  <2>1. /\ front' = front
        /\ tab' \in {[tab EXCEPT !.timer = FALSE, !.ws = used'], [tab EXCEPT !.pinged = "quiet"]}
    BY <1>9 DEF Reconnect, PingsStop, pageVars
  <2> QED
    BY <1>1, <1>2, <2>1 DEF TabTypes
<1>10. CASE Watchdog
  <2> DEFINE t == [tab EXCEPT !.watch = FALSE]
  <2>1. t \in TabTypes(used) /\ t.open = tab.open
    BY <1>1 DEF TabTypes
  <2>2. front' = front /\ (CheckLiveness(t) \/ tab' = t)
    BY <1>10 DEF Watchdog, pageVars
  <2> HIDE DEF t
  <2> QED
    BY <1>2, <1>5, <2>1, <2>2
<1>11. CASE Show
  <2>1. front' = front
    BY <1>11 DEF Show
  <2>2. CASE CheckLiveness(tab)
    BY <1>1, <1>5, <2>1, <2>2
  <2>3. CASE tab' = Scheduled(tab)
    BY <1>1, <1>2, <2>1, <2>3 DEF TabTypes, Scheduled
  <2>4. CASE tab' = tab
    BY <1>2, <2>1, <2>4
  <2> QED
    BY <1>11, <2>2, <2>3, <2>4 DEF Show
<1>12. CASE Discard \/ Reload
  <2>1. \/ front' = FALSE
        \/ front' \in BOOLEAN /\ tab' = NewTab(used')
        \/ UNCHANGED <<front, tab>>
    BY <1>12 DEF Discard, Reload
  <2>2. CASE front' = FALSE
    BY <2>2 DEF FrontOK
  <2>3. CASE front' \in BOOLEAN /\ tab' = NewTab(used')
    <3>1. tab'.open = TRUE
      BY <2>3 DEF NewTab
    <3> QED
      BY <2>3, <3>1 DEF FrontOK
  <2>4. CASE UNCHANGED <<front, tab>>
    BY <1>2, <2>4
  <2> QED
    BY <2>1, <2>2, <2>3, <2>4
<1>13. CASE UserCloses
  BY <1>3, <1>13 DEF UserCloses
<1>14. CASE Switch
  BY <1>14 DEF Switch, FrontOK
<1>15. CASE Hide
  BY <1>2, <1>15 DEF Hide
<1>16. CASE Outside
  BY <1>2, <1>16 DEF Outside, Server, Accept, Inbound, Lost, Refuse, Heartbeat, Cut, PongIsLate,
         ShellExits, Output, Reap, pageVars
<1> QED
  BY <1>6, <1>7, <1>8, <1>9, <1>10, <1>11, <1>12, <1>13, <1>14, <1>15, <1>16
     DEF Next, Events, Outside

LEMMA InvStep == Inv /\ [Next]_vars => Inv'
<1>1. ASSUME Inv, UNCHANGED vars PROVE Inv'
  BY <1>1 DEF Inv, TypeOK, Made, Gone, vars, serverVars, pageVars
<1>2. ASSUME Inv, Next PROVE Inv'
  <2>1. ClientKeeps /\ ServerOK' /\ FrontOK'
    BY <1>2, ClientStep, ServerStep, FrontStep
  <2>2. page' \in {"visible", "hidden", "gone"} /\ troubles' \in 0 .. MaxTroubles
    <3>1. /\ page \in {"visible", "hidden", "gone"} /\ troubles \in 0 .. MaxTroubles
          /\ MaxTroubles \in Nat
      BY <1>2, ClientAssumption DEF Inv, TypeOK
    <3>2. page' \in {page, "visible", "hidden", "gone"}
      BY <1>2 DEF Next, Events, Server, Opened, Receive, Closed, Accept, Inbound, Lost, Refuse,
                  Heartbeat, Cut, Reconnect, Watchdog, PingsStop, UserCloses,
                  Switch, Hide, Show, Discard, Reload, PongIsLate, ShellExits, Output, Reap,
                  pageVars
    <3>3. troubles' = troubles \/ (troubles < MaxTroubles /\ troubles' = troubles + 1)
      BY <1>2 DEF Next, Events, Server, Opened, Receive, Closed, Accept, Inbound, Lost, Refuse,
                  Heartbeat, Cut, Reconnect, Watchdog, PingsStop, UserCloses,
                  Switch, Hide, Show, Discard, Reload, PongIsLate, ShellExits, Output, Reap,
                  pageVars
    <3> QED
      BY <3>1, <3>2, <3>3
  <2>3. used \in 0 .. MaxSocks /\ MaxSocks \in Nat
    BY <1>2, Typed DEF Inv
  <2>4. CASE used' = used /\ SameSocks(sock', sock) /\ TabKeeps
    <3>1. Made' /\ Gone'
      BY <1>2, <2>4 DEF Inv, Made, Gone, TabKeeps, SameSocks
    <3>2. TypeOK'
      BY <2>1, <2>2, <2>3, <2>4 DEF TypeOK, ClientKeeps, ServerOK, FrontOK, TabKeeps, TabTypes,
                                     SockTypes
    <3> QED
      BY <3>1, <3>2 DEF Inv
  <2>5. CASE /\ used' = used + 1 /\ used < MaxSocks /\ ended' = "no"
             /\ tab' \in TabTypes(used') /\ tab'.ws = used' /\ saved' \in BOOLEAN
             /\ \A s \in Socks : sock'[s].state = "none" <=> used' < s
    <3>1. used' \in 0 .. MaxSocks /\ used' # None
      BY <2>3, <2>5 DEF None
    <3>2. Made' /\ Gone'
      BY <2>5, <3>1 DEF Made, Gone
    <3>3. TypeOK'
      BY <2>1, <2>2, <2>5, <3>1 DEF TypeOK, ClientKeeps, ServerOK, FrontOK, TabTypes, SockTypes
    <3> QED
      BY <3>2, <3>3 DEF Inv
  <2> QED
    BY <2>1, <2>4, <2>5 DEF ClientKeeps
<1> QED
  BY <1>1, <1>2

\* Types; and the server never holds a view whose handler is done or whose shell
\* is over.
THEOREM ClientTypes == Spec => []TypeOK
<1>1. Inv => TypeOK
  BY DEF Inv
<1> QED
  BY <1>1, InvInit, InvStep, PTL DEF Spec

\* A tab the user closed, or whose shell is over, is connected no more: closeTab
\* clears the timer and removeSavedTabId the id before the close events of its
\* sockets come, and neither these, a page that is shown again, the watchdog nor a
\* reload schedule another.
THEOREM ClosedTabsStay == Spec => ClosedStaysClosed
<1>1. Inv /\ [Next]_vars => [ended # "no" => used' = used]_vars
  BY ClientStep DEF ClientKeeps
<1> QED
  BY <1>1, InvInit, InvStep, PTL DEF Spec, ClosedStaysClosed
=============================================================================
