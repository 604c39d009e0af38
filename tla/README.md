# AI Gate in TLA+

AI Gate is a local gateway for language models: it offers OpenAI- and
Anthropic-compatible endpoints, routes each request to a configured provider or
to a combination of providers, and comes with a web interface that holds
terminals, a chat, a store of configuration and a loop that lets a coding CLI
repair the gateway's own logged errors. This directory models the parts of it
in which something can go wrong that a test would hardly reach: threads, an
event loop with awaits, a browser that freezes, streams cut anywhere, retries,
and ids that are used again.

Paths below are relative to the repository's root; `backend/` stands for
`src/backend/` and `static/` for `src/frontend/static/`.

- [1 Inventory](#1-inventory)
- [2 Modules](#2-modules)
- [3 What is checked](#3-what-is-checked)
- [4 What is proved](#4-what-is-proved)
- [5 What the models show of the code](#5-what-the-models-show-of-the-code)
- [6 What is not modelled, and the plan](#6-what-is-not-modelled-and-the-plan)

To check one run: `tlc -config MCPtyStream.cfg MCPtyTerminal.tla`; to check the
proofs of a module: `tlapm PtyTerminalProofs.tla`. `PROJECT.json` lists all runs,
the lines of code behind every definition (`map`), the hazards and the mutants: a
mutant is a plausible bug, written as an operator with the comment "Defect", and
the property it is listed with fails when it takes the place of the original.

## 1 Inventory

| component | state | operations | what is hard |
|---|---|---|---|
| **Terminal sessions** `backend/terminal/{session,router,pty}.py` | registry of sessions by tab; per session the ring of recent output, the attached view, exit flags, clocks | WebSocket connect, attach, replay, pump, pong, heartbeat, close and kill frames, detach; reader thread; reaper; REST CRUD of tabs | one reader thread per session, the event loop, and the self-heal thread share it under two locks; views take a session over from each other; kill and read may fail |
| **Terminal tabs** `static/terminal.js` | the tab's WebSocket, reconnect timer, watchdog, force flag; the id in sessionStorage | open, reconnect, watchdog, page hidden / shown / discarded / reloaded, close | sockets that look open after their connection broke; a frozen page; events that arrive after the tab was closed |
| **Self-heal** `backend/selfheal.py`, `selfheal_router.py` | `_running`, `_last_result`, `_progress`; sentinel files; a git branch; rows of the error log | start, one pass per row (type a command, wait for the sentinel, test, delete the row), merge; status | a thread, a CLI that may time out and finish later, the user, other writers of the log, and git, each of which may fail half way |
| **Accounts** `backend/oauth.py`, `accounts_router.py` | accounts with tokens, `last_used_at`, in-memory streaks, pending OAuth states | choose a credential (pin, priority, sticky round robin), refresh a token, edit; OAuth start and callback | refusals and expiries in the middle of a rotation; restarts lose the streak and keep the order of use |
| **Combo routing** `backend/combo_routing.py` | a cursor per combo; per request the candidates, credentials and cursors | build candidates, order by strategy and quota, call, switch account, fall over, stream | two requests share the cursor, the accounts and the quota, across awaits |
| **Gateway** `backend/gateway/{router,resolver,provider_adapter,translator,responses,token_saver,errors}.py` | per request only; usage records and request logs | `/v1/chat/completions`, `/v1/messages`, `/v1/responses`, `/v1/models`; endpoint authorisation and routing; translation; streaming | a stream in pieces cut anywhere, failing after the status was sent; two formats of one message; usage told twice |
| **Configuration store** `backend/models.py`, `{providers,accounts,combos,endpoints}_router.py`, `export.py` | the tables; rows refer to each other by id, with no foreign key enforced and with ids given out again | CRUD, discovery, sign-in, bind, export and import | handlers that write after an await under an id that changed hands; deletions that must cascade by hand |
| **Usage and quota** `backend/usage.py`, `usage_router.py`, `analytics_*.py` | usage records | record, sum over a window, summaries | the quota is read before and charged after the answer |
| **Proxy pools** `backend/proxies_router.py`, `proxy_selector.py` | pools, nodes and their health; a rotation cursor | CRUD, health check, selection | a health check keeps a transaction and a connection for seconds while nodes are edited, deleted and their ids given out again |
| **Chat playground** `backend/chat_router.py` | sessions and messages | complete with a teed stream, CRUD | the user's turn is saved before the answer, the session may be deleted during the stream |
| **CLI tools** `backend/cli_tools_router.py`, `cli_presets.py`, `cli_compat.py` | configuration files of other programs | detect, install, write a preset | files edited by others between read and write |
| **Settings, logs, secrets** `backend/config/*`, `log.py` | settings rows, log rows | read, write, retention | little: single rows, one request at a time |
| **Database** `backend/config/db.py`, `models.py` | the schema; fifteen connections | checkout, migrations | connections kept during a wait for something else; ids given out again; foreign keys not enforced |
| **Server, admin, launcher** `backend/{server,launcher,admin_router,paths}.py` | the process | start, stop, restart, static files | a restart may come in the middle of a repair |
| **Frontend pages** `static/*.js` | the page | rendering and forms over the REST API | little, but for polling in `selfheal.js` |

How they interact:

- A browser tab (`terminal.js`) talks to `terminal_ws` over a WebSocket; JSON
  frames carry pings, pongs, the exit notice and the kill request.
- The self-heal thread uses the terminal registry for its own tab, from a thread
  of its own, and reads and deletes rows of the log that everybody writes.
- A gateway request asks the resolver for a provider or combo; a combo asks the
  account choice for every candidate; both end in a usage record, which the next
  request reads as quota. The token saver makes a choice of its own first.
- `/v1/messages` with a stream puts the Anthropic encoder behind the OpenAI stream
  of the provider adapter, and reads the usage from the same bytes again.
- A request through an endpoint may go out through a node of a proxy pool, and keeps a
  database connection while it waits for the upstream; so do a health check, a model
  discovery, a sign-in and a self-heal run.
- The chat playground calls the gateway in-process and stores what its stream brought.
- A coding agent sends its conversation again at each turn, and each turn may be served
  by an upstream of another format.
- All routers write the same tables, and the gateway reads them at every request.

What makes each of them correct is stated as the properties of section 3.

## 2 Modules

### PtyTerminal, TerminalView: the terminal on the server

`PtyTerminal` follows `session.py` at the grain of its locks: an action is one
critical section, one call on the PTY, or one stretch of a coroutine between two
awaits. All coroutines are one actor `Loop`, since only one of them runs at a
time; `pc[Loop]` says where it is when a stretch takes several locks. The self-heal
thread is another actor that runs the same `get_or_create` and kill path; reader
threads have a program counter each.

| variables | code |
|---|---|
| `registry`, `keyOf` | `_sessions`, `tab_key` |
| `shell`, `unread` | the child process and the output `read()` has not returned |
| `outSeq`, `ring`, `att`, `exited`, `exitView`, `stop`, `idle`, `pong` | fields of `PtySession` |
| `rpc`, `hand` | `_reader_loop`; an item captured under the lock and not yet queued (`_deliver`) |
| `pc`, `tgt`, `job`, `sweep`, `doomed`, `why` | locals of `try_reap`, `_kill_and_unregister`, `get_or_create`, `reap_idle` |
| `vst`, `bound`, `replay`, `queue`, `got`, `pump`, `sock`, `closing` | `terminal_ws`, its pump and heartbeat, and what the client was sent |

A connection is identified with the `asyncio.Queue` that `attach` makes for it. Output
is numbered: chunk n is the n-th the shell printed. `TerminalView` is what a viewer
may rely on, without threads, queues or buffers: a gap-free run of one session's
output, then at most one exit notice and nothing after it. `PtyTerminal` implements
it (`KeepsPromise`).

### TerminalClient: the tab in the browser

One tab of `terminal.js`: its WebSocket objects (several exist at once: one closing,
one connecting), the reconnect timer, the watchdog that looks for pings, page
visibility, and the id that survives a reload. The server is cut down to what a
client can tell of it: a handler per socket, whether the shell runs, who is
""attached, and whether the shell has been silent for long (`quiet`, which output ends at
any time), since only an idle session is reaped. Connections reach the server in the
order they were made and a pong arrives at once; a visible page answers pings, a hidden
one may not for longer than `PONG_TIMEOUT`. `front` says whether the tab is the active
one: the one-shot watchdog of a tab in the background expires without being set again,
and `Switch` (`activate`) fits the terminal and does not look at the socket.

### SelfHeal: the repair loop

`run_self_heal` and its thread, `start_self_heal`, `wait_for_done`, the terminal that
runs typed command lines one after the other, the CLI of an attempt (which may end
after the attempt timed out), git, the rows of the log, and their other writers. An
attempt is one CLI pass; it owns a temporary directory and with it its sentinel
file. `Restart` is the restart of the server (`admin_router.py`) at any moment: what the
module keeps in memory begins anew and the shells are gone, while the log, git and the
checked-out branch stay as they are, and a git command under way may still take effect.
Rows of the log are their ids, as SQLite gives them out: a new row has the id after the
largest in the table (`top`), so that a row that was purged leaves its id to a later one;
`again` records that this befell the issue in hand.

### ProviderAccounts, AccountSelection, ComboRouting: who serves a request

`ProviderAccounts` has the choice of a credential as operators on a record, the
*book* (tokens, order of last use, streaks), so that `AccountSelection` can make it
the only action, and `ComboRouting` can thread it through a handler that chooses
several times. The order of `last_used_at` is a relation, which saves a clock.

`ComboRouting` runs two requests against one combo: the token saver's lookup,
`build_candidates`, the order by quota, the strategies, each call upstream, the
switch to another account, the fallback to another member, streams, and the usage
record. `turn` is the request whose handler holds the event loop; it is given up
only at a call upstream. `three_tier` orders the members and then behaves like
`fallback`, so it is covered by the numbering of the members. At any call an exception
that is no `UpstreamError` may end the request (`Breaks`): `execute_combo` catches nothing
else. The commit of the cursor may fail (`Rotates`); `rr` records the last rotation and
whether it was saved.

### MessagesStream, AnthropicEvents: a streamed answer

The path of one streamed `/v1/messages`: bytes arrive in pieces cut anywhere,
`_iter_openai_sse_chunks` puts frames together, `_AnthropicSseEncoder` turns chunks
into events, a client that may leave is sent them one by one, and the usage is
extracted from the raw bytes at the end. A frame is four bytes: two that are JSON
only together, and two line feeds; that is enough to cut within the JSON, between
the line feeds, and between frames. A chunk whose JSON has a raw U+2028, U+2029 or U+0085
(`split`) is not `Legible`: `str.splitlines()` cuts its line there, and it is dropped like one
that is no JSON. `AnthropicEvents` is the order of events a
client may rely on, and `MessagesStream` implements it (`InOrder`).

### ConfigStore: rows and the ids that name them

Providers, models, accounts, combos, members, endpoints and bindings, with every
handler that creates, links or deletes them; discovery and the OAuth callback as two
steps around their await; the requests of the gateway, which leave usage records;
and export and import. Since SQLite gives the highest id out again after its row
was deleted, a provider, combo or endpoint is represented by its *birth*, a number
never used twice; a row that refers to one carries the id (what the code has) and
the birth it was written for (history, which no guard reads). A property can then
say that a link still names the very row it was made for. Handlers without an await
run as one step: the code runs them in a thread pool, each in one transaction,
except that `create_endpoint` and `create_combo` commit twice. `create_combo`,
`create_member`, `update_member`, `create_endpoint`, `update_endpoint` and `bind_endpoint`
do not look whether the row exists that they link, so a client with a stale page may link
any id; a link to an id that nobody has is written for `NoRow`.

### DbConnections, ProxyPools, GatewayRequests, ChatSessions: around a request

Four modules, each of which extends the one before it.

| module | variables | code |
|---|---|---|
| `DbConnections` | `held` | those that keep a connection of SQLAlchemy's pool while they wait for something else |
| `ProxyPools` | `pools`, `strategy`, `cursor`, `home`, `status` | rows of `proxy_pools` and `proxy_nodes` |
| | `bound`, `probe`, `tally`, `again` | `Endpoint.proxy_pool_id`; what a health check has loaded; history: who was chosen, and after which choices the cursor was not saved |
| `GatewayRequests` | `phase`, `kind`, `result`, `busy` | how far the coroutine of a call is, what it answers with, how it ended, and who is between two awaits |
| | `usage`, `rows`, `starved` | `usage_records`, `request_logs`; history: calls that found no connection |
| `ChatSessions` | `chats`, `ready`, `msgs` | `chat_sessions` with and without a model, `chat_messages` |
| | `prompt`, `of`, `spoke`, `stored` | locals of `complete_session` and `_tee_sse_and_persist` |
| | `birth`, `births`, `late` | history: which session had an id, and what was stored after its deletion |

A handler is cut where a connection is checked out and where it awaits. Most code takes
a connection for one short transaction, so `held` has only those that keep one: a
call through an endpoint that waits for the upstream (`_route_via_endpoint` is one long
`with SessionLocal()`), a health check that probes, and the errands (`Borrow`, `GiveBack`):
the search for a provider's models and the token exchange of a sign-in, which are
coroutines, and a self-heal run in its thread, which reads an issue and keeps its session
open while the CLI and the tests run. The session of a combo is open during the calls too,
but its last transaction has ended, and with it the loan. A checkout that finds none
blocks the event loop and then fails. The upstream is free to answer, fail, break off
or send what the handler cannot read, at any time, and so is the client to leave.

A health check is two steps, `StartCheck` and `FinishCheck`, between which the REST API
may do anything; what it writes is the difference to what it loaded, as the ORM does. A
choice of a node is part of the step that calls the upstream; its cursor may fail to be
saved (another thread holds the lock of the database), and then the next request gets
the node again. The playground's turn is
a call like one over HTTP, between the question stored before it (`Ask`) and the answer
stored after it (`Store`), in the stretch of code that recorded the usage.

### AgentLoop: a conversation in three formats

`translator.py` for a coding agent that works through `/v1/messages`: the agent's
conversation in the Anthropic form is turned into the OpenAI form (`ToChat`), the savers
add their instructions (`Instructed`), it is turned into the form of the upstream
(`Dressed`), and the answer is turned back (`AnswerIn`, `StopReason`, `ToAgent`) and becomes
part of the conversation that is sent next time. The conversions are pure operators;
what can go wrong is their composition over turns served by upstreams of different
forms. Contents are numbered pieces that occur once, so that a loss, a doubling or a
change of place shows.

### MCGateway

One module for TLC instantiates `AccountSelection`, `ChatSessions` (with all that is under
it) and `AgentLoop`. The constant-valued variable `part` says which of them a behaviour
is about: accounts, the HTTP surfaces, proxy pools, chat, or the agent.

## 3 What is checked

| run | properties | what it shows |
|---|---|---|
| `pty_stream` | StreamUnbroken, RingIsRecent, KeepsPromise, OnlyOwnDetach | two connections fight over one session while its shell prints, dies or is closed: no chunk is lost, repeated or reordered for an open view; the ring is the newest output; the implementation of TerminalView; an old connection's teardown leaves the new one attached |
| `pty_heal` | NoOrphanShell, ExitFrameHonest, ToldOnce | the event loop and the self-heal thread spawn, drop and kill sessions of one tab: no running shell is forgotten, no exit frame is sent of a session that goes on, and a view is told of the end once, also one that attached between the decision to reap and the kill |
| `pty_live` | ViewOfDeadShellEnds, DeadSessionReclaimed | with failing reads and kills, and the event loop alone: a view of a dead shell ends, a dead session leaves the registry |
| `client` | ClosedStaysClosed, Reattaches, ShellsEnd | a closed tab never connects again, the active one of a visible page gets a live connection, a shell without a tab that has fallen silent ends |
| `client_stale` | ExitedMeansDead (violated) | a tab closes itself as ended while its shell runs |
| `heal` | DoneIsOwn, MergedMeansHealed, StatusHonest, DeletesWhatItTested, RunEnds | two runs with failing database, git and crashes, late CLIs, foreign writers, ids of rows given out again and restarts of the server: among others, that only the tested row is deleted unless its id went to a later one, and what the status of a run that is over does say and what it does not |
| `heal_idle_merge` | IdleRunMergesNothingUntested (violated) | a run with nothing to heal merges what an aborted one left |
| `gateway` | ChoiceIsSound, StreakBounded, NoneStarves | *accounts*: pinned and unpinned choices of three accounts under edits, expiry, refused refreshes and restarts |
| | Bookkeeping, ConnectionsComeBack | *http*: two calls over any surface and route, a health check, a lookup and a repair, on a pool of two connections: one usage record for an answer in full and none for another, one row in the log, every connection given back |
| | RotationEven | *pools*: three requests through an endpoint while pools and nodes are edited, deleted, created and checked and the cursor may not be saved: no healthy node has two turns more than another |
| | StoredIffBilled, NoTurnForgotten, AnswersBelong | *chat*: three overlapping turns of a session that may be deleted and its id given out again |
| | ToolsAnswered, TurnsSurvive | *agent*: a conversation of five messages over upstreams of all formats, with tools, images, failures and savers |
| `combo` | FailsOnlyAfterAll, ServerIsBilled, QuotaOvershootBounded, NextMemberDiffers | two requests, streamed or not, to a combo of three members of two providers, one of which cannot stream, with exceptions that nobody catches and a cursor that may not be saved |
| `combo_switch` | SwitchGoesToNewAccount (violated) | a refused account is asked again |
| `messages` | NothingLost, BlocksPure, UsageAgrees, InOrder, HonestEnd | all streams of up to three frames, two kinds of which are cut by `splitlines()`, in all pieces, with failures and disconnects |
| `config` | TargetsStand, RowsTellTheirProvider | links and rows keep naming what they were made for while ids are used again and clients link ids that nobody has |

The violated runs are findings: each property quotes what a comment or a
document of the repository says (section 5).

### Bounds, and why they suffice

- **Terminal.** One tab and two views in `pty_stream`, because a session is only ever
  contested between the view that holds it and one newcomer; two chunks, of sizes 2
  and 1, and a ring of size 1, so that one chunk overflows the ring alone and the
  second evicts it; no failing calls there, which `pty_live` has. `pty_heal` has two
  sessions, since an orphan needs a successor that overwrites it, one view, since a kill
  concerns one, failing reads, and no output.
  `Grace` is one tick in `pty_live`: idle or not yet. One healer: `_running` admits one
  run at a time. A view of `Ponging` answers heartbeats, the others never do.
  `pty_stream` is symmetric in its views; it checks no liveness.
- **Client.** Three sockets allow one that closes, one that was scheduled twice and
  one more; one broken connection, failed spawn or discarded page (`MaxTroubles`).
- **Self-heal.** Two ids for rows, which may come and go at any time: an issue and its
  heir, or an issue and another row; two runs, so that the second meets what the first
  left; one round per run, plus the final count. Attempts are not bounded by a constant
  of their own but by runs and rounds.
- **Accounts.** Three accounts, one with refresh tokens, and a limit of 2: a streak, its
  end, and somebody to be passed over for two streaks.
- **Gateway.** No step of one part reads or writes what another part keeps (the parts that
  share the modules around a request differ in what they ask), so the reachable states
  of the parts add up instead of multiplying, and nothing is missed by looking at them
  one at a time. Calls are one-shot and interchangeable, and start in the order of their
  numbers. *http*: fifteen connections are scaled down to two: two calls of endpoints, or
  any two of a call, two checks, a lookup and a repair, leave none. *pools*: two pools and
  two nodes, since evenness compares pairs and an id needs one successor; three edits, so
  that a pool can be deleted, created again and given a node; the requests run one after
  the other, because a choice is one step wherever other calls are; one check at a time.
  *chat*: three turns, one session id and two births: a deleted session and its heir; two
  errands exhaust the connections (a check would do it in the same way). *agent*: five
  messages are two rounds of tools and the end; five pieces, so that an answer can have
  two calls with text between; savers all or none.
- **Combo.** Two requests suffice for every race on the cursor or the quota, which
  are shared by pairs; three members of two providers, so that a provider
  occurs twice, one of them not streamable, so that streams and other requests choose
  from lists of different length; a quota of 1 on one of them; two accounts of one
  provider. Usage is counted in records up to `MaxSpent`. One account and one member
  change during the requests.
- **Messages.** Three frames: an opening, something interleaved, an end. Two tools. Of the
  kinds of chunks two are split, one with text and one with usage, so that each can be lost
  before, between and after others.
- **Config.** One provider id and one combo id, since reuse of an id needs only one;
  two endpoint, model and binding ids, so that an import can meet other rows;
  three births: a provider, its successor and an endpoint or combo; one handler
  or pending sign-in at a time (`MaxBusy`): each writes rows of its own provider and meets
  the others only in the tables, which the REST calls change as well.

`CHECK_DEADLOCK FALSE` stands where a system may really stop: when all its bounded
supplies (sockets, runs, requests, frames, births) are used up.

### Fairness

- **PtyTerminal.** Threads are scheduled by the operating system: weak fairness of each
  reader and actor. The event loop runs ready callbacks in FIFO order, so a coroutine
  that is ready again and again when the loop is free gets its turn: strong fairness
  of each connection's steps. `reaper_loop` sleeps a fixed time. Nothing is assumed
  of shells, clients or the clock.
- **TerminalClient.** Scripts and timers of a *visible* page run; nothing of a hidden
  one. The browser may never notice a broken connection, but the server's handler and
  reaper run on, and the pings stop.
- **SelfHeal.** The thread is scheduled, time passes, and git and pytest return. The last
  is an assumption the code does not enforce: neither has a timeout
  (`selfheal.py:757`). Nothing is assumed of the CLI, the user or the shell.
- **MessagesStream.** The response body runs on, and a read ends with bytes, the end,
  or the 300-second timeout. The client may leave at any time.

The other modules state safety only.

## 4 What is proved

TLAPS checks these for every value of the constants that satisfies the named
assumptions, where TLC checks the instances above.

| module | theorems |
|---|---|
| `PtyTerminalProofs` | `TypeCorrect`, `NoOrphan`, `OwnDetach`, `LoopKillsUnwatched`; `RingRecent`, `ExitFrameTrue`, `StreamWhole`, `PromiseKept` (the refinement of `TerminalView`) |
| `TerminalClientProofs` | `ClientTypes`, `ClosedTabsStay` |
| `SelfHealProofs` | `TypeCorrect`, `OwnSentinel`, `HonestStatus`, `MergeHeals`, `DeletesTested` |
| `ConfigStoreProofs` | `TypeCorrect`, `LinksStand`, `RowsTellTruth` |
| `GatewayProofs` | of `AccountSelection`: `TypeCorrect`, `ChoiceSound`, `StreakBound`, `NobodyStarves`; of `ChatSessions` and what is under it: `ConnectionsReturn`, `BooksAgree`, `AnswersAreStored`, `RotationIsEven`, `NothingForgotten`, `TranscriptsAreOwn` |
| `AgentLoopProofs` | `LoopTyped`, `CallsAnswered`, `TurnsAreTold` |
| `ComboRoutingProofs` | `ServerBilled`, `AllAreAsked`, `QuotaDefersOnly`, `OvershootBound`, `CredentialsAreOwn`, `RoutingTyped`, `TurnsMoveOn` |
| `MessagesStreamProofs` | `MessageTypes`, `FragmentsArrive`, `BlocksAreOwn`; for `UsageIsLast`: `UsageIsThatTold`, `EventsImplemented` (the refinement of `AnthropicEvents`) |

- **No orphan.** `NoOrphanShell` alone is not inductive: what keeps a running shell from
  being forgotten is where each thread is. `Control` says what a program counter
  vouches for (an actor past the decision to kill has a target; a delivering thread
  has an item in hand). `Lifecycle` adds that a session in use was spawned, that past
  the kill stage the shell is dead or its kill failed, and that a session marked
  exited runs on only until its kill. Types and `Control` are proved first, action by
  action, and `Lifecycle` and `NoOrphanShell` on top of them. The proof needs no bound
  on tabs, sessions, connections or healers, and takes no fairness.
- **Streams of the terminal.** The second half of the module goes on from there. `Settled`
  says where the handlers and readers are (a handler attaches once, a reader is started
  once); with it every step is either quiet (it hands out and shows nothing) or one of
  nine: a reader's publish, delivery and notice, a kill path's notice and delivery, and
  attach, replay, pump start and pump step of a view (`StepKinds`).
  `Holding` and `Telling` follow an item from the critical section that captured it to the socket: it is for a view of that session,
  and an exit sentinel in a queue or a hand vouches for a session marked exited; so much
  gives `ExitFrameTrue`. `StreamUnbroken` says nothing of a view that is no longer
  attached being *behind*; `Following` adds that no stream is ahead of the session's counter
  (`Sound`), which makes it inductive. The refinement of `TerminalView` is then argued by
  kind of step: quiet steps and hands stutter, attach binds, and replay and pump show
  the next stretch of a stream that `Sound` has in one piece.
- **Views and orphans.** `OwnDetach` needs only types and `Control`. That the reaper kills
  nobody's view rests on one actor alone attaching views (`OrphanStaysAlone`): what the
  event loop has condemned stays unwatched until it is dead, with any number of healers
  (`LoopKillsUnwatched`). A healer that reaps has no such protection (section 5); what the
  code still promises the view it meets is `ToldOnce`, which is model-checked.
- **Self-heal.** The invariant joins what the sentinel says of the current attempt
  (`Sentinel`: "done" is written only by a CLI that exited 0, into the directory of
  the attempt), what phase and result say of each other (`Reports`), and that between
  the count of zero and the merge no row of the run is open (`Healed`). `Tested` is all that
  the deletion needs: rows of others may come and go, but the issue in hand stays the one
  that was tested, unless its id has gone to a later row (`again`).
- **Streaks and waits.** A streak is bounded because `_STICKY` counts at least as far as the
  run of equal choices, unless a restart cleared it; and then the account is the youngest of
  its provider, so that the order of `last_used_at` moves on (`Streaks`). That a
  youngest and an oldest exist among any set of accounts is `Ordered`. This is where
  the two mechanisms of the code, the counter in memory and the column on disk, are
  seen to complement each other. A wait is bounded by a sum (`Patience`): the choices an
  account has waited, one streak for each account that was used less recently (`Ahead`), and
  what is left of the streak that is going on never exceed one streak for each other account.
  A choice moves one unit within the sum or takes one out of it.
- **Links.** The tables alone are not inductive either: an import brings in the tables of
  a file, so the file must have been sound (`FileStands`), and a handler writes after
  its await what it read before it, so that what it has in hand must still be true or
  be recorded as held (`HandlersTold`).
- **Connections.** `Connected` adds to `ConnectionsComeBack` that nobody but calls, checks and
  errands keeps one. Its step rests on `CallMoves`, which sums up every handler by
  what it does to the connections and to the phase of its call, so that the invariant is argued four times
  and not twelve.
- **Books.** What `Bookkeeping` and `StoredIffBilled` say of a call that has ended is not
  inductive: `Balanced` says of every phase what is written by then (nothing before the
  upstream is called, at most the row of the log while a stream flows, the usage but no
  answer while it is being stored). `Untouched` carries the books of all other calls over a
  step. The playground's turns, the requests over HTTP, the checks and the REST API are
  the actors of one specification here (`PlaySpec`), with any number of each.
- **Rotation.** That turns (`SavedTurns`) differ by at most one is not inductive; that of
  two healthy nodes the one whose turn comes sooner (`Gap`, counted from the cursor around
  the list) had not more turns is (`EvenTurns`). A choice whose cursor is not saved changes
  neither. The cursor is a number that only grows modulo a list whose length changes:
  every change of the healthy nodes starts the tallies anew (`RecountKeepsTurns`),
  and between two changes one step of the cursor goes once around (`Around`, by the
  uniqueness of division). That the list of a set has each node at one place is a fact
  about ranks (`RankOrders`, `ListedAt`).
- **Transcripts.** `NoTurnForgotten` speaks of the prompt of a question just asked. What makes
  it true is what the table holds of every turn whose session is still there
  (`Remembering`: its question, and after that its answer once it was said), and that a
  prompt is read in the step that stores its question. `Owned` has the exception for late
  answers. Ids are given out again, of sessions and of messages; the proof needs that a new
  message gets an id above all others (`NextIdIsNew`).
- **Conversations.** `ToolsAnswered` and `TurnsSurvive` speak of a request that was converted
  twice; the invariant (`LoopInv`) speaks of the conversation it is made of. User and
  upstream take turns, and the results a user writes are of the calls right before, each
  once (`Alternates`); the agent's copy holds what was said, and no text or call is of two
  turns (`Kept`); and a request is what the conversation of that moment is turned into. That
  answers become part of the conversation is why the two conversions have to agree:
  `AnswerKeeps` shows that an answer, whatever its form, comes back with the pieces that
  were said and with a stop reason that says "tool use" exactly when it has calls, and
  `UserWritesKeeps` that the next message then has their results. The rest is about one
  operation, what a function makes of each element put one after the other (`FlatMap`): joining
  blocks, turning messages and sending a conversation are all of this kind. `Flat` says
  what SequencesExt's `FlattenSeq` does with one sequence more, and everything else about it
  follows by a smallest counterexample (`BySeq`), without unfolding it again. `OutPaid` goes through
  the conversation message by message: after a user's message all calls are settled, after an
  answer all but its own (`Paid`). `FlatMapOrigin` gives each message that is sent the turn
  it is made of, in the order of the turns. Of the savers only that they are finitely many
  and different is used (`LoopAssumption`); the bounds on pieces and messages play no part.
- **Billing and the last candidate.** `Progress` says of a request under way what
  `ServerIsBilled` says of one that has ended: nothing is billed yet, and the members before
  the current one were asked; the current one is a place in the list (`Roster`), so that
  there is no next one only when all were asked (`AllAreAsked`). `QuotaDefersOnly` closes the
  gap before it: the list of a fallback request has every enabled member.
- **Quota.** `QuotaOvershootBounded` speaks only of what was charged. `Overshoot` counts the
  requests that may still charge as well: those under way that found quota left (`Going`).
  A request that finds some left does so while less than the quota is spent, so that even
  all requests together stay within the bound; an answer moves one of them from `Going`
  to `spent`, or is of a last resort (`spill`); a new window starts from nothing. The
  proof needs a finite number of requests, and nothing of the strategy.
- **Cursor.** `Onward`: after a choice that was saved, the cursor points into the list it was
  made from, and not at the member that was chosen. That is kept by every step, since no
  other choice comes between (`rr` is the last one); from it two choices in a row from one
  list differ, whatever other lists were used before.
- **Own credentials.** A member is asked with the API key of the provider or with an account of
  that provider (`OwnCredentials`; stated here and not among the runs' properties). The
  invariant (`CredInv`) says it of everything a request keeps: the account chosen for each
  member, the accounts to switch to, the key in hand. The accounts come from a fold over the
  members, each choice made on the book that the one before left; `FoldsExists` gives the
  function that the library's definition of the fold chooses, and `FoldsStay` follows it place
  by place, so that `BuiltGood` needs to look at one choice only (`AfterGood`). `RoutingTyped`
  comes with it: the cursor needs that a list is no longer than the combo has members, and
  `Cheapest` that a list which is not empty has a cheapest member (`CheapestIn`).

- **A message in the making.** `NothingLost` and `BlocksPure` speak of what was sent; what makes
  them inductive is the whole message, sent and still in hand (`said \o out`), against the
  chunks decoded so far (`Tidy`: the deltas are their fragments, in order, each in the block of
  its source). The encoder's operators are taken one by one, each with what it adds to the
  message (`WithTextIs`, `WithToolIs`, `FinalizedIs`), and the loop over the tool calls of a
  chunk, which the code writes as a loop and the model as a function, by a well-founded
  minimum (`UpTo`). Reading is shown to go frame by frame wherever the bytes were cut
  (`FrameInHand`, `ParsedIsNext`). A chunk that is not `Legible` adds nothing. This holds for
  upstreams that send their chunks in any order; the fragments of split chunks are left out
  of the promise.
- **Events and usage.** `Mirrors` relates the encoder to the history: the blocks it
  believes open are those opened and not closed, and each event was allowed by those
  before it (`Legal`). It is an invariant only until the message ends; that nothing follows the
  end needs `UsageIsLast` (`UsageComesLast`), and so do `UsageIsThatTold` and
  `EventsImplemented`. That the blocks of a message are closed one after the other,
  each once, is a fact about ranks in a finite set (`ClosingLists`).
- **Closed tabs.** `Gone`: a closed tab has no timer and no id to be restored from. The rest of
  the invariant is types, and that an open tab has a WebSocket (`Made`), without which the close
  would miss it.

Each theorem is about the specification of its module (`PlaySpec`, not the instance in
`MCGateway`). A type invariant that no theorem is about (`ChatTypeOK`) documents the variables
of its module.

Only model-checked: all liveness (`ViewOfDeadShellEnds`, `DeadSessionReclaimed`,
`Reattaches`, `ShellsEnd`, `RunEnds`, `HonestEnd`), which TLAPS does not reach. Of the
safety invariants and action properties of the passing runs all but `ToldOnce` are stated by a
theorem, two under the assumption named in the table.

## 5 What the models show of the code

### Findings (a run violates what the repository says)

1. **A live shell is closed as ended** (`client_stale`). The heartbeat drops a silent view
   with close code 1000 (`close_view`'s default), though `terminal.js` takes a clean 1000
   as "only ever follows the exit sentinel": a page that was frozen longer than
   `PONG_TIMEOUT` closes its tab and forgets the id when it runs again. The shell runs on
   until the reaper takes it.
2. **A refused account is asked again** (`combo_switch`). The switch counts accounts from
   the first one, not from the one that was chosen.
3. **Untested edits are merged** (`heal_idle_merge`). A run that aborted leaves its branch
   checked out; the next one branches off whatever that is, finds nothing to heal,
   and merges.

### Behaviour that the models contain and no property forbids

Properties are stated around these; each would need a decision by the authors.

Terminal sessions:
- `try_reap` decides under the lock and kills after it. With the event loop alone nothing
  comes in between, but the self-heal thread sweeps too (`selfheal.py:382`), and then a
  shell can be killed under a view that has just attached. The view is told once
  (`ToldOnce`).
- Idleness counts from the last output, not from the disconnect (`session.py:435` against
  30-32): a shell that was quiet for an hour under a view is reaped by the first sweep
  after the view drops.
- When the reader stopped on a read error and the self-heal thread drops the dead
  session, an attached view waits for ever. A failed kill leaves a running shell that
  nobody knows; output
  that was not read when a session is reaped is never shown.
- The pid of a tab is written best effort (`session.py:105-116`): an exception of the database
  leaves the row with an old pid. Nothing in the modules reads it; it is not modelled.
- The heartbeat and the pongs of a connection whose session was taken over act on the
  watchdog of the new view.

Terminal tabs:
- While a socket closes that the watchdog gave up, a page that is shown schedules a
  reconnect and the late close event schedules another, "instead of double-scheduling"
  (`terminal.js:417-419`). If the tab is closed while the newest socket still connects,
  the forgotten connection holds the shell; `ShellsEnd` excepts it by name.
- A clean close of an old socket, after the force flag was used up, closes a tab whose
  new shell runs. A deliberate close while the socket is not open sends no kill frame.
  A shell that died while the tab was away is replaced without notice. The ring is
  replayed into the same screen at each reattach.
- The watchdog of a tab in the background, or of a hidden page, fires once and returns
  without being set again and without closing the socket (`terminal.js:410`), and `activate`
  (652) does not look at the socket: a half-open tab comes to the front unguarded and stays
  dead until the page is hidden and shown, which is the fast path the comment at 393-396
  counts on. `Reattaches` excepts it by name (`Unguarded`).
- A shell that goes on printing is never idle, and runs on without a tab for as long as it
  prints (`session.py:24-32` says so); `ShellsEnd` speaks of one that is silent.

Self-heal: a failed CLI pass goes on to the tests like one that succeeded, and the row is
deleted and logged as resolved when they pass (935-961, against the docstring 13-16); a
late CLI may edit during the merge; a hanging git or pytest keeps `_running` for ever.

- A run whose tests failed ends with phase "done" (`selfheal.py:1008` writes it over
  "aborted"), like one that ran out of rounds; a crashed one keeps "driving" or "testing".
  `StatusHonest` says what is left to rely on.
- The row is deleted by its id (`selfheal.py:736-741`). If it was purged during the pass and its
  id given to a new row, the new one goes, which nobody worked on; `DeletesWhatItTested`
  excepts it by name (`again`).
- A restart in the middle of a run leaves the heal branch checked out, with a status of
  "idle". If the `execv` of a restart fails, `_restart_scheduled` stays set and no later
  restart is scheduled.

Accounts and combos:
- The saver's lookup is called a "side-effect-free pick" (`gateway/router.py:1557-1560`) but
  uses up a turn of every rotating provider it asks.
- After a switch the usage is charged to the refused account; an empty credential may be
  switched to (`oauth.py:408-409` says an empty one is never forwarded).
- Streams and other requests share one cursor over lists of different length and may be
  given the same member twice, and so may the next request when the commit of the cursor
  failed (`combo_routing.py:296-304`); the docstring (10-13) promises the rotation without
  these conditions, which `NextMemberDiffers` names.
- Only `UpstreamError` makes a combo go on to the next member. An exception of the translation
  (`translate_error` on `{"error": "text"}`, `translate_response` on an odd body) ends a fallback
  request before the others were asked; `FailsOnlyAfterAll` names this end ("broken").
- A quota is exceeded by requests that run together; `QuotaOvershootBounded` says by how
  much. A refresh blocks the event loop for up to 30 seconds. Cut streams leave no usage.

Messages:
- An upstream that sends usage in *every* chunk gets its message ended by the first one,
  and the rest follows it (`translator.py:929`). The constant `UsageIsLast` leaves such
  upstreams out; with FALSE, `InOrder` fails.
- `_extract_usage_from_sse` takes the last usage even if it is empty. Frames ended by CRLF
  are never split. `str.splitlines()` (`gateway/router.py:1087`) also cuts at U+2028, U+2029 and
  U+0085, which may stand raw in JSON: such a chunk is dropped in silence, with its text and
  its usage (`Legible`). A stream that ends cleanly without a stop reason is closed as if it
  had one. An error may follow `message_stop`.

Around a request:
- A call through an endpoint keeps its database connection while it waits for the upstream
  (`gateway/router.py:1716`, `837`), a health check while it probes, discovery, the creation of a
  provider and a sign-in while they wait for their answer (up to 30 seconds), and a
  self-heal run for the whole of an issue. Fifteen of them exhaust the pool (5 and 10
  more): the next checkout blocks the event loop for thirty seconds and fails, so that
  usage records and log rows are lost and calls end with 500.
  `Bookkeeping` and `StoredIffBilled` except the calls that met this (`starved`).
- A client that stops reading at `[DONE]`, before the upstream closes its connection, leaves
  no usage record, and in the playground no answer; a turn sent in between misses it too.
- A stream of `/v1/messages` is logged with status "error", though `router.py:651` speaks of
  mirroring the chat surface. An upstream body that cannot be turned into the answer may be
  charged though the client gets a 500.
- The missing combo of an endpoint's binding is an uncaught `TargetNotFound` (500), but for
  streams of the chat surface. An endpoint's provider is taken to speak the OpenAI format on
  the chat surface, whichever it has; a stream of `/v1/messages` from such a provider is
  refused. The token saver looks an endpoint up by id or name, and before the key is
  checked; `_route_via_endpoint` knows only names.

Proxy pools:
- A check writes only what differs from what it loaded. One node deleted meanwhile fails the
  whole batch; a node that was given the id meanwhile gets the verdict on another one; of
  two checks the last one wins. When the cursor cannot be saved, the next request gets
  the same node (`proxy_selector.py:89-97`); `RotationEven` counts turns, which end when the
  cursor is saved. An edit of a node's address keeps its "healthy", against
  `proxy_selector.py:23`.
- A deleted pool stays named by its endpoints, which then go out directly, or through the next
  pool with the id. An endpoint cannot be unbound from a pool. `enabled` of a pool is ignored.

Chat playground:
- The branch for an answer that is no stream (`chat_router.py:433-440`) cannot be reached. A
  retry stores the question twice. Two overlapping turns may store their answers in the
  other order. An answer of a deleted session stays as an orphan, and the next session with
  the id shows it; `AnswersBelong` excepts it by name (`late`).

Translation of a conversation:
- Text between two calls is put before both; images are dropped, and a message of images
  alone with them; `is_error` of a result is dropped; arguments that are no JSON become `{}`.
  `ToolsAnswered` and `TurnsSurvive` speak of the order within a kind for this reason.
- Gemini is sent neither tools nor calls nor results, only the texts.
- "stop" is not renamed `stop_sequences` for an Anthropic upstream; a string `tool_choice` is
  dropped; `stop_sequence` comes back as `end_turn`, and `content_filter` as "stop", which is
  no stop reason of the API.
- An empty answer is passed on as an empty text, and comes to an Anthropic upstream with
  no content at all in the next turn. The savers are those of a combo's first member,
  whichever member serves.

Configuration store:
- Deleting a provider that has a usage record fails and deletes nothing: the session sets
  `usage_records.provider_id` to NULL first, which the column refuses
  (`documents/analysis/FSD.md:69` and `tests/backend/test_providers.py:252` speak of a
  cascade; the test's provider has no usage). `RowsTellTheirProvider` depends on this:
  its mutant is exactly a deletion that succeeds.
- The handlers that link rows take any id (`combos_router.py:182-193`, `288-294`, `323-324`;
  `endpoints_router.py:171-174`, `233-237`, `288`). A link to an id that nobody has is inherited by
  the next row that is given it; `TargetsStand` excepts links that were made so (`NoRow`).
- Deleting a combo leaves the bindings to it; the next combo with the id serves the
  endpoint.
- A discovery or a sign-in that ends after its provider was deleted writes rows under the
  dead id, and the next provider that is given it inherits them.
- An import by merge may put another row in the place of a linked one and give an endpoint
  a second binding; an import by replacement keeps the usage of providers that are gone.
- The error answers of the OAuth routes pass status and content to `JSONResponse` in the
  wrong order (`accounts_router.py:166,416,423,429,457`), so they end as status 500.

## 6 What is not modelled, and the plan

Left out on purpose, within the modelled components: resize and keystrokes (no state that
a property sees), the delivery to an event loop that was shut down, REST CRUD of tabs;
tokens and costs (usage is counted in records), errors of the quota lookup, refresh
without `expires_in`; columns that link nothing; settings, proxy and CLI-tool tables of
an export; failures of the database other than an exhausted pool where a usage record, a
log row or an answer of the playground is written (they are swallowed, and lose the record
as that does); the tab's pid; what a probe of a proxy node sends; sampling parameters, tool
declarations and the wording of errors in the translation; the text that the rtk saver shortens.

Handlers without an await are one step each, though they run in worker threads and some
check or load before they write: `create_account`, `delete_session` (a question committed
between its read and its deletion would survive), `create_combo` and `create_endpoint` with
their two commits.

Components, or parts of them, left out altogether:

- **CLI tools** (`cli_tools_router.py`, `cli_presets.py`, `cli_compat.py`): command lines and
  configuration files are built from strings and settings, one request at a time. Nothing
  is shared with another component, and what could go wrong is the text itself.
- **The Responses API** (`gateway/responses.py`): a second pair of pure conversions, of one
  request and one answer without a conversation; its path through the handlers is in
  `GatewayRequests`.
- **Usage summaries, analytics, exports of them**: read-only queries.
- **Migrations**: additive, run once before anything else.
- **Settings and secrets**: single rows, read and written in one transaction.
- **Launcher, static files, frontend pages**: operating-system calls and rendering.

`PROJECT.json` lists every component with its status. The order of the modules was chosen
by how much of the system depends on each behaviour and how little a test reaches it.
What could come next:

1. **Responses API** as operators beside those of `AgentLoop`.
2. **Quota windows and analytics buckets** as functions of the clock, checked against a
   reference definition at the boundaries of days and months.
