---------------------------- MODULE GatewayRequests ----------------------------
(***************************************************************************)
(* What becomes of a call of the gateway (src/backend/gateway/router.py):  *)
(* /v1/chat/completions, /v1/responses and /v1/messages, streamed or not,  *)
(* by model reference or through an endpoint, and the calls the chat       *)
(* playground makes in-process.  The upstream is free to answer, to fail   *)
(* or to break off at any time (gateway/provider_adapter.py); which member *)
(* of a combo serves is the subject of ComboRouting, and the translation   *)
(* of a stream that of MessagesStream.                                     *)
(*                                                                         *)
(* All handlers are coroutines on one event loop and every database access *)
(* in them is a blocking call, so a step here is a stretch of code between *)
(* two checkouts of a connection.  busy names the call in the middle of    *)
(* such a stretch: nothing else runs on the event loop then, while health  *)
(* checks go on in their threads.                                          *)
(*                                                                         *)
(* The request log is taken to be switched on.                             *)
(***************************************************************************)
EXTENDS ProxyPools

CONSTANTS
    Requests,   \* calls over HTTP
    Turns,      \* calls made by the chat playground
    Lookups,    \* searches for a provider's models and sign-ins of accounts
    Repairs,    \* runs of the self-heal thread
    Nobody      \* no call

ASSUME CallAssumption ==
    /\ IsFiniteSet(Requests) /\ IsFiniteSet(Turns)
    /\ Requests \cap Turns = {} /\ Checks \cap (Requests \cup Turns) = {}
    /\ Nobody \notin Requests \cup Turns
    /\ IsFiniteSet(Lookups) /\ IsFiniteSet(Repairs)
    /\ (Lookups \cup Repairs) \cap (Requests \cup Turns \cup Checks) = {}

VARIABLES
    phase,      \* how far a call is
    kind,       \* how it is answered: one JSON body, or a stream of its surface
    result,     \* how it ended
    usage,      \* the usage records written for it
    rows,       \* the request-log rows written for it
    busy,       \* the call in the middle of a stretch of code
    starved     \* history: calls for which a checkout failed

callVars    == <<phase, kind, result, usage, rows, busy, starved>>
gatewayVars == <<held, poolVars, callVars>>

Calls   == Requests \cup Turns
Errands == Lookups \cup Repairs
Phases  == {"new", "asked", "calling", "logging", "streaming", "told", "storing", "ended"}
Kinds   == {"json", "chat", "messages"}
Results == {"none", "refused", "crashed", "failed", "mangled", "json", "eof", "cut", "left"}

GatewayTypeOK ==
    /\ PoolsTypeOK /\ held \subseteq Calls \cup Checks \cup Errands
    /\ phase \in [Calls -> Phases] /\ kind \in [Calls -> Kinds] /\ result \in [Calls -> Results]
    /\ usage \in [Calls -> 0 .. 1] /\ rows \in [Calls -> Seq({"ok", "error"})]
    /\ busy \in Calls \cup {Nobody} /\ starved \subseteq Calls

CallsInit ==
    /\ phase = [c \in Calls |-> "new"] /\ kind = [c \in Calls |-> "json"]
    /\ result = [c \in Calls |-> "none"] /\ usage = [c \in Calls |-> 0]
    /\ rows = [c \in Calls |-> << >>] /\ busy = Nobody /\ starved = {}

GatewayInit == PoolsInit /\ held = {} /\ CallsInit

-----------------------------------------------------------------------------
(* What is asked, and what the tables say to it                            *)

\* A request that cannot be read: no JSON object, no model, a field the
\* surface does not take (/v1/responses takes no stream).
Malformed == [surface |-> "chat", stream |-> FALSE, route |-> "none", target |-> "none"]

\* By model reference: what resolve_target finds.
ByModel == [surface : {"chat", "responses", "messages"}, stream : BOOLEAN, route : {"model"},
            target : {"none", "provider", "translated", "combo", "translated_combo", "empty_combo"}]

\* Through an endpoint: what the endpoint and its binding are.
ByEndpoint == [surface : {"chat", "responses", "messages"}, stream : BOOLEAN, route : {"endpoint"},
               target : {"none", "locked", "unbound", "odd", "gone_provider", "gone_combo",
                         "provider", "translated", "combo", "translated_combo", "empty_combo"}]

Asks == {Malformed} \cup {a \in ByModel \cup ByEndpoint : ~ (a.stream /\ a.surface = "responses")}

\* The playground asks for a stream, by model reference.
TurnAsks == {a \in ByModel : a.surface = "chat" /\ a.stream}

Combos == {"combo", "translated_combo", "empty_combo", "gone_combo"}

\* An endpoint with a binding for which the key is right: the node is chosen
\* before the binding is followed.
Selects(a) == a.route = "endpoint" /\ a.target \notin {"none", "locked", "unbound"}

\* Connections used one on top of the other up to the call of the upstream: an
\* endpoint's own, and that of the combo it is bound to.
Needs(a) ==
    CASE a.route = "none"                              -> 0
      [] a.route = "model" \/ a.target \notin Combos   -> 1
      [] OTHER                                         -> 2

\* A stream from a translated provider is refused, except that an endpoint on
\* the chat surface takes its provider to be OpenAI-compatible.
Unstreamable(a) ==
    /\ a.stream
    /\ \/ a.target = "translated_combo"
       \/ a.target = "translated" /\ (a.route = "model" \/ a.surface = "messages")

\* Answered with an error of the gateway's own.
Refusable(a) ==
    \/ a.target \in {"none", "locked", "unbound", "odd", "gone_provider", "empty_combo"}
    \/ Unstreamable(a)
    \/ a.target = "gone_combo" /\ a.stream /\ a.surface = "chat"

\* TargetNotFound of a combo is caught for streams of the chat surface only.
Uncaught(a) == a.target = "gone_combo" /\ ~ Refusable(a)

KindOf(a) == IF a.stream THEN a.surface ELSE "json"

-----------------------------------------------------------------------------
(* The handlers                                                            *)

\* A turn comes to the pipeline with its question stored, in the same stretch.
Enters(c) ==
    IF c \in Turns THEN phase[c] = "asked" /\ busy = c ELSE phase[c] = "new" /\ busy = Nobody

\* The handler is over but, over HTTP, for the row of the log.
Returns(c, next) ==
    /\ phase' = [phase EXCEPT ![c] = IF c \in Requests THEN "logging" ELSE next]
    /\ busy' = IF c \in Requests THEN c ELSE Nobody

Concludes(c, how) == Returns(c, "ended") /\ result' = [result EXCEPT ![c] = how]

\* No connection where one is needed: TimeoutError, which nothing catches.  An
\* endpoint may have got its own and chosen a node before the combo failed.
Starve(c, a) ==
    /\ Enters(c) /\ ~ CanCheckOut(Needs(a))
    /\ Concludes(c, "crashed")
    /\ kind' = [kind EXCEPT ![c] = KindOf(a)]
    /\ starved' = starved \cup {c}
    /\ IF Selects(a) /\ CanCheckOut(1) THEN SelectNode ELSE UNCHANGED poolVars
    /\ UNCHANGED <<held, usage, rows>>

Refuse(c, a) ==
    /\ Enters(c) /\ CanCheckOut(Needs(a)) /\ (Refusable(a) \/ Uncaught(a))
    /\ Concludes(c, IF Uncaught(a) THEN "crashed" ELSE "refused")
    /\ kind' = [kind EXCEPT ![c] = KindOf(a)]
    /\ IF Selects(a) THEN SelectNode ELSE UNCHANGED poolVars
    /\ UNCHANGED <<held, usage, rows, starved>>

\* The upstream is called.  An endpoint's session stays open for as long, and
\* keeps its connection: the rows it reads after the last commit begin a new
\* transaction.  The session of a combo stays open too, but has none: its cursor
\* was committed or rolled back last.
CallUpstream(c, a) ==
    /\ Enters(c) /\ CanCheckOut(Needs(a)) /\ ~ Refusable(a) /\ ~ Uncaught(a)
    /\ phase' = [phase EXCEPT ![c] = "calling"]
    /\ kind' = [kind EXCEPT ![c] = KindOf(a)]
    /\ busy' = Nobody
    /\ held' = IF a.route = "endpoint" THEN held \cup {c} ELSE held
    /\ IF Selects(a) THEN SelectNode ELSE UNCHANGED poolVars
    /\ UNCHANGED <<result, usage, rows, starved>>

\* _record_usage_safe: a record needs a connection, and is lost without one.
Record(c) ==
    /\ usage' = [usage EXCEPT ![c] = IF CanCheckOut(1) THEN @ + 1 ELSE @]
    /\ starved' = IF CanCheckOut(1) THEN starved ELSE starved \cup {c}

\* The with block of the endpoint's session is left.
Leaves(c) == held' = held \ {c}

Awaits(c, streamed) == busy = Nobody /\ phase[c] = "calling" /\ (kind[c] # "json") = streamed

Ends(c, how) == Leaves(c) /\ Concludes(c, how) /\ UNCHANGED <<kind, rows, poolVars>>

\* One JSON body: the usage is recorded while an endpoint's session is open.
Answered(c) == Awaits(c, FALSE) /\ Record(c) /\ Ends(c, "json")

\* A body the handler cannot turn into its answer, in the adapter or after the
\* usage was recorded.
Mangled(c) ==
    /\ Awaits(c, FALSE)
    /\ Record(c) \/ UNCHANGED <<usage, starved>>
    /\ Ends(c, "mangled")

\* The upstream refuses, cannot be reached or takes too long.
Failed(c) ==
    /\ Awaits(c, TRUE) \/ Awaits(c, FALSE)
    /\ Ends(c, "failed")
    /\ UNCHANGED <<usage, starved>>

\* Defect: the first chunk is pulled and the session left open for the stream.
Primed_Holding(c) ==
    /\ Awaits(c, TRUE) /\ Returns(c, "streaming")
    /\ UNCHANGED <<held, kind, result, usage, rows, starved, poolVars>>

\* The first chunk of a stream, or its end, is there: the handler returns the
\* response, whose body runs on its own.
Primed(c) ==
    /\ Awaits(c, TRUE) /\ Leaves(c) /\ Returns(c, "streaming")
    /\ UNCHANGED <<kind, result, usage, rows, starved, poolVars>>

\* A stream on the messages surface is logged like an error: the row is written
\* with result=None.
Line(c) ==
    IF result[c] = "json" \/ (result[c] = "none" /\ kind[c] = "chat") THEN "ok" ELSE "error"

\* The row is written after the endpoint's session is closed, and is lost
\* without a connection.
Log(c) ==
    /\ busy = c /\ phase[c] = "logging"
    /\ rows' = [rows EXCEPT ![c] = IF CanCheckOut(1) THEN Append(@, Line(c)) ELSE @]
    /\ starved' = IF CanCheckOut(1) THEN starved ELSE starved \cup {c}
    /\ phase' = [phase EXCEPT ![c] = IF result[c] = "none" THEN "streaming" ELSE "ended"]
    /\ busy' = Nobody
    /\ UNCHANGED <<held, kind, result, usage, poolVars>>

-----------------------------------------------------------------------------
(* The body of a stream                                                    *)

Flows(c) == busy = Nobody /\ phase[c] \in {"streaming", "told"}

\* The client has what it takes for the end ([DONE], message_stop); the
\* upstream's connection is still open.
Told(c) ==
    /\ busy = Nobody /\ phase[c] = "streaming"
    /\ phase' = [phase EXCEPT ![c] = "told"]
    /\ UNCHANGED <<held, kind, result, usage, rows, busy, starved, poolVars>>

\* The upstream ends the stream: the finally clause records the usage.  A turn
\* goes on to store the answer.
Eof(c) ==
    /\ Flows(c) /\ Record(c)
    /\ result' = [result EXCEPT ![c] = "eof"]
    /\ phase' = [phase EXCEPT ![c] = IF c \in Turns THEN "storing" ELSE "ended"]
    /\ busy' = IF c \in Turns THEN c ELSE Nobody
    /\ UNCHANGED <<held, kind, rows, poolVars>>

\* The stream breaks off upstream, or the client goes away: the finally clause
\* runs with completed unset.
BreaksOff(c, how) ==
    /\ Flows(c)
    /\ result' = [result EXCEPT ![c] = how]
    /\ phase' = [phase EXCEPT ![c] = "ended"]
    /\ UNCHANGED <<held, kind, usage, rows, busy, starved, poolVars>>

\* Defect: the usage is recorded whether or not the stream was completed.
Cut_Billed(c) ==
    /\ Flows(c) /\ Record(c)
    /\ result' = [result EXCEPT ![c] = "cut"]
    /\ phase' = [phase EXCEPT ![c] = "ended"]
    /\ UNCHANGED <<held, kind, rows, busy, poolVars>>

Cut(c)   == BreaksOff(c, "cut")
Leave(c) == BreaksOff(c, "left")

-----------------------------------------------------------------------------
(* The rest of the program                                                 *)

\* Others that keep the connection they have read with while they wait: on the
\* event loop, the search for models of a provider that was created or is
\* discovered again, and the exchange of a sign-in's code for a token; in its
\* thread, a self-heal run, from the issue it reads until the issue is deleted
\* or the run ends.  One without a connection fails before it waits.
Borrow(w) ==
    /\ w \notin held /\ (w \in Lookups => busy = Nobody) /\ CanCheckOut(1)
    /\ held' = held \cup {w}
    /\ UNCHANGED <<poolVars, callVars>>

GiveBack(w) ==
    /\ w \in held /\ (w \in Lookups => busy = Nobody)
    /\ held' = held \ {w}
    /\ UNCHANGED <<poolVars, callVars>>

OnErrand(w) == Borrow(w) \/ GiveBack(w)

\* The REST API and the health checks do not wait for the event loop.
Configures == ConfigurePools /\ UNCHANGED <<held, callVars>>
Probes     == Probing /\ UNCHANGED callVars

Arrive(c) == \E a \in (IF c \in Turns THEN TurnAsks ELSE Asks) :
                \/ Starve(c, a)
                \/ Refuse(c, a)
                \/ CallUpstream(c, a)

-----------------------------------------------------------------------------
(* Properties                                                              *)

Ended(c) == phase[c] = "ended"

\* The books agree with what happened.  An answer is charged once when the
\* upstream gave it in full, over whichever surface and route, and never when
\* it failed, broke off or was abandoned; a call over HTTP leaves one row in
\* the request log, which says ok only of an answer or a stream begun.  Both
\* can be lost, but only to a call that met an exhausted pool.
Bookkeeping ==
    \A c \in Calls : Ended(c) =>
       /\ usage[c] = 1 => result[c] \in {"json", "eof", "mangled"}
       /\ result[c] \in {"json", "eof"} /\ c \notin starved => usage[c] = 1
       /\ c \in Turns => rows[c] = << >>
       /\ c \in Requests /\ c \notin starved => Len(rows[c]) = 1
       /\ Len(rows[c]) <= 1
       /\ rows[c] = <<"ok">> => result[c] \in {"json", "eof", "cut", "left"}

\* A call keeps a connection only while it waits for the upstream of an endpoint,
\* and a health check as long as it probes: streams keep none, and every way out,
\* of a refusal, a failure, an answer, a first chunk or a batch of findings that
\* cannot be written, gives it back, whatever the lookups and repairs that also
\* keep one leave in the pool, which never lends more than it has.
ConnectionsComeBack ==
    /\ held \cap Calls \subseteq {c \in Calls : phase[c] = "calling"}
    /\ held \cap Checks = {c \in Checks : probe[c] # Idle}
    /\ Cardinality(held) <= PoolSize
=============================================================================
