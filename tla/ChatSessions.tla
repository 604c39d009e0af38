----------------------------- MODULE ChatSessions -----------------------------
(***************************************************************************)
(* The chat playground (src/backend/chat_router.py): sessions, the turns   *)
(* of their transcript, and the completion that stores a question, sends   *)
(* the transcript through the gateway's pipeline and stores the answer     *)
(* when the stream has ended.                                              *)
(*                                                                         *)
(* Nothing keeps the user from sending a second question while the first   *)
(* one is being answered, or from deleting the session, whose id may then  *)
(* be given out again.  birth tells the sessions apart that had the same   *)
(* id.                                                                     *)
(***************************************************************************)
EXTENDS GatewayRequests

CONSTANTS
    MaxSids,    \* bound: session ids are 1 .. MaxSids
    MaxBirths   \* bound: sessions created

ASSUME ChatAssumption == MaxSids \in Nat \ {0} /\ MaxBirths \in Nat

VARIABLES
    chats,      \* the ids in use
    ready,      \* sessions that have a model
    birth,      \* history: which session has, or last had, an id
    births,
    msgs,       \* the rows of chat_messages; their order is that of the ids
    prompt,     \* the rows a completion is about to send
    of,         \* the session a turn was sent to, and its birth
    spoke,      \* the turns whose answer had text
    stored,     \* the turns whose answer is stored
    late        \* history: answers stored when their session was gone

chatVars == <<chats, ready, birth, births, msgs, prompt, of, spoke, stored, late>>
playVars == <<gatewayVars, chatVars>>

Sids  == 1 .. MaxSids
NoSid == 0
Rows  == [id : Nat \ {0}, sid : Sids, birth : 1 .. MaxBirths,
          role : {"user", "assistant"}, turn : Turns]

ChatTypeOK ==
    /\ GatewayTypeOK
    /\ chats \subseteq Sids /\ ready \subseteq chats
    /\ birth \in [Sids -> 0 .. MaxBirths] /\ births \in 0 .. MaxBirths
    /\ msgs \subseteq Rows /\ prompt \subseteq Rows
    /\ \A t \in Turns : of[t].sid \in Sids \cup {NoSid} /\ of[t].birth \in 0 .. MaxBirths
    /\ spoke \subseteq Turns /\ stored \subseteq Turns /\ late \subseteq stored

ChatInit ==
    /\ chats = {} /\ ready = {} /\ birth = [s \in Sids |-> 0] /\ births = 0
    /\ msgs = {} /\ prompt = {}
    /\ of = [t \in Turns |-> [sid |-> NoSid, birth |-> 0]]
    /\ spoke = {} /\ stored = {} /\ late = {}

\* The next row of the table.
Row(session, role, t) ==
    [id |-> NextId({m.id : m \in msgs}), sid |-> session.sid, birth |-> session.birth,
     role |-> role, turn |-> t]

-----------------------------------------------------------------------------
(* Sessions                                                                *)

CreateSession(withModel) ==
    LET s == NextId(chats)
    IN  /\ s \in Sids /\ births < MaxBirths
        /\ chats' = chats \cup {s}
        /\ ready' = IF withModel THEN ready \cup {s} ELSE ready
        /\ births' = births + 1 /\ birth' = [birth EXCEPT ![s] = births + 1]
        /\ UNCHANGED <<gatewayVars, msgs, prompt, of, spoke, stored, late>>

UpdateSession(s) ==
    /\ s \in chats
    /\ ready' = IF s \in ready THEN ready \ {s} ELSE ready \cup {s}
    /\ UNCHANGED <<gatewayVars, chats, birth, births, msgs, prompt, of, spoke, stored, late>>

\* Defect: the rows of a deleted session stay in the table.
Cascaded_Kept(s) == msgs

\* The relationship deletes the rows that are there; no completion is told.
Cascaded(s) == {m \in msgs : m.sid # s}

DeleteSession(s) ==
    /\ s \in chats
    /\ chats' = chats \ {s} /\ ready' = ready \ {s}
    /\ msgs' = Cascaded(s)
    /\ UNCHANGED <<gatewayVars, birth, births, prompt, of, spoke, stored, late>>

-----------------------------------------------------------------------------
(* A completion                                                            *)

\* Defect: only the questions are sent again.
History_Questions(s, rs) == {m \in rs : m.sid = s /\ m.role = "user"}

\* _build_history over the rows under the session's id.
History(s, rs) == {m \in rs : m.sid = s}

\* The question is stored first, and stays whatever comes of it.  Without a
\* connection or a session nothing is stored; without a model the completion
\* ends here.
Ask(t, s) ==
    LET here == [sid |-> s, birth |-> birth[s]]
        all  == msgs \cup {Row(here, "user", t)}
    IN  /\ phase[t] = "new" /\ busy = Nobody /\ CanCheckOut(1) /\ s \in chats
        /\ msgs' = all
        /\ of' = [of EXCEPT ![t] = here]
        /\ IF s \in ready
           THEN /\ phase' = [phase EXCEPT ![t] = "asked"] /\ busy' = t
                /\ prompt' = History(s, all)
                /\ UNCHANGED result
           ELSE /\ phase' = [phase EXCEPT ![t] = "ended"]
                /\ result' = [result EXCEPT ![t] = "refused"]
                /\ UNCHANGED <<busy, prompt>>
        /\ UNCHANGED <<held, poolVars, kind, usage, rows, starved,
                       chats, ready, birth, births, spoke, stored, late>>

AskInVain(t) ==
    /\ phase[t] = "new" /\ busy = Nobody
    /\ \/ chats # Sids /\ result' = [result EXCEPT ![t] = "refused"] /\ UNCHANGED starved
       \/ /\ ~ CanCheckOut(1)
          /\ result' = [result EXCEPT ![t] = "crashed"] /\ starved' = starved \cup {t}
    /\ phase' = [phase EXCEPT ![t] = "ended"]
    /\ UNCHANGED <<held, poolVars, kind, usage, rows, busy, chatVars>>

\* The transcript goes through run_chat_completion.
Submit(t) ==
    /\ Arrive(t)
    /\ prompt' = {}
    /\ UNCHANGED <<chats, ready, birth, births, msgs, of, spoke, stored, late>>

\* Defect: the tee stores what it has when its stream stops, completed or not.
StreamStops_Stored(t) ==
    /\ Cut(t) \/ Leave(t)
    /\ spoke' = spoke \cup {t} /\ stored' = stored \cup {t}
    /\ msgs' = msgs \cup {Row(of[t], "assistant", t)}
    /\ UNCHANGED <<chats, ready, birth, births, prompt, of, late>>

\* The stream breaks off: nothing is stored of the answer.
StreamStops(t) == (Cut(t) \/ Leave(t)) /\ UNCHANGED chatVars

\* _persist_assistant, in the stretch that recorded the usage: an answer with
\* text is stored under the id of the session, there or not.
Store(t, text) ==
    LET kept == text /\ CanCheckOut(1)
    IN  /\ busy = t /\ phase[t] = "storing"
        /\ phase' = [phase EXCEPT ![t] = "ended"] /\ busy' = Nobody
        /\ spoke' = IF text THEN spoke \cup {t} ELSE spoke
        /\ stored' = IF kept THEN stored \cup {t} ELSE stored
        /\ msgs' = IF kept THEN msgs \cup {Row(of[t], "assistant", t)} ELSE msgs
        /\ starved' = IF text /\ ~ kept THEN starved \cup {t} ELSE starved
        /\ late' = IF kept /\ ~ (of[t].sid \in chats /\ birth[of[t].sid] = of[t].birth)
                   THEN late \cup {t} ELSE late
        /\ UNCHANGED <<held, poolVars, kind, result, usage, rows,
                       chats, ready, birth, births, prompt, of>>

\* A step of the gateway that the transcript takes no part in.
Elsewhere(c) ==
    /\ \/ c \in Requests /\ (Arrive(c) \/ Cut(c) \/ Leave(c))
       \/ Answered(c) \/ Mangled(c) \/ Failed(c) \/ Primed(c) \/ Log(c) \/ Told(c) \/ Eof(c)
    /\ UNCHANGED chatVars

Besides == (Configures \/ Probes \/ \E w \in Errands : OnErrand(w)) /\ UNCHANGED chatVars

PlayInit == GatewayInit /\ ChatInit

PlayNext ==
    \/ \E b \in BOOLEAN : CreateSession(b)
    \/ \E s \in Sids : UpdateSession(s) \/ DeleteSession(s)
    \/ \E t \in Turns :
          \/ \E s \in Sids : Ask(t, s)
          \/ AskInVain(t) \/ Submit(t) \/ StreamStops(t)
          \/ \E b \in BOOLEAN : Store(t, b)
    \/ \E c \in Calls : Elsewhere(c)
    \/ Besides

PlaySpec == PlayInit /\ [][PlayNext]_playVars

-----------------------------------------------------------------------------
(* Properties                                                              *)

\* What the user was charged for and could read to its end is what the next
\* question will find in the transcript: an answer is stored exactly when its
\* usage was recorded and it had text.  The two are written apart, at the ends
\* of two nested generators, and can only part where a connection was missing.
StoredIffBilled ==
    \A t \in Turns : Ended(t) /\ t \notin starved =>
       (t \in stored <=> usage[t] = 1 /\ t \in spoke)

\* m is what was said in turn t, on one side.
Says(m, t, role) ==
    m.sid = of[t].sid /\ m.birth = of[t].birth /\ m.role = role /\ m.turn = t

\* A question is sent with the whole conversation before it: it comes last, and
\* every question asked in the session before and every answer whose response
\* had ended come with it, the answer after its question, however the turns
\* overlapped or failed.
NoTurnForgotten ==
    \A t \in Turns : phase[t] = "asked" =>
       \E q \in prompt :
          /\ Says(q, t, "user") /\ \A m \in prompt \ {q} : m.id < q.id
          /\ \A u \in Turns \ {t} : of[u] = of[t] =>
                \E m \in prompt \ {q} :
                   /\ Says(m, u, "user")
                   /\ Ended(u) /\ u \in spoke /\ u \notin starved =>
                         \E n \in prompt \ {q} : Says(n, u, "assistant") /\ m.id < n.id

\* A session's transcript is its own, though ids are given out again: nothing
\* that was asked or answered in a deleted session appears in a later one, save
\* an answer that was under way when its session was deleted.
AnswersBelong ==
    \A m \in msgs :
       m.sid \in chats /\ m.birth # birth[m.sid] => m.role = "assistant" /\ m.turn \in late
=============================================================================
