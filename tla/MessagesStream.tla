---------------------------- MODULE MessagesStream ----------------------------
(***************************************************************************)
(* One streamed request to /v1/messages: the bytes of an OpenAI event       *)
(* stream arrive in pieces cut anywhere (provider_adapter.py), are put      *)
(* together to chunks (_iter_openai_sse_chunks), turned into Anthropic      *)
(* events (_AnthropicSseEncoder) and sent one by one to a client that may   *)
(* leave at any time (_anthropic_stream_response); the usage is read from   *)
(* the same bytes when the stream is over.                                 *)
(*                                                                         *)
(* A frame is four bytes: two of JSON, either of which is no JSON by       *)
(* itself, and two line feeds.  A fragment of text or of the arguments of  *)
(* a tool is known by the frame and the place in it that it came from.     *)
(*                                                                         *)
(* JSON lets U+2028, U+2029 and U+0085 stand as they are in a string, and  *)
(* str.splitlines ends a line at each of them: a chunk that is split has   *)
(* one, and neither of the two parsers finds it.                           *)
(***************************************************************************)
EXTENDS Integers, FiniteSets, Sequences, SequencesExt

CONSTANTS
    Chunks,     \* what a frame may hold: [text, tools, finish, usage, split]
    Noise,      \* a frame that holds no chunk: [DONE], a comment, bad JSON
    MaxFrames,  \* bound: frames of a stream
    UsageIsLast \* whether the upstream sends usage in no chunk but the last

ASSUME StreamAssumption ==
    /\ \A c \in Chunks :
          /\ c.text \in BOOLEAN /\ c.finish \in BOOLEAN /\ c.tools \in Seq(Nat \X BOOLEAN)
          /\ c.usage \in {"no", "empty", "full"} /\ c.split \in BOOLEAN
    /\ Noise \notin Chunks /\ MaxFrames \in Nat /\ UsageIsLast \in BOOLEAN

VARIABLES
    script,     \* the frames the upstream sends
    got,        \* how many of their bytes were read: buf
    from,       \* where pending begins
    phase,      \* "prime", "stream", "flush", "failing" and how it ended
    enc,        \* the encoder
    out,        \* events of the chunk in hand that were not sent
    said,       \* the events the client was sent
    record      \* the usage recorded

vars == <<script, got, from, phase, enc, out, said, record>>

Width   == 4
Frame(i)  == ((i - 1) \div Width) + 1
Offset(i) == ((i - 1) % Width) + 1
Total   == Width * Len(script)

\* Usage, and the reason of the stop, are known by the frame they came from.
NoUsage  == 0
NoRecord == -1

NoBlock == -1
Event(kind, block, of) == [kind |-> kind, block |-> block, of |-> of]
Nowhere == <<0, 0>>

Ended == {"done", "failed", "left", "refused"}

Fresh ==
    [started |-> FALSE, next |-> 0, text |-> NoBlock, tool |-> <<>>, open |-> {},
     stop |-> 0, usage |-> NoUsage, final |-> FALSE]

TypeOK ==
    /\ \A n \in DOMAIN script : script[n] \in Chunks \cup {Noise}
    /\ got \in 0 .. Total /\ from \in 0 .. got
    /\ phase \in {"prime", "stream", "flush", "failing"} \cup Ended
    /\ enc.next \in Nat /\ enc.open \subseteq 0 .. enc.next - 1
    /\ enc.text \in enc.open \cup {NoBlock} \/ enc.final
    /\ record \in NoRecord .. Len(script)

\* The scripts of an upstream that keeps the OpenAI contract, or of any other.
Lawful(s) ==
    \A n \in DOMAIN s :
       s[n] # Noise /\ s[n].usage # "no" => \A k \in n + 1 .. Len(s) : s[k] = Noise

Init ==
    /\ \E n \in 0 .. MaxFrames : script \in [1 .. n -> Chunks \cup {Noise}]
    /\ UsageIsLast => Lawful(script)
    /\ got = 0 /\ from = 0 /\ phase = "prime" /\ enc = Fresh
    /\ out = <<>> /\ said = <<>> /\ record = NoRecord

-----------------------------------------------------------------------------
(* From bytes to chunks.                                                   *)

LineFeed(i) == Offset(i) > 2

\* Where the first frame of pending ends: its second line feed.
Ends == {i \in from + 2 .. got : LineFeed(i - 1) /\ LineFeed(i)}
FrameEnd == CHOOSE i \in Ends : \A j \in Ends : i <= j

\* The frames of which bytes first .. last hold the JSON as a whole.
Whole(first, last) ==
    {n \in DOMAIN script : first <= Width * (n - 1) + 1 /\ Width * (n - 1) + 2 <= last}
\* ... and those of which they hold some of it.
Touched(first, last) ==
    {Frame(i) : i \in {j \in first .. last : ~LineFeed(j)}}

\* The frames of which json.loads makes a chunk: with a line separator in it, the
\* JSON is cut there, as what follows does not begin with "data:".
Legible(n) == script[n] \in Chunks /\ ~script[n].split

\* _parse_sse_data_frame: the chunk, by its frame, or 0.
Parsed(first, last) ==
    LET ns == Touched(first, last)
    IN  IF \E n \in Whole(first, last) : ns = {n} /\ Legible(n)
        THEN CHOOSE n \in ns : TRUE ELSE 0

-----------------------------------------------------------------------------
(* The encoder.  Each operator takes and returns the encoder and the events *)
(* it has produced for the chunk.                                          *)

Say(x, e) == [x EXCEPT !.ev = Append(@, e)]

\* _ensure_start
Started(x) ==
    IF x.enc.started THEN x
    ELSE Say([x EXCEPT !.enc.started = TRUE], Event("start", NoBlock, Nowhere))

\* The next block is opened.
Opens(x) ==
    Say([x EXCEPT !.enc.next = @ + 1, !.enc.open = @ \cup {x.enc.next}],
        Event("open", x.enc.next, Nowhere))

\* The text of a chunk; _open_text_block opens its block at most once.
WithText(x, n) ==
    LET y == IF x.enc.text # NoBlock THEN x
             ELSE [Opens(x) EXCEPT !.enc.text = x.enc.next]
    IN  IF ~script[n].text THEN x
        ELSE Say(y, Event("delta", y.enc.text, <<n, 0>>))

\* Defect: a fragment of a tool goes into the newest block.
BlockOf_Newest(x, tool) == x.enc.next - 1
\* The block of a tool that was opened.
BlockOf(x, tool) == CHOOSE b \in 0 .. x.enc.next - 1 : <<tool, b>> \in ToSet(x.enc.tool)

\* _process_tool_calls: the i-th tool call of chunk n.
WithTool(x, n, i) ==
    LET tool == script[n].tools[i][1]
        y == IF \E p \in ToSet(x.enc.tool) : p[1] = tool THEN x
             ELSE [Opens(x) EXCEPT !.enc.tool = Append(@, <<tool, x.enc.next>>)]
    IN  IF script[n].tools[i][2] THEN Say(y, Event("delta", BlockOf(y, tool), <<n, i>>))
        ELSE y

\* Defect: blocks that are open stay open.
Closing_None(x) == {}
\* _finalize closes the text block, then the others by index: each block has
\* its place by the number of those that are closed before it.
Closing(x)     == x.enc.open
Turn(x, b)     == IF b = x.enc.text THEN NoBlock ELSE b
Earlier(x, b)  == {a \in Closing(x) : Turn(x, a) < Turn(x, b)}
InClosingOrder(x) ==
    [i \in 1 .. Cardinality(Closing(x)) |->
        CHOOSE b \in Closing(x) : Cardinality(Earlier(x, b)) = i - 1]

\* _finalize
Finalized(x) ==
    IF x.enc.final THEN x
    ELSE LET bs == InClosingOrder(x)
         IN  [enc |-> [x.enc EXCEPT !.final = TRUE, !.open = {}],
              ev  |-> x.ev \o [i \in DOMAIN bs |-> Event("close", bs[i], Nowhere)]
                      \o <<Event("usage", NoBlock, <<x.enc.usage, x.enc.stop>>),
                           Event("stop", NoBlock, Nowhere)>>]

\* Defect: the usage is taken over only after the message is finalized.
WithUsage_Late(x, n) ==
    IF script[n].usage # "full" THEN x
    ELSE [Finalized(x) EXCEPT !.enc.usage = n]
\* A usage that is not empty ends the message.
WithUsage(x, n) ==
    IF script[n].usage # "full" THEN x
    ELSE Finalized([x EXCEPT !.enc.usage = n])

\* _process
Processed(e, n) ==
    LET with[i \in 0 .. Len(script[n].tools)] ==
            IF i = 0 THEN WithText(Started([enc |-> e, ev |-> <<>>]), n)
            ELSE WithTool(with[i - 1], n, i)
        x == with[Len(script[n].tools)]
    IN  WithUsage(IF script[n].finish THEN [x EXCEPT !.enc.stop = n] ELSE x, n)

\* Defect: a stream without chunks is not begun.
Finish_Bare(x) == IF x.enc.started THEN Finalized(x) ELSE x
\* finish
Finish(x)      == Finalized(Started(x))

-----------------------------------------------------------------------------
(* The response.                                                           *)

\* The first bytes are awaited before the response is committed.
Prime ==
    /\ phase = "prime"
    /\ \/ \E k \in 1 .. Total : got' = k
       \/ Total = 0 /\ UNCHANGED got
    /\ phase' = "stream"
    /\ UNCHANGED <<script, from, enc, out, said, record>>

\* An HTTP status, a refused connection or a timeout: a JSON envelope.
PrimeFails ==
    /\ phase = "prime" /\ phase' = "refused"
    /\ UNCHANGED <<script, got, from, enc, out, said, record>>

Idle == phase = "stream" /\ out = <<>>

\* The next piece, when pending holds no frame.
Read ==
    /\ Idle /\ Ends = {}
    /\ \E k \in got + 1 .. Total : got' = k
    /\ UNCHANGED <<script, from, phase, enc, out, said, record>>

\* Defect: what follows the frame is thrown away with it.
Rest_Dropped == got
Rest == FrameEnd

\* A frame of pending is decoded.
Decode ==
    /\ Idle /\ Ends # {}
    /\ from' = Rest
    /\ LET n == Parsed(from + 1, FrameEnd - 2)
       IN  IF n = 0 THEN UNCHANGED <<enc, out>>
           ELSE \E x \in {Processed(enc, n)} : enc' = x.enc /\ out' = x.ev
    /\ UNCHANGED <<script, got, phase, said, record>>

\* The upstream ends, maybe in the middle of a frame: what is left is decoded
\* and the message finished.
EndOfStream ==
    /\ Idle /\ Ends = {}
    /\ LET n == Parsed(from + 1, got)
       IN  \E x \in {IF n = 0 THEN [enc |-> enc, ev |-> <<>>] ELSE Processed(enc, n)} :
              \E y \in {Finish(x)} : enc' = y.enc /\ out' = y.ev
    /\ from' = got /\ phase' = "flush"
    /\ UNCHANGED <<script, got, said, record>>

\* The transport fails, or is silent for 300 seconds.
Breaks ==
    /\ Idle /\ Ends = {}
    /\ out' = <<Event("error", NoBlock, Nowhere)>> /\ phase' = "failing"
    /\ UNCHANGED <<script, got, from, enc, said, record>>

Send ==
    /\ phase \in {"stream", "flush", "failing"} /\ out # <<>>
    /\ said' = Append(said, Head(out)) /\ out' = Tail(out)
    /\ UNCHANGED <<script, got, from, phase, enc, record>>

\* _extract_usage_from_sse: the last chunk with a usage, be it empty.
Reported ==
    {n \in Whole(1, got) : Legible(n) /\ script[n].usage # "no"}
Extracted ==
    LET n == CHOOSE n \in Reported : \A k \in Reported : k <= n
    IN  IF Reported = {} \/ script[n].usage = "empty" THEN NoUsage ELSE n

\* completed, then _record_stream_usage_safe.
Done ==
    /\ phase = "flush" /\ out = <<>>
    /\ phase' = "done" /\ record' = Extracted
    /\ UNCHANGED <<script, got, from, enc, out, said>>

Failed ==
    /\ phase = "failing" /\ out = <<>>
    /\ phase' = "failed"
    /\ UNCHANGED <<script, got, from, enc, out, said, record>>

\* The client disconnects: GeneratorExit, or a cancelled read.
Leave ==
    /\ phase \in {"stream", "flush", "failing"}
    /\ phase' = "left"
    /\ UNCHANGED <<script, got, from, enc, out, said, record>>

Body == Read \/ Decode \/ EndOfStream \/ Breaks \/ Send \/ Done \/ Failed

Next == Prime \/ PrimeFails \/ Body \/ Leave

Spec == Init /\ [][Next]_vars

\* The body runs on, and a read ends with bytes, the end or a timeout.
FairSpec == Spec /\ WF_vars(Body)

-----------------------------------------------------------------------------
(* Properties                                                              *)

\* "emit a correct Anthropic Messages SSE event stream in order" (docstring of
\* _AnthropicSseEncoder), whatever the pieces, the tools and the failures.
Events == INSTANCE AnthropicEvents
InOrder == Events!EventsSpec

Deltas == {i \in DOMAIN said : said[i].kind = "delta"}

\* The fragments of a chunk, and those in the chunks whose JSON arrived whole and
\* is legible.
Fragments(n) ==
    (IF script[n].text THEN {<<n, 0>>} ELSE {})
    \cup {<<n, i>> : i \in {j \in DOMAIN script[n].tools : script[n].tools[j][2]}}
Content ==
    UNION {Fragments(n) : n \in {m \in Whole(1, got) : Legible(m)}}

\* p was sent before q.
Precedes(p, q) == p[1] < q[1] \/ (p[1] = q[1] /\ p[2] < q[2])

\* The client gets the fragments in the order they were sent, none twice, none
\* before all that were sent earlier, and all that arrived when the stream ends:
\* none is lost between two pieces, with an unterminated last frame or by a call
\* of two tools.  This is said of the chunks that are legible: the fragments of a
\* split one, which is lawful JSON, are lost and nobody is told.
NothingLost ==
    /\ \A i \in Deltas :
          /\ said[i].of \in Content
          /\ \A j \in Deltas : j < i => Precedes(said[j].of, said[i].of)
          /\ \A p \in Content : Precedes(p, said[i].of) =>
                \E j \in Deltas : j < i /\ said[j].of = p
    /\ phase = "done" => \A p \in Content : \E j \in Deltas : said[j].of = p

\* What a fragment belongs to: the text, or one of the tools.
TextSource == -1
Source(p)  == IF p[2] = 0 THEN TextSource ELSE script[p[1]].tools[p[2]][1]

\* Fragments of one tool, and no others, share a block: the arguments the client
\* puts together from its deltas are those of the tool.
BlocksPure ==
    \A i, j \in Deltas :
       said[i].block = said[j].block <=> Source(said[i].of) = Source(said[j].of)

\* The usage is recorded once the client was told it, with the value the client
\* was told, and the reason the client was told is the last one that arrived in a
\* legible chunk; a stream that broke or was left records none.
UsageAgrees ==
    /\ phase = "done" <=> record # NoRecord
    /\ phase = "done" =>
          \E i \in DOMAIN said :
             /\ said[i].kind = "usage" /\ said[i].of[1] = record
             /\ \A n \in Whole(1, got) :
                   Legible(n) /\ script[n].finish => n <= said[i].of[2]

\* "never a silent truncation": a client that stays sees the end of the message
\* or an error.
HonestEnd ==
    phase = "stream" ~>
       \/ phase = "left"
       \/ /\ phase \in {"done", "failed"} /\ said # <<>>
          /\ Last(said).kind \in {"stop", "error"}
=============================================================================
