------------------------- MODULE MessagesStreamProofs -------------------------
(***************************************************************************)
(* Proofs about a streamed message, for any chunks, any number of frames   *)
(* and any cuts between them: no fragment of a chunk without a raw line    *)
(* separator is lost, doubled or put into another block; and the events    *)
(* implement AnthropicEvents and agree with the usage that is recorded, if *)
(* the upstream sends its usage last.                                      *)
(***************************************************************************)
EXTENDS MessagesStream, FiniteSetTheorems, FunctionTheorems, SequenceTheorems,
        WellFoundedInduction, TLAPS

-----------------------------------------------------------------------------
(* Numbers, frames and sequences                                           *)

\* What holds of 0, and of each number after one of which it holds.
LEMMA UpTo ==
  ASSUME NEW L \in Nat, NEW G, 0 \in G, \A i \in 1 .. L : i - 1 \in G => i \in G
  PROVE  0 .. L \subseteq G
  <1> DEFINE Less == {e \in Nat \X Nat : e[1] < e[2]}
             Bad == {i \in 0 .. L : i \notin G}
  <1>1. IsWellFoundedOn(Less, Nat)
    BY NatLessThanWellFounded DEF OpToRel
  <1>2. SUFFICES ASSUME Bad # {} PROVE FALSE
    OBVIOUS
  <1>3. PICK i \in Bad : \A j \in Bad : ~(<<j, i>> \in Less)
    <2>1. Bad \subseteq Nat
      OBVIOUS
    <2> HIDE DEF Less, Bad
    <2> QED
      BY <1>1, <1>2, <2>1, WFMin
  <1>4. i \in 1 .. L /\ i - 1 \in 0 .. L /\ <<i - 1, i>> \in Less
    <2>1. i \in 0 .. L /\ i # 0
      BY <1>3
    <2> QED
      BY <2>1
  <1>5. i - 1 \in G
    BY <1>3, <1>4
  <1> QED
    BY <1>3, <1>4, <1>5

LEMMA Bytes ==
  ASSUME NEW q \in Nat, NEW r \in 1 .. Width
  PROVE  Frame(Width * q + r) = q + 1 /\ Offset(Width * q + r) = r
  <1>1. /\ ((4 * q + r) - 1) \div 4 = q
        /\ ((4 * q + r) - 1) % 4 = r - 1
    BY DEF Width
  <1> QED
    BY <1>1 DEF Frame, Offset, Width


\* The legible chunks whose JSON is among the first k bytes.
Heard(k) == {n \in DOMAIN script : Width * (n - 1) + 2 <= k /\ Legible(n)}

ScriptTypes == script \in Seq(Chunks \cup {Noise})

LEMMA ScriptIs ==
  ASSUME ScriptTypes
  PROVE  /\ Len(script) \in Nat /\ DOMAIN script = 1 .. Len(script)
         /\ \A n \in DOMAIN script : script[n] \in Chunks \cup {Noise}
         /\ Total = 4 * Len(script) /\ Total \in Nat
  BY DEF ScriptTypes, Total, Width

\* Reading goes frame by frame: the one in hand is q + 1, and it ends after its
\* fourth byte.
LEMMA FrameInHand ==
  ASSUME ScriptTypes, NEW q \in Nat, from = Width * q, got \in 0 .. Total, from <= got
  PROVE  /\ Ends = {} => got < from + Width
         /\ Ends # {} => FrameEnd = from + Width /\ from + Width <= got
  <1> DEFINE e == from + 4
  <1>0. Width = 4 /\ e \in Nat /\ got \in Nat /\ from = 4 * q
    BY ScriptIs DEF Width
  <1>1. LineFeed(e - 1) /\ LineFeed(e)
    <2>1. e = Width * q + 4 /\ e - 1 = Width * q + 3
      BY <1>0
    <2>2. Offset(e) = 4 /\ Offset(e - 1) = 3
      BY <1>0, <2>1, Bytes
    <2> QED
      BY <2>2 DEF LineFeed
  <1>2. ~ LineFeed(from + 2)
    <2>1. Offset(from + 2) = 2
      BY <1>0, Bytes
    <2> QED
      BY <2>1 DEF LineFeed
  <1>3. ASSUME NEW i \in Ends PROVE e <= i /\ e <= got
    <2>1. i \in Int /\ i >= from + 2 /\ i <= got /\ LineFeed(i) /\ LineFeed(i - 1)
      BY <1>0 DEF Ends
    <2>2. i # from + 2 /\ i # from + 3
      BY <1>0, <1>2, <2>1
    <2> QED
      BY <1>0, <2>1, <2>2
  <1>4. e <= got => e \in Ends
    <2>1. e <= got => e \in from + 2 .. got
      BY <1>0
    <2> QED
      BY <1>1, <2>1 DEF Ends
  <1>5. CASE Ends = {}
    BY <1>0, <1>4, <1>5
  <1>6. CASE Ends # {}
    <2>1. PICK z : z \in Ends
      BY <1>6
    <2>2. e <= got /\ e \in Ends
      BY <1>3, <1>4, <2>1
    <2> DEFINE f == CHOOSE i \in Ends : \A j \in Ends : i <= j
    <2>3. f \in Ends /\ \A j \in Ends : f <= j
      BY <1>3, <2>2
    <2>4. f = e
      <3>1. e <= f /\ f <= e /\ f \in Int
        BY <1>0, <1>3, <2>2, <2>3 DEF Ends
      <3> QED
        BY <1>0, <3>1
    <2> QED
      BY <1>0, <1>6, <2>2, <2>4 DEF FrameEnd
  <1> QED
    BY <1>5, <1>6

\* What is decoded: nothing new, or the chunk that follows those heard before.
LEMMA ParsedIsNext ==
  ASSUME ScriptTypes, NEW q \in Nat, from = Width * q, NEW k \in from .. from + 3, k <= Total
  PROVE  LET n == Parsed(from + 1, k)
         IN  \/ n = 0 /\ Heard(k) = Heard(from)
             \/ /\ n \in DOMAIN script /\ script[n] \in Chunks /\ Heard(k) = Heard(from) \cup {n}
                /\ \A m \in Heard(from) : m < n
  <1> DEFINE n == q + 1
  <1>0. /\ Width = 4 /\ from = 4 * q /\ k \in Nat /\ Len(script) \in Nat
        /\ DOMAIN script = 1 .. Len(script) /\ Total = 4 * Len(script)
    BY ScriptIs DEF Width
  <1>1. \A m \in DOMAIN script : (4 * (m - 1) + 2 <= from) <=> m <= q
    BY <1>0
  <1>2. \A m \in DOMAIN script :
           (4 * (m - 1) + 2 <= k) <=> (m <= q \/ (m = n /\ from + 2 <= k))
    BY <1>0
  <1>3. Whole(from + 1, k) = IF from + 2 <= k THEN {n} ELSE {}
    <2>1. from + 2 <= k => n \in DOMAIN script
      BY <1>0
    <2>2. \A m \in DOMAIN script : from + 1 <= 4 * (m - 1) + 1 <=> n <= m
      BY <1>0
    <2>3. \A m \in DOMAIN script : m \in Whole(from + 1, k) <=> m = n /\ from + 2 <= k
      BY <1>0, <1>2, <2>2 DEF Whole
    <2>4. Whole(from + 1, k) \subseteq DOMAIN script
      BY DEF Whole
    <2> QED
      BY <2>1, <2>3, <2>4
  <1>4. Touched(from + 1, k) = IF from + 1 <= k THEN {n} ELSE {}
    <2>1. ASSUME NEW i \in from + 1 .. k PROVE Frame(i) = n
      <3>1. i - from \in 1 .. 4 /\ i = 4 * q + (i - from)
        BY <1>0
      <3> QED
        BY <1>0, <3>1, Bytes
    <2>2. ~ LineFeed(from + 1)
      <3>1. Offset(from + 1) = 1
        BY <1>0, Bytes
      <3> QED
        BY <3>1 DEF LineFeed
    <2>3. from + 1 <= k => from + 1 \in {j \in from + 1 .. k : ~LineFeed(j)}
      BY <1>0, <2>2
    <2>4. ~ (from + 1 <= k) => from + 1 .. k = {}
      BY <1>0
    <2> QED
      BY <2>1, <2>3, <2>4 DEF Touched
  <1> HIDE DEF n
  <1>5. CASE from + 2 <= k /\ Legible(n)
    <2>1. n \in DOMAIN script /\ n = q + 1
      BY <1>3, <1>5 DEF Whole, n
    <2>2. Touched(from + 1, k) = {n} /\ Whole(from + 1, k) = {n}
      BY <1>0, <1>3, <1>4, <1>5
    <2>3. Parsed(from + 1, k) = n
      BY <1>5, <2>2 DEF Parsed
    <2>4. script[n] \in Chunks
      BY <1>5 DEF Legible
    <2>5. Heard(k) = Heard(from) \cup {n}
      BY <1>0, <1>1, <1>2, <1>5, <2>1 DEF Heard
    <2>6. \A m \in Heard(from) : m < n
      BY <1>0, <1>1, <2>1 DEF Heard
    <2> QED
      BY <2>1, <2>3, <2>4, <2>5, <2>6
  <1>6. CASE ~ (from + 2 <= k /\ Legible(n))
    <2>1. Parsed(from + 1, k) = 0
      BY <1>3, <1>6 DEF Parsed
    <2>2. Heard(k) = Heard(from)
      BY <1>0, <1>1, <1>2, <1>6 DEF Heard
    <2> QED
      BY <2>1, <2>2
  <1> QED
    BY <1>5, <1>6

-----------------------------------------------------------------------------
(* What a sequence of events says.  h is what the client was and will be   *)
(* sent: said and out.                                                     *)

Kinds == {"start", "open", "delta", "close", "usage", "stop", "error"}
EventTypes == [kind : Kinds, block : Int, of : Nat \X Nat]
EncTypes ==
    [started : BOOLEAN, next : Nat, text : Int, tool : Seq(Nat \X Nat), open : SUBSET Nat,
     stop : Nat, usage : Nat, final : BOOLEAN]

\* The blocks of the events of a kind, and whether there are any.
Of(h, kind)    == {h[i].block : i \in {j \in DOMAIN h : h[j].kind = kind}}
HasIn(h, kind) == \E i \in DOMAIN h : h[i].kind = kind
DeltasIn(h)    == {i \in DOMAIN h : h[i].kind = "delta"}

\* Events!Allowed, of any history.
Permits(h, e) ==
    /\ ~HasIn(h, "error")
    /\ \/ e.kind = "start" /\ h = <<>>
       \/ /\ HasIn(h, "start") /\ ~HasIn(h, "usage")
          /\ \/ e.kind = "open" /\ Of(h, "open") = 0 .. e.block - 1
             \/ e.kind \in {"delta", "close"} /\ e.block \in Of(h, "open") \ Of(h, "close")
             \/ e.kind = "usage" /\ Of(h, "open") = Of(h, "close")
       \/ e.kind = "stop" /\ HasIn(h, "usage") /\ ~HasIn(h, "stop")
       \/ e.kind = "error"

\* Every event was permitted by those before it.
Legal(h) == \A i \in DOMAIN h : Permits(SubSeq(h, 1, i - 1), h[i])

LEMMA EventIs ==
  ASSUME NEW kind \in Kinds, NEW block \in Int, NEW of \in Nat \X Nat
  PROVE  /\ Event(kind, block, of) \in EventTypes
         /\ Event(kind, block, of).kind = kind
         /\ Event(kind, block, of).block = block
         /\ Event(kind, block, of).of = of
  BY DEF Event, EventTypes

LEMMA Appended ==
  ASSUME NEW h \in Seq(EventTypes), NEW e \in EventTypes
  PROVE  /\ Append(h, e) \in Seq(EventTypes) /\ Append(h, e) # <<>>
         /\ Len(h) \in Nat /\ DOMAIN h = 1 .. Len(h) /\ DOMAIN Append(h, e) = 1 .. Len(h) + 1
         /\ Append(h, e)[Len(h) + 1] = e /\ \A i \in DOMAIN h : Append(h, e)[i] = h[i]
         /\ \A i \in 1 .. Len(h) + 1 : SubSeq(Append(h, e), 1, i - 1) = SubSeq(h, 1, i - 1)
         /\ SubSeq(h, 1, Len(h)) = h
  <1>1. /\ Append(h, e) \in Seq(EventTypes) /\ Append(h, e) # <<>>
        /\ Len(h) \in Nat /\ DOMAIN h = 1 .. Len(h) /\ DOMAIN Append(h, e) = 1 .. Len(h) + 1
        /\ Append(h, e)[Len(h) + 1] = e /\ \A i \in DOMAIN h : Append(h, e)[i] = h[i]
    OBVIOUS
  <1>2. ASSUME NEW i \in 1 .. Len(h) + 1
        PROVE  SubSeq(Append(h, e), 1, i - 1) = SubSeq(h, 1, i - 1)
    <2>1. /\ SubSeq(h, 1, i - 1) = [k \in 1 .. i - 1 |-> h[k]]
          /\ SubSeq(Append(h, e), 1, i - 1) = [k \in 1 .. i - 1 |-> Append(h, e)[k]]
      BY <1>1
    <2>2. \A k \in 1 .. i - 1 : k \in DOMAIN h
      BY <1>1
    <2> QED
      BY <1>1, <2>1, <2>2
  <1>3. SubSeq(h, 1, Len(h)) = h
    OBVIOUS
  <1> QED
    BY <1>1, <1>2, <1>3

LEMMA AppendedSays ==
  ASSUME NEW h \in Seq(EventTypes), NEW e \in EventTypes, NEW kind
  PROVE  /\ Of(Append(h, e), kind) = IF e.kind = kind THEN Of(h, kind) \cup {e.block}
                                                      ELSE Of(h, kind)
         /\ HasIn(Append(h, e), kind) <=> HasIn(h, kind) \/ e.kind = kind
         /\ DeltasIn(Append(h, e)) = IF e.kind = "delta" THEN DeltasIn(h) \cup {Len(h) + 1}
                                                         ELSE DeltasIn(h)
  <1> DEFINE g == Append(h, e)
             l == Len(h) + 1
  <1>1. /\ DOMAIN g = DOMAIN h \cup {l} /\ l \notin DOMAIN h
        /\ g[l] = e /\ \A i \in DOMAIN h : g[i] = h[i]
    BY Appended
  <1> HIDE DEF g, l
  <1>2. HasIn(g, kind) <=> HasIn(h, kind) \/ e.kind = kind
    BY <1>1 DEF HasIn
  <1>3. DeltasIn(g) = IF e.kind = "delta" THEN DeltasIn(h) \cup {l} ELSE DeltasIn(h)
    BY <1>1 DEF DeltasIn
  <1>4. Of(g, kind) = IF e.kind = kind THEN Of(h, kind) \cup {e.block} ELSE Of(h, kind)
    BY <1>1 DEF Of
  <1> QED
    BY <1>2, <1>3, <1>4 DEF g, l

LEMMA AppendedIsLegal ==
  ASSUME NEW h \in Seq(EventTypes), NEW e \in EventTypes, Legal(h), Permits(h, e)
  PROVE  Legal(Append(h, e))
  <1>1. ASSUME NEW i \in DOMAIN Append(h, e)
        PROVE  Permits(SubSeq(Append(h, e), 1, i - 1), Append(h, e)[i])
    <2>1. i \in 1 .. Len(h) + 1 /\ SubSeq(Append(h, e), 1, i - 1) = SubSeq(h, 1, i - 1)
      BY Appended
    <2>2. CASE i \in DOMAIN h
      BY <2>1, <2>2, Appended DEF Legal
    <2>3. CASE i = Len(h) + 1
      <3>1. SubSeq(Append(h, e), 1, i - 1) = h /\ Append(h, e)[i] = e
        BY <2>1, <2>3, Appended
      <3> QED
        BY <3>1
    <2> QED
      BY <2>1, <2>2, <2>3, Appended
  <1> QED
    BY <1>1 DEF Legal

-----------------------------------------------------------------------------
(* The encoder and its events.                                             *)

\* The block b is that of the source s.
InBlock(c, s, b) ==
    IF s = TextSource THEN b = c.text /\ b # NoBlock ELSE <<s, b>> \in ToSet(c.tool)

\* Text and tools have blocks of their own, and their deltas are there.
Pure(c, h) ==
    /\ c.text \in NoBlock .. c.next - 1 /\ c.open \subseteq 0 .. c.next - 1
    /\ \A p \in ToSet(c.tool) : p[2] \in 0 .. c.next - 1 /\ p[2] # c.text
    /\ \A p, r \in ToSet(c.tool) : p[1] = r[1] <=> p[2] = r[2]
    /\ \A i \in DeltasIn(h) : InBlock(c, Source(h[i].of), h[i].block)

\* The deltas are the fragments F, in their order.
Sorted(h, F) ==
    /\ \A i \in DeltasIn(h) : h[i].of \in F
    /\ \A p \in F : \E i \in DeltasIn(h) : h[i].of = p
    /\ \A i, j \in DeltasIn(h) : i < j => Precedes(h[i].of, h[j].of)

Tidy(c, h, F) ==
    c \in EncTypes /\ h \in Seq(EventTypes) /\ F \subseteq Nat \X Nat /\ Pure(c, h) /\ Sorted(h, F)

\* The encoder knows what was said, and said nothing it should not.
Mirrors(c, h) ==
    /\ Legal(h) /\ ~HasIn(h, "error")
    /\ c.started <=> HasIn(h, "start")
    /\ ~c.started => h = <<>>
    /\ Of(h, "open") = 0 .. c.next - 1
    /\ Of(h, "close") = (0 .. c.next - 1) \ c.open
    /\ HasIn(h, "usage") <=> c.final
    /\ HasIn(h, "stop") <=> c.final

\* Until the end, the blocks of text and tools are open.
Ready(c) ==
    ~c.final => /\ c.text # NoBlock => c.text \in c.open
                /\ \A p \in ToSet(c.tool) : p[2] \in c.open

LEMMA Names ==
  /\ "start" \in Kinds /\ "open" \in Kinds /\ "delta" \in Kinds /\ "close" \in Kinds
  /\ "usage" \in Kinds /\ "stop" \in Kinds /\ "error" \in Kinds
  /\ NoBlock \in Int /\ Nowhere \in Nat \X Nat
  BY DEF Kinds, NoBlock, Nowhere

\* An event that is no delta, and an encoder that has the same blocks.
LEMMA SayingKeepsTidy ==
  ASSUME NEW c, NEW d \in EncTypes, NEW h, NEW F, Tidy(c, h, F),
         NEW e \in EventTypes, e.kind # "delta",
         d.next = c.next, d.text = c.text, d.tool = c.tool, d.open \subseteq c.open
  PROVE  Tidy(d, Append(h, e), F)
  <1>1. h \in Seq(EventTypes) /\ DeltasIn(Append(h, e)) = DeltasIn(h)
    BY AppendedSays DEF Tidy
  <1>2. \A i \in DeltasIn(h) : Append(h, e)[i] = h[i]
    BY <1>1, Appended DEF DeltasIn
  <1>3. Sorted(Append(h, e), F)
    BY <1>1, <1>2 DEF Tidy, Sorted
  <1>4. Pure(d, Append(h, e))
    BY <1>1, <1>2 DEF Tidy, Pure, InBlock
  <1> QED
    BY <1>1, <1>3, <1>4, Appended DEF Tidy

LEMMA SayStart ==
  ASSUME NEW c \in EncTypes, NEW d \in EncTypes, NEW h, NEW F, ~c.started,
         d.started, d.next = c.next, d.text = c.text, d.tool = c.tool, d.open = c.open,
         d.final = c.final, NEW e \in EventTypes, e.kind = "start", h \in Seq(EventTypes)
  PROVE  /\ Tidy(c, h, F) => Tidy(d, Append(h, e), F)
         /\ Mirrors(c, h) => Mirrors(d, Append(h, e))
         /\ Ready(c) => Ready(d)
  <1>1. Tidy(c, h, F) => Tidy(d, Append(h, e), F)
    BY SayingKeepsTidy
  <1>2. ASSUME Mirrors(c, h) PROVE Mirrors(d, Append(h, e))
    <2>1. Permits(h, e) /\ Legal(h)
      BY <1>2 DEF Mirrors, Permits
    <2>2. Legal(Append(h, e))
      BY <2>1, AppendedIsLegal
    <2> QED
      BY <1>2, <2>2, AppendedSays DEF Mirrors
  <1>3. Ready(c) => Ready(d)
    BY DEF Ready
  <1> QED
    BY <1>1, <1>2, <1>3

LEMMA ToolAppended ==
  ASSUME NEW s \in Seq(Nat \X Nat), NEW t \in Nat, NEW b \in Nat
  PROVE  /\ Append(s, <<t, b>>) \in Seq(Nat \X Nat)
         /\ ToSet(Append(s, <<t, b>>)) = ToSet(s) \cup {<<t, b>>}
         /\ ToSet(s) \subseteq Nat \X Nat
  <1> DEFINE p == <<t, b>>
             a == Append(s, p)
  <1>1. p \in Nat \X Nat
    OBVIOUS
  <1>2. /\ Len(s) \in Nat /\ DOMAIN s = 1 .. Len(s) /\ DOMAIN a = 1 .. Len(s) + 1
        /\ a[Len(s) + 1] = p /\ \A i \in DOMAIN s : a[i] = s[i] /\ s[i] \in Nat \X Nat
        /\ a \in Seq(Nat \X Nat)
    BY <1>1
  <1> HIDE DEF p, a
  <1>3. DOMAIN a = DOMAIN s \cup {Len(s) + 1}
    BY <1>2
  <1>4. ToSet(a) = ToSet(s) \cup {p}
    <2>1. \A i \in DOMAIN a : a[i] \in {s[j] : j \in DOMAIN s} \cup {p}
      BY <1>2, <1>3
    <2>2. \A i \in DOMAIN s : s[i] \in {a[j] : j \in DOMAIN a}
      BY <1>2, <1>3
    <2>3. p \in {a[j] : j \in DOMAIN a}
      BY <1>2, <1>3
    <2> QED
      BY <2>1, <2>2, <2>3 DEF ToSet
  <1>5. ToSet(s) \subseteq Nat \X Nat
    BY <1>2 DEF ToSet
  <1> QED
    BY <1>2, <1>4, <1>5 DEF p, a

\* The next block is opened, for the text or for a tool that had none.
LEMMA SayOpen ==
  ASSUME NEW c \in EncTypes, NEW d \in EncTypes, NEW h, NEW F, Tidy(c, h, F),
         d.next = c.next + 1, d.open = c.open \cup {c.next},
         d.started = c.started, d.final = c.final,
         \/ c.text = NoBlock /\ d.text = c.next /\ d.tool = c.tool
         \/ /\ d.text = c.text
            /\ \E t \in Nat : /\ \A p \in ToSet(c.tool) : p[1] # t
                              /\ d.tool = Append(c.tool, <<t, c.next>>),
         NEW e \in EventTypes, e.kind = "open", e.block = c.next
  PROVE  /\ Tidy(d, Append(h, e), F)
         /\ Mirrors(c, h) /\ c.started /\ ~c.final => Mirrors(d, Append(h, e))
         /\ Ready(c) => Ready(d)
  <1>0. h \in Seq(EventTypes) /\ c.next \in Nat /\ c.text \in Int /\ c.tool \in Seq(Nat \X Nat)
    BY DEF Tidy, EncTypes
  <1>1. DeltasIn(Append(h, e)) = DeltasIn(h) /\ \A i \in DeltasIn(h) : Append(h, e)[i] = h[i]
    BY <1>0, AppendedSays, Appended DEF DeltasIn
  <1>2. Sorted(Append(h, e), F)
    BY <1>1 DEF Tidy, Sorted
  <1>3. Pure(d, Append(h, e)) /\ (Ready(c) => Ready(d))
    <2>1. \A p \in ToSet(c.tool) : p \in Nat \X Nat
      BY <1>0 DEF ToSet
    <2>4. d.open \subseteq 0 .. d.next - 1
      <3>1. c.open \subseteq 0 .. c.next - 1
        BY DEF Tidy, Pure
      <3>2. 0 .. c.next - 1 \subseteq 0 .. d.next - 1 /\ c.next \in 0 .. d.next - 1
        BY <1>0
      <3> QED
        BY <3>1, <3>2
    <2>5. \A p \in ToSet(c.tool) : p[2] \in 0 .. c.next - 1 /\ p[2] # c.text
      BY DEF Tidy, Pure
    <2>6. c.text \in NoBlock .. c.next - 1
      BY DEF Tidy, Pure
    <2>2. CASE c.text = NoBlock /\ d.text = c.next /\ d.tool = c.tool
      <3>1. d.text \in NoBlock .. d.next - 1
        BY <1>0, <2>2 DEF NoBlock
      <3>2. \A p \in ToSet(d.tool) : p[2] \in 0 .. d.next - 1 /\ p[2] # d.text
        BY <1>0, <2>1, <2>2, <2>5
      <3>3. \A i \in DeltasIn(h) : InBlock(d, Source(h[i].of), h[i].block)
        BY <2>2 DEF Tidy, Pure, InBlock
      <3>4. Ready(c) => Ready(d)
        BY <2>2 DEF Ready
      <3> QED
        <4>1. \A p, r \in ToSet(d.tool) : p[1] = r[1] <=> p[2] = r[2]
          BY <2>2 DEF Tidy, Pure
        <4> QED
          BY <1>1, <2>4, <3>1, <3>2, <3>3, <3>4, <4>1 DEF Pure
    <2>3. CASE d.text = c.text /\ \E t \in Nat : /\ \A p \in ToSet(c.tool) : p[1] # t
                                                 /\ d.tool = Append(c.tool, <<t, c.next>>)
      <3>1. PICK t \in Nat : /\ \A p \in ToSet(c.tool) : p[1] # t
                             /\ d.tool = Append(c.tool, <<t, c.next>>)
        BY <2>3
      <3>2. ToSet(d.tool) = ToSet(c.tool) \cup {<<t, c.next>>}
        BY <1>0, <3>1, ToolAppended
      <3>3. d.text \in NoBlock .. d.next - 1 /\ d.text # c.next
        BY <1>0, <2>3, <2>6 DEF NoBlock
      <3>4. \A p \in ToSet(c.tool) : p[2] \in 0 .. d.next - 1 /\ p[2] # d.text /\ p[2] # c.next
        BY <1>0, <2>1, <2>3, <2>5
      <3>5. \A p \in ToSet(d.tool) : p[2] \in 0 .. d.next - 1 /\ p[2] # d.text
        BY <1>0, <3>2, <3>3, <3>4
      <3>6. \A p, r \in ToSet(d.tool) : p[1] = r[1] <=> p[2] = r[2]
        <4>1. \A p, r \in ToSet(c.tool) : p[1] = r[1] <=> p[2] = r[2]
          BY DEF Tidy, Pure
        <4>2. \A p \in ToSet(c.tool) : p[1] # t /\ p[2] # c.next
          BY <3>1, <3>4
        <4> QED
          BY <3>2, <4>1, <4>2
      <3>7. \A i \in DeltasIn(h) : InBlock(d, Source(h[i].of), h[i].block)
        BY <2>3, <3>2 DEF Tidy, Pure, InBlock
      <3>8. Ready(c) => Ready(d)
        BY <2>3, <3>2 DEF Ready
      <3> QED
        BY <1>1, <2>4, <3>3, <3>5, <3>6, <3>7, <3>8 DEF Pure
    <2> QED
      BY <2>2, <2>3
  <1>4. Tidy(d, Append(h, e), F)
    BY <1>0, <1>2, <1>3, Appended DEF Tidy
  <1>5. ASSUME Mirrors(c, h), c.started, ~c.final PROVE Mirrors(d, Append(h, e))
    <2>1. Permits(h, e) /\ Legal(h)
      BY <1>5 DEF Mirrors, Permits
    <2>2. Legal(Append(h, e))
      BY <1>0, <2>1, AppendedIsLegal
    <2>3. 0 .. d.next - 1 = (0 .. c.next - 1) \cup {c.next} /\ c.next \notin 0 .. c.next - 1
      BY <1>0
    <2>4. Of(Append(h, e), "open") = 0 .. d.next - 1
      BY <1>0, <1>5, <2>3, AppendedSays DEF Mirrors
    <2>5. Of(Append(h, e), "close") = (0 .. d.next - 1) \ d.open
      <3>1. Of(Append(h, e), "close") = Of(h, "close") /\ c.open \subseteq 0 .. c.next - 1
        BY <1>0, AppendedSays DEF Tidy, Pure
      <3>2. Of(h, "close") = (0 .. c.next - 1) \ c.open
        BY <1>5 DEF Mirrors
      <3> QED
        BY <2>3, <3>1, <3>2
    <2> QED
      BY <1>0, <1>5, <2>2, <2>4, <2>5, AppendedSays DEF Mirrors
  <1> QED
    BY <1>3, <1>4, <1>5

\* A fragment goes into the block of its source, after all that were sent before.
LEMMA SayDelta ==
  ASSUME NEW c \in EncTypes, NEW h, NEW F, Tidy(c, h, F), NEW p \in Nat \X Nat,
         \A f \in F : Precedes(f, p), NEW b \in Int, InBlock(c, Source(p), b),
         NEW e \in EventTypes, e.kind = "delta", e.block = b, e.of = p
  PROVE  /\ Tidy(c, Append(h, e), F \cup {p})
         /\ Mirrors(c, h) /\ Ready(c) /\ c.started /\ ~c.final => Mirrors(c, Append(h, e))
  <1> DEFINE l == Len(h) + 1
             g == Append(h, e)
  <1>0. /\ h \in Seq(EventTypes) /\ DeltasIn(g) = DeltasIn(h) \cup {l} /\ g[l] = e
        /\ \A i \in DeltasIn(h) : g[i] = h[i] /\ i \in Nat /\ i < l
        /\ l \in Nat /\ g \in Seq(EventTypes)
    BY AppendedSays, Appended DEF Tidy, DeltasIn
  <1> HIDE DEF l, g
  <1>1. Pure(c, g)
    BY <1>0 DEF Tidy, Pure
  <1>2. Sorted(g, F \cup {p})
    <2>1. \A i \in DeltasIn(g) : g[i].of \in F \cup {p}
      BY <1>0 DEF Tidy, Sorted
    <2>2. \A f \in F \cup {p} : \E i \in DeltasIn(g) : g[i].of = f
      BY <1>0 DEF Tidy, Sorted
    <2>3. \A i, j \in DeltasIn(g) : i < j => Precedes(g[i].of, g[j].of)
      <3>1. SUFFICES ASSUME NEW i \in DeltasIn(g), NEW j \in DeltasIn(g), i < j
                     PROVE  Precedes(g[i].of, g[j].of)
        OBVIOUS
      <3>2. CASE j = l
        <4>1. i \in DeltasIn(h)
          BY <1>0, <3>1, <3>2
        <4>2. h[i].of \in F
          BY <4>1 DEF Tidy, Sorted
        <4> QED
          BY <1>0, <3>2, <4>1, <4>2
      <3>3. CASE j # l
        <4>1. i \in DeltasIn(h) /\ j \in DeltasIn(h)
          BY <1>0, <3>1, <3>3
        <4> QED
          BY <1>0, <3>1, <4>1 DEF Tidy, Sorted
      <3> QED
        BY <3>2, <3>3
    <2> QED
      BY <2>1, <2>2, <2>3 DEF Sorted
  <1>3. Tidy(c, g, F \cup {p})
    BY <1>0, <1>1, <1>2 DEF Tidy
  <1>4. ASSUME Mirrors(c, h), Ready(c), c.started, ~c.final PROVE Mirrors(c, g)
    <2>1. b \in c.open
      <3>1. Source(p) = TextSource => b = c.text /\ b # NoBlock
        BY DEF InBlock
      <3>2. Source(p) # TextSource => <<Source(p), b>> \in ToSet(c.tool)
        BY DEF InBlock
      <3> QED
        BY <1>4, <3>1, <3>2 DEF Ready
    <2>2. Permits(h, e) /\ Legal(h)
      <3>1. c.open \subseteq 0 .. c.next - 1
        BY DEF Tidy, Pure
      <3>2. b \in Of(h, "open") \ Of(h, "close") /\ HasIn(h, "start") /\ ~HasIn(h, "usage")
        BY <1>4, <2>1, <3>1 DEF Mirrors
      <3> QED
        BY <1>4, <3>2 DEF Mirrors, Permits
    <2>3. Legal(g)
      BY <1>0, <2>2, AppendedIsLegal DEF g
    <2> QED
      BY <1>0, <1>4, <2>3, AppendedSays DEF Mirrors, g
  <1> QED
    BY <1>3, <1>4 DEF g

LEMMA SayClose ==
  ASSUME NEW c \in EncTypes, NEW d \in EncTypes, NEW h \in Seq(EventTypes),
         NEW b \in c.open, c.open \subseteq 0 .. c.next - 1,
         d.started = c.started, d.next = c.next, d.final = c.final, d.open = c.open \ {b},
         NEW e \in EventTypes, e.kind = "close", e.block = b,
         Mirrors(c, h), c.started, ~c.final
  PROVE  Mirrors(d, Append(h, e))
  <1>1. b \in Of(h, "open") \ Of(h, "close") /\ HasIn(h, "start") /\ ~HasIn(h, "usage")
    BY DEF Mirrors
  <1>2. Permits(h, e) /\ Legal(h)
    BY <1>1 DEF Permits, Mirrors
  <1>3. Legal(Append(h, e))
    BY <1>2, AppendedIsLegal
  <1>4. Of(Append(h, e), "close") = (0 .. c.next - 1) \ d.open
    <2>1. Of(Append(h, e), "close") = Of(h, "close") \cup {b}
      BY AppendedSays
    <2>2. Of(h, "close") = (0 .. c.next - 1) \ c.open
      BY DEF Mirrors
    <2> QED
      BY <2>1, <2>2
  <1> QED
    BY <1>3, <1>4, AppendedSays DEF Mirrors

\* The usage and the end, when all blocks are closed.
LEMMA SayEnd ==
  ASSUME NEW c \in EncTypes, NEW d \in EncTypes, NEW h \in Seq(EventTypes),
         d.started = c.started, d.next = c.next, d.final, c.open = {}, d.open = {},
         NEW u \in EventTypes, u.kind = "usage", NEW s \in EventTypes, s.kind = "stop",
         Mirrors(c, h), c.started, ~c.final
  PROVE  Mirrors(d, Append(Append(h, u), s))
  <1> DEFINE g == Append(h, u)
  <1>1. Permits(h, u) /\ Legal(h) /\ g \in Seq(EventTypes)
    BY Appended DEF Permits, Mirrors
  <1>2. Legal(g)
    BY <1>1, AppendedIsLegal
  <1>3. /\ \A kind : Of(g, kind) = IF kind = "usage" THEN Of(h, kind) \cup {u.block}
                                                       ELSE Of(h, kind)
        /\ \A kind : HasIn(g, kind) <=> HasIn(h, kind) \/ kind = "usage"
    BY AppendedSays
  <1> HIDE DEF g
  <1>4. Permits(g, s)
    BY <1>3 DEF Permits, Mirrors
  <1>5. Legal(Append(g, s))
    BY <1>1, <1>2, <1>4, AppendedIsLegal
  <1>6. /\ \A kind : HasIn(Append(g, s), kind) <=> HasIn(g, kind) \/ kind = "stop"
        /\ \A kind : kind # "stop" => Of(Append(g, s), kind) = Of(g, kind)
    BY <1>1, AppendedSays
  <1>7. Mirrors(d, Append(g, s))
    BY <1>3, <1>5, <1>6 DEF Mirrors
  <1> QED
    BY <1>7 DEF g

-----------------------------------------------------------------------------
(* The order in which blocks are closed: each block has its place.         *)

PairTypes == [enc : EncTypes, ev : Seq(EventTypes)]

\* Blocks in hand are those that were opened.
Kept(x) == x.enc.open \subseteq 0 .. x.enc.next - 1

LEMMA ClosingIsFinite ==
  ASSUME NEW x \in PairTypes, Kept(x)
  PROVE  /\ IsFiniteSet(Closing(x)) /\ Cardinality(Closing(x)) \in Nat
         /\ \A b \in Closing(x) : b \in Nat /\ Turn(x, b) \in Int
         /\ \A a, b \in Closing(x) : a # b => Turn(x, a) # Turn(x, b)
  <1>1. x.enc.next \in Nat /\ x.enc.text \in Int /\ x.enc.open \subseteq 0 .. x.enc.next - 1
    BY DEF Kept, PairTypes, EncTypes
  <1>2. IsFiniteSet(0 .. x.enc.next - 1)
    BY <1>1, FS_Interval
  <1>3. IsFiniteSet(Closing(x))
    BY <1>1, <1>2, FS_Subset DEF Closing
  <1> QED
    BY <1>1, <1>3, FS_CardinalityType DEF Closing, Turn, NoBlock

LEMMA PlaceType ==
  ASSUME NEW x \in PairTypes, Kept(x), NEW b \in Closing(x)
  PROVE  Cardinality(Earlier(x, b)) \in 0 .. Cardinality(Closing(x)) - 1
  <1> DEFINE S == Closing(x)
  <1>1. /\ IsFiniteSet(S \ {b}) /\ Cardinality(S \ {b}) \in Nat /\ Cardinality(S) \in Nat
        /\ Cardinality(S \ {b}) = Cardinality(S) - 1
    BY ClosingIsFinite, FS_RemoveElement, FS_CardinalityType
  <1>2. Earlier(x, b) \subseteq S \ {b}
    BY ClosingIsFinite DEF Earlier
  <1>3. /\ Cardinality(Earlier(x, b)) \in Nat
        /\ Cardinality(Earlier(x, b)) <= Cardinality(S \ {b})
    BY <1>1, <1>2, FS_Subset, FS_CardinalityType
  <1> QED
    BY <1>1, <1>3

LEMMA PlaceIsOwn ==
  ASSUME NEW x \in PairTypes, Kept(x), NEW m \in Closing(x), NEW n \in Closing(x), m # n
  PROVE  Cardinality(Earlier(x, m)) # Cardinality(Earlier(x, n))
  <1> SUFFICES ASSUME NEW a \in Closing(x), NEW b \in Closing(x), Turn(x, a) < Turn(x, b)
               PROVE  Cardinality(Earlier(x, a)) # Cardinality(Earlier(x, b))
    BY ClosingIsFinite
  <1>1. Earlier(x, a) \subseteq Earlier(x, b) \ {a} /\ a \in Earlier(x, b)
    <2>1. \A k \in Closing(x) : Turn(x, k) \in Int
      BY ClosingIsFinite
    <2>2. a \in Earlier(x, b) /\ a \notin Earlier(x, a)
      BY <2>1 DEF Earlier
    <2>3. ASSUME NEW k \in Earlier(x, a) PROVE k \in Earlier(x, b)
      <3>1. k \in Closing(x) /\ Turn(x, k) < Turn(x, a)
        BY DEF Earlier
      <3>2. Turn(x, k) < Turn(x, b)
        BY <2>1, <3>1
      <3> QED
        BY <3>1, <3>2 DEF Earlier
    <2> QED
      BY <2>2, <2>3
  <1>2. IsFiniteSet(Earlier(x, b))
    BY ClosingIsFinite, FS_Subset DEF Earlier
  <1>3. Cardinality(Earlier(x, b) \ {a}) = Cardinality(Earlier(x, b)) - 1
        /\ IsFiniteSet(Earlier(x, b) \ {a})
    BY <1>1, <1>2, FS_RemoveElement
  <1>4. Cardinality(Earlier(x, a)) <= Cardinality(Earlier(x, b)) - 1 /\ IsFiniteSet(Earlier(x, a))
    BY <1>1, <1>3, FS_Subset
  <1>5. Cardinality(Earlier(x, a)) \in Nat /\ Cardinality(Earlier(x, b)) \in Nat
    BY <1>2, <1>4, FS_CardinalityType
  <1> QED
    BY <1>4, <1>5

LEMMA PlaceIsTaken ==
  ASSUME NEW x \in PairTypes, Kept(x), NEW i \in 0 .. Cardinality(Closing(x)) - 1
  PROVE  \E b \in Closing(x) : Cardinality(Earlier(x, b)) = i
  <1> DEFINE S == Closing(x)
             K == Cardinality(S)
             T == 0 .. K - 1
             f == [b \in S |-> Cardinality(Earlier(x, b))]
  <1>1. K \in Nat /\ IsFiniteSet(S)
    BY ClosingIsFinite
  <1>2. f \in [S -> T]
    BY PlaceType
  <1>3. f \in Injection(S, T)
    BY <1>2, PlaceIsOwn, Fun_IsInj
  <1>4. IsFiniteSet(T) /\ Cardinality(T) = K
    BY <1>1, FS_Interval
  <1>5. f \in Surjection(S, T)
    <2> HIDE DEF f, T, S
    <2> QED
      BY <1>1, <1>3, <1>4, FS_Injection DEF K
  <1>6. \A t \in T : \E b \in S : f[b] = t
    <2> HIDE DEF f, T
    <2> QED
      BY <1>5, Fun_SurjectionProperties
  <1> QED
    BY <1>6

\* Every block that is open is closed, once.
LEMMA ClosingLists ==
  ASSUME NEW x \in PairTypes, Kept(x)
  PROVE  LET bs == InClosingOrder(x)
             K  == Cardinality(Closing(x))
         IN  /\ K \in Nat /\ bs = [i \in 1 .. K |-> bs[i]]
             /\ \A i \in 1 .. K : bs[i] \in x.enc.open /\ bs[i] \in Nat
             /\ \A i, j \in 1 .. K : bs[i] = bs[j] => i = j
             /\ \A b \in x.enc.open : \E i \in 1 .. K : bs[i] = b
  <1> DEFINE bs == InClosingOrder(x)
             K == Cardinality(Closing(x))
             at_(i) == CHOOSE b \in Closing(x) : Cardinality(Earlier(x, b)) = i - 1
  <1>1. K \in Nat
    BY ClosingIsFinite
  <1>2. bs = [i \in 1 .. K |-> at_(i)]
    BY DEF InClosingOrder
  <1>3. ASSUME NEW i \in 1 .. K
        PROVE  bs[i] \in Closing(x) /\ Cardinality(Earlier(x, bs[i])) = i - 1
    <2>1. i - 1 \in 0 .. K - 1
      BY <1>1
    <2>2. PICK b \in Closing(x) : Cardinality(Earlier(x, b)) = i - 1
      BY <2>1, PlaceIsTaken
    <2>3. at_(i) \in Closing(x) /\ Cardinality(Earlier(x, at_(i))) = i - 1
      BY <2>2
    <2> HIDE DEF at_
    <2> QED
      BY <1>2, <2>3
  <1> HIDE DEF at_
  <1>4. bs = [i \in 1 .. K |-> bs[i]]
    BY <1>2
  <1> HIDE DEF bs
  <1>5. \A i, j \in 1 .. K : bs[i] = bs[j] => i = j
    BY <1>1, <1>3
  <1>6. ASSUME NEW b \in Closing(x) PROVE \E i \in 1 .. K : bs[i] = b
    <2>1. Cardinality(Earlier(x, b)) \in 0 .. K - 1
      BY PlaceType
    <2>2. PICK i \in 1 .. K : i - 1 = Cardinality(Earlier(x, b))
      <3>1. Cardinality(Earlier(x, b)) + 1 \in 1 .. K
            /\ (Cardinality(Earlier(x, b)) + 1) - 1 = Cardinality(Earlier(x, b))
        BY <1>1, <2>1
      <3> QED
        BY <3>1
    <2>3. bs[i] = b
      BY <1>3, <2>2, PlaceIsOwn
    <2> QED
      BY <2>3
  <1>7. \A i \in 1 .. K : bs[i] \in x.enc.open /\ bs[i] \in Nat
    BY <1>3, ClosingIsFinite DEF Closing
  <1>8. \A b \in x.enc.open : \E i \in 1 .. K : bs[i] = b
    BY <1>6 DEF Closing
  <1> QED
    BY <1>1, <1>4, <1>5, <1>7, <1>8 DEF bs

-----------------------------------------------------------------------------
(* What the encoder's operators do to the message, of which said was sent. *)

Hist(x) == said \o x.ev

\* ... and F are the fragments that were put into it.
Orderly(x, F) == x \in PairTypes /\ Tidy(x.enc, Hist(x), F)
Faithful(x)   == Mirrors(x.enc, Hist(x)) /\ Ready(x.enc)

LEMMA JoinAppend ==
  ASSUME NEW s \in Seq(EventTypes), NEW t \in Seq(EventTypes), NEW e \in EventTypes
  PROVE  s \o Append(t, e) = Append(s \o t, e) /\ s \o t \in Seq(EventTypes)
  <1>1. Append(t, e) = t \o <<e>> /\ Append(s \o t, e) = (s \o t) \o <<e>>
    BY AppendIsConcat, ConcatProperties
  <1>2. <<e>> \in Seq(EventTypes)
    OBVIOUS
  <1> QED
    BY <1>1, <1>2, ConcatAssociative, ConcatProperties

\* One event more.
LEMMA OneMore ==
  ASSUME said \in Seq(EventTypes), NEW x \in PairTypes, NEW y, NEW e \in EventTypes,
         y.enc \in EncTypes, y = [enc |-> y.enc, ev |-> Append(x.ev, e)]
  PROVE  /\ y \in PairTypes /\ Hist(y) = Append(Hist(x), e) /\ Hist(x) \in Seq(EventTypes)
  <1>1. x.ev \in Seq(EventTypes)
    BY DEF PairTypes
  <1>2. Append(x.ev, e) \in Seq(EventTypes) /\ y.ev = Append(x.ev, e)
    BY <1>1
  <1>3. y \in PairTypes
    BY <1>2 DEF PairTypes
  <1> QED
    BY <1>1, <1>2, <1>3, JoinAppend DEF Hist

LEMMA StartedIs ==
  ASSUME said \in Seq(EventTypes), NEW x, NEW F, Orderly(x, F)
  PROVE  /\ Orderly(Started(x), F) /\ (Faithful(x) => Faithful(Started(x)))
         /\ Started(x).enc.started
         /\ Started(x).enc = [x.enc EXCEPT !.started = TRUE]
  <1> DEFINE e == Event("start", NoBlock, Nowhere)
             d == [x.enc EXCEPT !.started = TRUE]
             y == [enc |-> d, ev |-> Append(x.ev, e)]
  <1>1. x \in PairTypes /\ x.enc \in EncTypes /\ Tidy(x.enc, Hist(x), F)
    BY DEF Orderly, PairTypes
  <1>2. e \in EventTypes /\ e.kind = "start"
    BY EventIs, Names
  <1>3. /\ d \in EncTypes /\ d.started /\ d.next = x.enc.next /\ d.text = x.enc.text
        /\ d.tool = x.enc.tool /\ d.open = x.enc.open /\ d.final = x.enc.final
    BY <1>1 DEF EncTypes
  <1>4. x.enc.started => d = x.enc
    BY <1>1 DEF EncTypes
  <1>5. ~x.enc.started => Started(x) = y
    BY <1>1 DEF Started, Say, PairTypes
  <1>6. x.enc.started => Started(x) = x
    BY DEF Started
  <1> HIDE DEF e, d
  <1>7. y \in PairTypes /\ Hist(y) = Append(Hist(x), e) /\ y.enc = d /\ Hist(x) \in Seq(EventTypes)
    <2>1. y.enc = d /\ y = [enc |-> y.enc, ev |-> Append(x.ev, e)]
      OBVIOUS
    <2> HIDE DEF y
    <2> QED
      BY <1>1, <1>2, <1>3, <2>1, OneMore
  <1> HIDE DEF y
  <1>8. CASE x.enc.started
    BY <1>1, <1>3, <1>4, <1>6, <1>8 DEF Orderly, d
  <1>9. CASE ~x.enc.started
    <2>1. /\ Tidy(d, Append(Hist(x), e), F)
          /\ Mirrors(x.enc, Hist(x)) => Mirrors(d, Append(Hist(x), e))
          /\ Ready(x.enc) => Ready(d)
      BY <1>1, <1>2, <1>3, <1>7, <1>9, SayStart
    <2>2. Orderly(y, F) /\ (Faithful(x) => Faithful(y)) /\ y.enc.started /\ y.enc = d
      BY <1>3, <1>7, <2>1 DEF Orderly, Faithful
    <2> QED
      BY <1>5, <1>9, <2>2 DEF d
  <1> QED
    BY <1>8, <1>9

\* What no event of a chunk's content changes.
SameRest(c, d) ==
    d.started = c.started /\ d.final = c.final /\ d.stop = c.stop /\ d.usage = c.usage

LEMMA OpensIs ==
  ASSUME said \in Seq(EventTypes), NEW x \in PairTypes
  PROVE  LET y == Opens(x)
         IN  /\ y \in PairTypes
             /\ y.enc = [x.enc EXCEPT !.next = x.enc.next + 1,
                                      !.open = x.enc.open \cup {x.enc.next}]
             /\ \E e \in EventTypes : /\ e.kind = "open" /\ e.block = x.enc.next
                                      /\ Hist(y) = Append(Hist(x), e)
                                      /\ y.ev = Append(x.ev, e)
  <1> DEFINE e == Event("open", x.enc.next, Nowhere)
             d == [x.enc EXCEPT !.next = x.enc.next + 1, !.open = x.enc.open \cup {x.enc.next}]
             y == [enc |-> d, ev |-> Append(x.ev, e)]
  <1>1. x.enc \in EncTypes /\ x.enc.next \in Nat
    BY DEF PairTypes, EncTypes
  <1>2. e \in EventTypes /\ e.kind = "open" /\ e.block = x.enc.next
    BY <1>1, EventIs, Names
  <1>3. d \in EncTypes
    <2>1. x.enc.next + 1 \in Nat /\ x.enc.open \cup {x.enc.next} \in SUBSET Nat
      BY <1>1 DEF EncTypes
    <2> QED
      BY <1>1, <2>1 DEF EncTypes
  <1>4. Opens(x) = y
    <2> DEFINE z == [x EXCEPT !.enc.next = @ + 1, !.enc.open = @ \cup {x.enc.next}]
    <2>1. z = [enc |-> d, ev |-> x.ev]
      <3>1. x = [enc |-> x.enc, ev |-> x.ev]
        BY DEF PairTypes
      <3>2. z = [x EXCEPT !.enc = d]
        BY <1>1, <3>1 DEF EncTypes
      <3> QED
        BY <3>1, <3>2
    <2>2. Opens(x) = [z EXCEPT !.ev = Append(@, e)]
      BY DEF Opens, Say
    <2> HIDE DEF z
    <2> QED
      BY <2>1, <2>2
  <1> HIDE DEF e, d
  <1>5. y \in PairTypes /\ Hist(y) = Append(Hist(x), e) /\ y.enc = d /\ y.ev = Append(x.ev, e)
    BY <1>2, <1>3, OneMore
  <1> QED
    BY <1>2, <1>4, <1>5 DEF d

\* A block is opened, for the text or for the tool t.
LEMMA OpenedFor ==
  ASSUME said \in Seq(EventTypes), NEW x, NEW F, Orderly(x, F), NEW d \in EncTypes,
         \/ /\ x.enc.text = NoBlock
            /\ d = [Opens(x).enc EXCEPT !.text = x.enc.next]
         \/ \E t \in Nat : /\ \A p \in ToSet(x.enc.tool) : p[1] # t
                           /\ d = [Opens(x).enc EXCEPT !.tool =
                                                          Append(x.enc.tool, <<t, x.enc.next>>)]
  PROVE  LET y == [enc |-> d, ev |-> Opens(x).ev]
         IN  /\ Orderly(y, F) /\ SameRest(x.enc, d)
             /\ Faithful(x) /\ x.enc.started /\ ~x.enc.final => Faithful(y)
  <1> DEFINE y == [enc |-> d, ev |-> Opens(x).ev]
  <1>1. x \in PairTypes /\ x.enc \in EncTypes /\ Tidy(x.enc, Hist(x), F)
    BY DEF Orderly, PairTypes
  <1>2. PICK e \in EventTypes : /\ e.kind = "open" /\ e.block = x.enc.next
                                /\ Hist(Opens(x)) = Append(Hist(x), e)
                                /\ Opens(x).ev = Append(x.ev, e)
    BY <1>1, OpensIs
  <1>3. /\ Opens(x) \in PairTypes
        /\ Opens(x).enc = [x.enc EXCEPT !.next = x.enc.next + 1,
                                        !.open = x.enc.open \cup {x.enc.next}]
    BY <1>1, OpensIs
  <1>4. y \in PairTypes /\ Hist(y) = Append(Hist(x), e) /\ y.enc = d
    BY <1>2, <1>3 DEF PairTypes, Hist
  <1>5. /\ d.next = x.enc.next + 1 /\ d.open = x.enc.open \cup {x.enc.next}
        /\ SameRest(x.enc, d)
    BY <1>1, <1>3 DEF EncTypes, SameRest
  <1>6. \/ x.enc.text = NoBlock /\ d.text = x.enc.next /\ d.tool = x.enc.tool
        \/ /\ d.text = x.enc.text
           /\ \E t \in Nat : /\ \A p \in ToSet(x.enc.tool) : p[1] # t
                             /\ d.tool = Append(x.enc.tool, <<t, x.enc.next>>)
    BY <1>1, <1>3 DEF EncTypes
  <1> HIDE DEF y
  <1>7. /\ Tidy(d, Append(Hist(x), e), F)
        /\ Mirrors(x.enc, Hist(x)) /\ x.enc.started /\ ~x.enc.final =>
              Mirrors(d, Append(Hist(x), e))
        /\ Ready(x.enc) => Ready(d)
    BY <1>1, <1>2, <1>5, <1>6, SayOpen DEF SameRest
  <1>8. Orderly(y, F) /\ (Faithful(x) /\ x.enc.started /\ ~x.enc.final => Faithful(y))
    BY <1>4, <1>7 DEF Orderly, Faithful
  <1> QED
    BY <1>5, <1>8 DEF y

LEMMA EncKeeps ==
  ASSUME NEW c \in EncTypes
  PROVE  /\ \A t \in Int : [c EXCEPT !.text = t] \in EncTypes /\ [c EXCEPT !.text = t].text = t
         /\ \A s \in Seq(Nat \X Nat) :
               [c EXCEPT !.tool = s] \in EncTypes /\ [c EXCEPT !.tool = s].tool = s
  BY DEF EncTypes

LEMMA DeltaSaid ==
  ASSUME said \in Seq(EventTypes), NEW x, NEW F, Orderly(x, F), NEW p \in Nat \X Nat,
         \A f \in F : Precedes(f, p), NEW b \in Int, InBlock(x.enc, Source(p), b)
  PROVE  LET y == Say(x, Event("delta", b, p))
         IN  /\ Orderly(y, F \cup {p}) /\ y.enc = x.enc
             /\ Faithful(x) /\ x.enc.started /\ ~x.enc.final => Faithful(y)
  <1> DEFINE e == Event("delta", b, p)
             y == [enc |-> x.enc, ev |-> Append(x.ev, e)]
  <1>1. x \in PairTypes /\ x.enc \in EncTypes /\ Tidy(x.enc, Hist(x), F)
    BY DEF Orderly, PairTypes
  <1>2. e \in EventTypes /\ e.kind = "delta" /\ e.block = b /\ e.of = p
    BY EventIs, Names
  <1> HIDE DEF e
  <1>3. Say(x, e) = y /\ y.enc = x.enc /\ y = [enc |-> y.enc, ev |-> Append(x.ev, e)]
    <2>1. Say(x, e) = [x EXCEPT !.ev = Append(x.ev, e)]
      BY DEF Say
    <2>2. x = [enc |-> x.enc, ev |-> x.ev]
      BY <1>1 DEF PairTypes
    <2>3. \A s : [x EXCEPT !.ev = s] = [enc |-> x.enc, ev |-> s]
      BY <2>2
    <2> QED
      BY <2>1, <2>3
  <1> HIDE DEF y
  <1>4. y \in PairTypes /\ Hist(y) = Append(Hist(x), e) /\ y.enc = x.enc
    BY <1>1, <1>2, <1>3, OneMore
  <1>5. /\ Tidy(x.enc, Append(Hist(x), e), F \cup {p})
        /\ Mirrors(x.enc, Hist(x)) /\ Ready(x.enc) /\ x.enc.started /\ ~x.enc.final =>
              Mirrors(x.enc, Append(Hist(x), e))
    BY <1>1, <1>2, SayDelta
  <1>6. Orderly(y, F \cup {p}) /\ (Faithful(x) /\ x.enc.started /\ ~x.enc.final => Faithful(y))
    BY <1>4, <1>5 DEF Orderly, Faithful
  <1> QED
    BY <1>3, <1>4, <1>6 DEF e

LEMMA ChunkIs ==
  ASSUME NEW n \in DOMAIN script, script[n] \in Chunks, ScriptTypes
  PROVE  /\ n \in Nat /\ script[n].text \in BOOLEAN /\ script[n].finish \in BOOLEAN
         /\ script[n].tools \in Seq(Nat \X BOOLEAN) /\ Len(script[n].tools) \in Nat
         /\ DOMAIN script[n].tools = 1 .. Len(script[n].tools)
         /\ \A i \in DOMAIN script[n].tools : script[n].tools[i][1] \in Nat
         /\ \A i \in DOMAIN script[n].tools : script[n].tools[i][2] \in BOOLEAN
         /\ script[n].usage \in {"no", "empty", "full"}
  <1>1. script[n].tools \in Seq(Nat \X BOOLEAN)
    BY StreamAssumption
  <1>2. n \in Nat
    BY ScriptIs
  <1> QED
    BY <1>1, <1>2, StreamAssumption

\* The fragment of text of a chunk, as a set.
TextOf(n) == IF script[n].text THEN {<<n, 0>>} ELSE {}

LEMMA WithTextIs ==
  ASSUME said \in Seq(EventTypes), ScriptTypes, NEW x, NEW F, Orderly(x, F),
         NEW n \in DOMAIN script, script[n] \in Chunks, \A f \in F : f[1] < n
  PROVE  LET z == WithText(x, n)
         IN  /\ Orderly(z, F \cup TextOf(n)) /\ SameRest(x.enc, z.enc)
             /\ Faithful(x) /\ x.enc.started /\ ~x.enc.final => Faithful(z)
  <1> DEFINE p == <<n, 0>>
             d == [Opens(x).enc EXCEPT !.text = x.enc.next]
             y == IF x.enc.text # NoBlock THEN x ELSE [Opens(x) EXCEPT !.enc.text = x.enc.next]
             z == Say(y, Event("delta", y.enc.text, p))
  <1>1. x \in PairTypes /\ x.enc \in EncTypes /\ x.enc.next \in Nat /\ x.enc.text \in Int
    BY DEF Orderly, PairTypes, EncTypes
  <1>2. CASE ~script[n].text
    BY <1>2 DEF WithText, TextOf, SameRest
  <1>3. CASE script[n].text
    <2>1. /\ Orderly(y, F) /\ SameRest(x.enc, y.enc) /\ y.enc.text # NoBlock /\ y.enc.text \in Int
          /\ Faithful(x) /\ x.enc.started /\ ~x.enc.final => Faithful(y)
      <3>1. CASE x.enc.text # NoBlock
        BY <1>1, <3>1 DEF SameRest
      <3>2. CASE x.enc.text = NoBlock
        <4>1. Opens(x) \in PairTypes /\ Opens(x).enc \in EncTypes
          BY <1>1, OpensIs DEF PairTypes
        <4>2. d \in EncTypes /\ d.text = x.enc.next
          <5>1. x.enc.next \in Int
            BY <1>1
          <5> QED
            BY <4>1, <5>1, EncKeeps
        <4>3. y = [enc |-> d, ev |-> Opens(x).ev]
          BY <3>2, <4>1 DEF PairTypes
        <4>4. /\ Orderly([enc |-> d, ev |-> Opens(x).ev], F) /\ SameRest(x.enc, d)
              /\ Faithful(x) /\ x.enc.started /\ ~x.enc.final =>
                    Faithful([enc |-> d, ev |-> Opens(x).ev])
          BY <3>2, <4>2, OpenedFor
        <4>5. x.enc.next # NoBlock
          BY <1>1 DEF NoBlock
        <4> HIDE DEF d, y
        <4> QED
          BY <1>1, <4>2, <4>3, <4>4, <4>5
      <3> QED
        BY <3>1, <3>2
    <2>2. p \in Nat \X Nat /\ p[1] = n /\ p[2] = 0 /\ Source(p) = TextSource
      BY ChunkIs DEF Source
    <2>3. \A f \in F : Precedes(f, p)
      BY <2>2 DEF Precedes
    <2> HIDE DEF p, y
    <2>4. InBlock(y.enc, Source(p), y.enc.text)
      BY <2>1, <2>2 DEF InBlock
    <2>5. /\ Orderly(z, F \cup {p}) /\ z.enc = y.enc
          /\ Faithful(y) /\ y.enc.started /\ ~y.enc.final => Faithful(z)
      BY <2>1, <2>2, <2>3, <2>4, DeltaSaid
    <2>6. WithText(x, n) = z /\ TextOf(n) = {p}
      BY <1>3 DEF WithText, TextOf, y, p
    <2> HIDE DEF z
    <2> QED
      BY <2>1, <2>5, <2>6 DEF SameRest
  <1> QED
    BY <1>2, <1>3

\* The fragment of the i-th tool call.
CallOf(n, i) == IF script[n].tools[i][2] THEN {<<n, i>>} ELSE {}

LEMMA WithToolIs ==
  ASSUME said \in Seq(EventTypes), ScriptTypes, NEW x, NEW F, Orderly(x, F),
         NEW n \in DOMAIN script, script[n] \in Chunks, NEW i \in DOMAIN script[n].tools,
         \A f \in F : Precedes(f, <<n, i>>)
  PROVE  LET z == WithTool(x, n, i)
         IN  /\ Orderly(z, F \cup CallOf(n, i)) /\ SameRest(x.enc, z.enc)
             /\ Faithful(x) /\ x.enc.started /\ ~x.enc.final => Faithful(z)
  <1> DEFINE p == <<n, i>>
             tool == script[n].tools[i][1]
             known == \E t \in ToSet(x.enc.tool) : t[1] = tool
             d == [Opens(x).enc EXCEPT !.tool = Append(@, <<tool, x.enc.next>>)]
             y == IF known THEN x
                  ELSE [Opens(x) EXCEPT !.enc.tool = Append(@, <<tool, x.enc.next>>)]
             z == Say(y, Event("delta", BlockOf(y, tool), p))
  <1>1. /\ x \in PairTypes /\ x.enc \in EncTypes /\ x.enc.next \in Nat
        /\ x.enc.tool \in Seq(Nat \X Nat)
    BY DEF Orderly, PairTypes, EncTypes
  <1>2. tool \in Nat /\ i \in Nat /\ i # 0
    BY ChunkIs
  <1> HIDE DEF tool
  <1>3. /\ Orderly(y, F) /\ SameRest(x.enc, y.enc)
        /\ \E t \in ToSet(y.enc.tool) : t[1] = tool
        /\ Faithful(x) /\ x.enc.started /\ ~x.enc.final => Faithful(y)
    <2>1. CASE known
      BY <1>1, <2>1 DEF SameRest
    <2>2. CASE ~known
      <3>1. /\ Opens(x) \in PairTypes /\ Opens(x).enc \in EncTypes
            /\ Opens(x).enc.tool = x.enc.tool
        <4>1. /\ Opens(x) \in PairTypes
              /\ Opens(x).enc = [x.enc EXCEPT !.next = x.enc.next + 1,
                                              !.open = x.enc.open \cup {x.enc.next}]
          BY <1>1, OpensIs
        <4>2. Opens(x).enc \in EncTypes
          BY <4>1 DEF PairTypes
        <4> QED
          BY <1>1, <4>1, <4>2 DEF EncTypes
      <3>2. Append(x.enc.tool, <<tool, x.enc.next>>) \in Seq(Nat \X Nat)
            /\ <<tool, x.enc.next>> \in ToSet(Append(x.enc.tool, <<tool, x.enc.next>>))
        BY <1>1, <1>2, ToolAppended
      <3>3. /\ d \in EncTypes /\ d.tool = Append(x.enc.tool, <<tool, x.enc.next>>)
            /\ d = [Opens(x).enc EXCEPT !.tool = Append(x.enc.tool, <<tool, x.enc.next>>)]
        <4>1. d = [Opens(x).enc EXCEPT !.tool = Append(x.enc.tool, <<tool, x.enc.next>>)]
          BY <3>1
        <4> HIDE DEF d, y, z, p, known
        <4> QED
          BY <3>1, <3>2, <4>1, EncKeeps
      <3>4. y = [enc |-> d, ev |-> Opens(x).ev]
        BY <2>2, <3>1 DEF PairTypes
      <3>5. /\ Orderly([enc |-> d, ev |-> Opens(x).ev], F) /\ SameRest(x.enc, d)
            /\ Faithful(x) /\ x.enc.started /\ ~x.enc.final =>
                  Faithful([enc |-> d, ev |-> Opens(x).ev])
        BY <1>2, <2>2, <3>3, OpenedFor
      <3> HIDE DEF d, y
      <3>6. y.enc = d
        BY <3>4
      <3>7. \E t \in ToSet(d.tool) : t[1] = tool
        BY <3>2, <3>3
      <3> QED
        BY <3>4, <3>5, <3>6, <3>7
    <2> QED
      BY <2>1, <2>2
  <1>4. WithTool(x, n, i) = IF script[n].tools[i][2] THEN z ELSE y
    BY DEF WithTool, tool
  <1> HIDE DEF y
  <1>5. CASE ~script[n].tools[i][2]
    <2> HIDE DEF z
    <2> QED
      BY <1>3, <1>4, <1>5 DEF CallOf
  <1>6. CASE script[n].tools[i][2]
    <2>1. p \in Nat \X Nat /\ p[1] = n /\ p[2] = i /\ Source(p) = tool /\ tool # TextSource
      BY <1>2, ChunkIs DEF Source, TextSource, tool
    <2>2. BlockOf(y, tool) \in Int /\ <<tool, BlockOf(y, tool)>> \in ToSet(y.enc.tool)
      <3>1. y.enc \in EncTypes /\ Pure(y.enc, Hist(y)) /\ y.enc.tool \in Seq(Nat \X Nat)
        BY <1>3 DEF Orderly, Tidy, PairTypes, EncTypes
      <3>2. PICK t \in ToSet(y.enc.tool) : t[1] = tool
        BY <1>3
      <3>3. t \in Nat \X Nat /\ t[2] \in 0 .. y.enc.next - 1
        BY <3>1, <3>2 DEF Pure, ToSet
      <3>4. t = <<tool, t[2]>>
        BY <3>2, <3>3
      <3>5. \E b \in 0 .. y.enc.next - 1 : <<tool, b>> \in ToSet(y.enc.tool)
        BY <3>2, <3>3, <3>4
      <3>6. /\ BlockOf(y, tool) \in 0 .. y.enc.next - 1
            /\ <<tool, BlockOf(y, tool)>> \in ToSet(y.enc.tool)
        BY <3>5 DEF BlockOf
      <3> QED
        BY <3>6
    <2> HIDE DEF p
    <2>3. InBlock(y.enc, Source(p), BlockOf(y, tool))
      BY <2>1, <2>2 DEF InBlock
    <2>4. \A f \in F : Precedes(f, p)
      BY DEF p
    <2>5. /\ Orderly(z, F \cup {p}) /\ z.enc = y.enc
          /\ Faithful(y) /\ y.enc.started /\ ~y.enc.final => Faithful(z)
      BY <1>3, <2>1, <2>2, <2>3, <2>4, DeltaSaid
    <2>6. WithTool(x, n, i) = z /\ CallOf(n, i) = {p}
      BY <1>4, <1>6 DEF CallOf, p
    <2> HIDE DEF z
    <2> QED
      BY <1>3, <2>5, <2>6 DEF SameRest
  <1> QED
    BY <1>5, <1>6

\* The end of the message was told, with the usage and the reason of the stop.
Told(c, h) == \E i \in DOMAIN h : h[i].kind = "usage" /\ h[i].of = <<c.usage, c.stop>>

\* Usage and stop can be noted without a word.
LEMMA NotedIs ==
  ASSUME NEW x, NEW F, Orderly(x, F), NEW k \in Nat
  PROVE  /\ LET y == [x EXCEPT !.enc.stop = k]
            IN  /\ Orderly(y, F) /\ (Faithful(x) => Faithful(y)) /\ y.enc.stop = k
                /\ y.enc.started = x.enc.started /\ y.enc.final = x.enc.final
                /\ y.enc.usage = x.enc.usage
         /\ LET y == [x EXCEPT !.enc.usage = k]
            IN  /\ Orderly(y, F) /\ (Faithful(x) => Faithful(y)) /\ y.enc.usage = k
                /\ y.enc.started = x.enc.started /\ y.enc.final = x.enc.final
                /\ y.enc.stop = x.enc.stop
  <1>1. x \in PairTypes /\ x.enc \in EncTypes /\ Tidy(x.enc, Hist(x), F)
    BY DEF Orderly, PairTypes
  <1>2. ASSUME NEW y, NEW d \in EncTypes, y = [x EXCEPT !.enc = d], d.next = x.enc.next,
               d.text = x.enc.text, d.tool = x.enc.tool, d.open = x.enc.open,
               d.started = x.enc.started, d.final = x.enc.final
        PROVE  Orderly(y, F) /\ (Faithful(x) => Faithful(y)) /\ y.enc = d
    <2>1. y \in PairTypes /\ y.enc = d /\ y.ev = x.ev
      BY <1>1, <1>2 DEF PairTypes
    <2>2. Hist(y) = Hist(x)
      BY <2>1 DEF Hist
    <2>3. Tidy(d, Hist(x), F)
      BY <1>1, <1>2 DEF Tidy, Pure, InBlock
    <2>4. Faithful(x) => Mirrors(d, Hist(x)) /\ Ready(d)
      BY <1>2 DEF Faithful, Mirrors, Ready
    <2> QED
      BY <2>1, <2>2, <2>3, <2>4 DEF Orderly, Faithful
  <1> DEFINE s == [x.enc EXCEPT !.stop = k]
             u == [x.enc EXCEPT !.usage = k]
  <1>3. /\ s \in EncTypes /\ s.next = x.enc.next /\ s.text = x.enc.text
        /\ s.tool = x.enc.tool /\ s.open = x.enc.open /\ s.stop = k
        /\ s.started = x.enc.started /\ s.final = x.enc.final /\ s.usage = x.enc.usage
    BY <1>1 DEF EncTypes
  <1>4. /\ u \in EncTypes /\ u.next = x.enc.next /\ u.text = x.enc.text
        /\ u.tool = x.enc.tool /\ u.open = x.enc.open /\ u.usage = k
        /\ u.started = x.enc.started /\ u.final = x.enc.final /\ u.stop = x.enc.stop
    BY <1>1 DEF EncTypes
  <1>5. [x EXCEPT !.enc.stop = k] = [x EXCEPT !.enc = s]
    BY <1>1 DEF PairTypes
  <1>6. [x EXCEPT !.enc.usage = k] = [x EXCEPT !.enc = u]
    BY <1>1 DEF PairTypes
  <1> HIDE DEF s, u
  <1>7. /\ Orderly([x EXCEPT !.enc = s], F) /\ (Faithful(x) => Faithful([x EXCEPT !.enc = s]))
        /\ [x EXCEPT !.enc = s].enc = s
    BY <1>2, <1>3
  <1>8. /\ Orderly([x EXCEPT !.enc = u], F) /\ (Faithful(x) => Faithful([x EXCEPT !.enc = u]))
        /\ [x EXCEPT !.enc = u].enc = u
    BY <1>2, <1>4
  <1> QED
    BY <1>3, <1>4, <1>5, <1>6, <1>7, <1>8

LEMMA ListGrows ==
  ASSUME NEW k \in Nat, NEW f
  PROVE  [i \in 1 .. k + 1 |-> f[i]] = Append([i \in 1 .. k |-> f[i]], f[k + 1])
  <1> DEFINE s == [i \in 1 .. k |-> f[i]]
  <1>1. s \in Seq({f[i] : i \in 1 .. k}) /\ Len(s) = k
    OBVIOUS
  <1>2. Append(s, f[k + 1]) = [i \in 1 .. k + 1 |-> IF i <= k THEN s[i] ELSE f[k + 1]]
    BY <1>1
  <1>3. \A i \in 1 .. k + 1 : f[i] = IF i <= k THEN s[i] ELSE f[k + 1]
    OBVIOUS
  <1> QED
    BY <1>2, <1>3

\* All blocks are closed, one after the other.
LEMMA ClosingSaid ==
  ASSUME said \in Seq(EventTypes), NEW x, NEW F, Orderly(x, F)
  PROVE  LET bs == InClosingOrder(x)
             cs == [i \in DOMAIN bs |-> Event("close", bs[i], Nowhere)]
             d  == [x.enc EXCEPT !.open = {}]
             h  == Hist(x) \o cs
         IN  /\ cs \in Seq(EventTypes) /\ d \in EncTypes /\ Tidy(d, h, F)
             /\ Mirrors(x.enc, Hist(x)) /\ x.enc.started /\ ~x.enc.final => Mirrors(d, h)
  <1> DEFINE bs == InClosingOrder(x)
             K  == Cardinality(Closing(x))
             c  == [i \in 1 .. K |-> Event("close", bs[i], Nowhere)]
             to(k) == [i \in 1 .. k |-> c[i]]
             shut(k) == {bs[i] : i \in 1 .. k}
             d(k) == [x.enc EXCEPT !.open = x.enc.open \ shut(k)]
             legal == Mirrors(x.enc, Hist(x)) /\ x.enc.started /\ ~x.enc.final
             Holds(k) == /\ to(k) \in Seq(EventTypes) /\ d(k) \in EncTypes
                         /\ Tidy(d(k), Hist(x) \o to(k), F)
                         /\ legal => Mirrors(d(k), Hist(x) \o to(k))
             G == {k \in 0 .. K : Holds(k)}
  <1>1. /\ x \in PairTypes /\ x.enc \in EncTypes /\ Tidy(x.enc, Hist(x), F) /\ Kept(x)
        /\ Hist(x) \in Seq(EventTypes)
    BY DEF Orderly, PairTypes, Kept, Tidy, Pure
  <1>2. /\ K \in Nat /\ bs = [i \in 1 .. K |-> bs[i]]
        /\ \A i \in 1 .. K : bs[i] \in x.enc.open /\ bs[i] \in Nat
        /\ \A i, j \in 1 .. K : bs[i] = bs[j] => i = j
        /\ \A b \in x.enc.open : \E i \in 1 .. K : bs[i] = b
    BY <1>1, ClosingLists
  <1> HIDE DEF bs, K
  <1>3. \A i \in 1 .. K : /\ c[i] \in EventTypes /\ c[i].kind = "close" /\ c[i].block = bs[i]
    <2> SUFFICES ASSUME NEW i \in 1 .. K
                 PROVE  c[i] \in EventTypes /\ c[i].kind = "close" /\ c[i].block = bs[i]
      OBVIOUS
    <2>1. bs[i] \in Int
      BY <1>2
    <2> QED
      BY <2>1, EventIs, Names
  <1>4. \A k \in 0 .. K : d(k) \in EncTypes /\ d(k).open = x.enc.open \ shut(k)
                          /\ d(k).next = x.enc.next /\ d(k).text = x.enc.text
                          /\ d(k).tool = x.enc.tool /\ d(k).started = x.enc.started
                          /\ d(k).final = x.enc.final
    BY <1>1 DEF EncTypes
  <1> HIDE DEF c, d
  <1>5. 0 \in G
    <2>1. to(0) = <<>> /\ shut(0) = {}
      OBVIOUS
    <2>2. Hist(x) \o <<>> = Hist(x)
      BY <1>1, ConcatEmptySeq
    <2>3. d(0) \in EncTypes /\ d(0) = x.enc
      <3>1. x.enc.open \ {} = x.enc.open
        OBVIOUS
      <3> QED
        BY <1>1, <2>1, <3>1 DEF d, EncTypes
    <2>4. <<>> \in Seq(EventTypes) /\ 0 \in 0 .. K
      BY <1>2
    <2>5. Holds(0)
      BY <1>1, <2>1, <2>2, <2>3, <2>4
    <2> HIDE DEF Holds
    <2> QED
      BY <2>4, <2>5
  <1>6. ASSUME NEW k \in 1 .. K, k - 1 \in G PROVE k \in G
    <2>1. k - 1 \in 0 .. K /\ k - 1 \in Nat /\ k \in 0 .. K /\ (k - 1) + 1 = k
      BY <1>2
    <2>2. Holds(k - 1)
      BY <1>6
    <2>3. to(k) = Append(to(k - 1), c[k])
      <3> HIDE DEF Holds
      <3> QED
        BY <2>1, ListGrows
    <2>4. shut(k) = shut(k - 1) \cup {bs[k]}
      <3>1. 1 .. k = (1 .. k - 1) \cup {k}
        BY <2>1
      <3> HIDE DEF Holds
      <3> QED
        BY <3>1
    <2>5. bs[k] \in x.enc.open \ shut(k - 1)
      <3> HIDE DEF Holds
      <3>1. \A i \in 1 .. k - 1 : i \in 1 .. K /\ i # k
        BY <1>2
      <3> QED
        BY <1>2, <3>1
    <2> DEFINE h == Hist(x) \o to(k - 1)
    <2>6. Hist(x) \o to(k) = Append(h, c[k]) /\ h \in Seq(EventTypes)
          /\ to(k) \in Seq(EventTypes)
      <3>1. to(k - 1) \in Seq(EventTypes) /\ c[k] \in EventTypes
        BY <1>3, <2>2
      <3> HIDE DEF to, Holds
      <3> QED
        BY <1>1, <2>3, <3>1, JoinAppend
    <2>7. /\ d(k).open = d(k - 1).open \ {bs[k]} /\ bs[k] \in d(k - 1).open
          /\ d(k - 1).open \subseteq x.enc.open
      <3> HIDE DEF Holds, to, shut
      <3> QED
        BY <1>4, <2>1, <2>4, <2>5
    <2>8. Tidy(d(k - 1), h, F) /\ (legal => Mirrors(d(k - 1), h))
      BY <2>2
    <2>9. /\ d(k - 1) \in EncTypes /\ d(k) \in EncTypes
          /\ d(k - 1).open \subseteq 0 .. d(k - 1).next - 1
      <3> HIDE DEF Holds, h
      <3> QED
        BY <1>4, <2>1, <2>8 DEF Tidy, Pure
    <2> HIDE DEF h, to, shut
    <2>10. Tidy(d(k), Append(h, c[k]), F)
      <3> HIDE DEF Holds, legal
      <3> QED
        BY <1>3, <1>4, <2>1, <2>7, <2>8, <2>9, SayingKeepsTidy
    <2>11. legal => Mirrors(d(k), Append(h, c[k]))
      <3> HIDE DEF Holds, legal
      <3>1. /\ d(k).started = d(k - 1).started /\ d(k).next = d(k - 1).next
            /\ d(k).final = d(k - 1).final
        BY <1>4, <2>1
      <3>2. legal => d(k - 1).started /\ ~d(k - 1).final
        BY <1>4, <2>1 DEF legal
      <3>3. c[k] \in EventTypes /\ c[k].kind = "close" /\ c[k].block = bs[k]
        BY <1>3
      <3> QED
        BY <2>6, <2>7, <2>8, <2>9, <3>1, <3>2, <3>3, SayClose
    <2>12. Holds(k)
      BY <2>6, <2>9, <2>10, <2>11
    <2> HIDE DEF Holds
    <2> QED
      BY <2>1, <2>12
  <1>7. K \in G
    <2> HIDE DEF G
    <2>1. 0 .. K \subseteq G
      BY <1>2, <1>5, <1>6, UpTo
    <2> QED
      BY <1>2, <2>1
  <1>8. to(K) = c /\ c = [i \in DOMAIN bs |-> Event("close", bs[i], Nowhere)]
    <2>1. DOMAIN bs = 1 .. K
      BY <1>2
    <2> QED
      BY <2>1 DEF c
  <1>9. d(K) = [x.enc EXCEPT !.open = {}]
    <2>1. x.enc.open \ shut(K) = {}
      BY <1>2
    <2> QED
      BY <2>1 DEF d
  <1>10. Holds(K)
    BY <1>7
  <1> HIDE DEF to, d, c
  <1> QED
    BY <1>8, <1>9, <1>10 DEF bs

LEMMA TwoMore ==
  ASSUME NEW s \in Seq(EventTypes), NEW t \in Seq(EventTypes), NEW u \in EventTypes,
         NEW v \in EventTypes
  PROVE  /\ t \o <<u, v>> \in Seq(EventTypes)
         /\ s \o (t \o <<u, v>>) = Append(Append(s \o t, u), v)
  <1>1. t \o <<u, v>> = Append(Append(t, u), v) /\ Append(t, u) \in Seq(EventTypes)
    OBVIOUS
  <1>2. Append(Append(t, u), v) \in Seq(EventTypes)
    BY <1>1
  <1>3. s \o Append(Append(t, u), v) = Append(s \o Append(t, u), v)
    BY <1>1, JoinAppend
  <1>4. s \o Append(t, u) = Append(s \o t, u)
    BY JoinAppend
  <1> QED
    BY <1>1, <1>2, <1>3, <1>4

LEMMA ThreeJoin ==
  ASSUME NEW r \in Seq(EventTypes), NEW s \in Seq(EventTypes), NEW t \in Seq(EventTypes)
  PROVE  (r \o s) \o t = r \o (s \o t) /\ s \o t \in Seq(EventTypes)
  BY ConcatAssociative, ConcatProperties

LEMMA FinalizedIs ==
  ASSUME said \in Seq(EventTypes), NEW x, NEW F, Orderly(x, F)
  PROVE  LET y == Finalized(x)
         IN  /\ Orderly(y, F) /\ y.enc.final /\ y.enc.started = x.enc.started
             /\ y.enc.stop = x.enc.stop /\ y.enc.usage = x.enc.usage
             /\ Faithful(x) /\ x.enc.started => Faithful(y)
             /\ ~x.enc.final \/ Told(x.enc, Hist(x)) => Told(y.enc, Hist(y))
  <1>1. x \in PairTypes /\ x.enc \in EncTypes /\ x.ev \in Seq(EventTypes)
        /\ Hist(x) \in Seq(EventTypes)
    BY DEF Orderly, PairTypes, Tidy
  <1>2. CASE x.enc.final
    BY <1>2 DEF Finalized
  <1>3. CASE ~x.enc.final
    <2> DEFINE bs == InClosingOrder(x)
               cs == [i \in DOMAIN bs |-> Event("close", bs[i], Nowhere)]
               c  == [x.enc EXCEPT !.open = {}]
               d  == [x.enc EXCEPT !.final = TRUE, !.open = {}]
               u  == Event("usage", NoBlock, <<x.enc.usage, x.enc.stop>>)
               s  == Event("stop", NoBlock, Nowhere)
               y  == [enc |-> d, ev |-> x.ev \o cs \o <<u, s>>]
    <2>1. Finalized(x) = y
      BY <1>3 DEF Finalized
    <2>2. /\ cs \in Seq(EventTypes) /\ c \in EncTypes /\ Tidy(c, Hist(x) \o cs, F)
          /\ Mirrors(x.enc, Hist(x)) /\ x.enc.started /\ ~x.enc.final => Mirrors(c, Hist(x) \o cs)
      BY ClosingSaid
    <2>3. /\ u \in EventTypes /\ u.kind = "usage" /\ u.of = <<x.enc.usage, x.enc.stop>>
          /\ s \in EventTypes /\ s.kind = "stop"
      <3>1. <<x.enc.usage, x.enc.stop>> \in Nat \X Nat
        BY <1>1 DEF EncTypes
      <3> QED
        BY <3>1, EventIs, Names
    <2>4. /\ d \in EncTypes /\ d.final /\ d.open = {} /\ d.started = x.enc.started
          /\ d.next = x.enc.next /\ d.text = x.enc.text /\ d.tool = x.enc.tool
          /\ d.stop = x.enc.stop /\ d.usage = x.enc.usage
          /\ c.started = x.enc.started /\ c.next = x.enc.next /\ c.text = x.enc.text
          /\ c.tool = x.enc.tool /\ c.final = x.enc.final /\ c.open = {}
      BY <1>1 DEF EncTypes
    <2> HIDE DEF cs, bs, c, d, u, s
    <2> DEFINE h == Hist(x) \o cs
    <2>5. h \in Seq(EventTypes)
      BY <2>2 DEF Tidy
    <2>6. y \in PairTypes /\ y.enc = d /\ Hist(y) = Append(Append(h, u), s)
      <3>1. x.ev \o cs \in Seq(EventTypes) /\ Hist(x) \o cs = said \o (x.ev \o cs)
        <4>1. cs \in Seq(EventTypes)
          BY <2>2
        <4> QED
          BY <1>1, <4>1, ThreeJoin DEF Hist
      <3>2. /\ (x.ev \o cs) \o <<u, s>> \in Seq(EventTypes)
            /\ said \o ((x.ev \o cs) \o <<u, s>>) = Append(Append(said \o (x.ev \o cs), u), s)
        BY <2>3, <3>1, TwoMore
      <3> QED
        BY <2>4, <3>1, <3>2 DEF PairTypes, Hist
    <2> HIDE DEF y, h
    <2>7. Tidy(d, Append(Append(h, u), s), F)
      <3>1. Tidy(c, h, F) /\ u.kind # "delta" /\ s.kind # "delta"
        BY <2>2, <2>3 DEF h
      <3>2. Tidy(c, Append(h, u), F)
        BY <2>2, <2>3, <3>1, SayingKeepsTidy
      <3> QED
        BY <2>3, <2>4, <3>1, <3>2, SayingKeepsTidy
    <2>8. Faithful(x) /\ x.enc.started => Mirrors(d, Append(Append(h, u), s)) /\ Ready(d)
      <3>1. ASSUME Faithful(x), x.enc.started PROVE Mirrors(d, Append(Append(h, u), s))
        <4>1. Mirrors(c, h)
          BY <1>3, <2>2, <3>1 DEF Faithful, h
        <4> QED
          BY <1>3, <2>2, <2>3, <2>4, <2>5, <3>1, <4>1, SayEnd
      <3>2. Ready(d)
        BY <2>4 DEF Ready
      <3> QED
        BY <3>1, <3>2
    <2>9. Told(d, Append(Append(h, u), s))
      <3>1. Append(h, u) \in Seq(EventTypes) /\ Append(h, u)[Len(h) + 1] = u
            /\ Len(h) + 1 \in DOMAIN Append(h, u)
        BY <2>3, <2>5, Appended
      <3>2. /\ Append(Append(h, u), s)[Len(h) + 1] = u
            /\ Len(h) + 1 \in DOMAIN Append(Append(h, u), s)
        BY <2>3, <3>1, Appended
      <3> QED
        BY <2>3, <2>4, <3>2 DEF Told
    <2> QED
      BY <2>1, <2>4, <2>6, <2>7, <2>8, <2>9 DEF Orderly, Faithful
  <1> QED
    BY <1>2, <1>3

\* The loop over the tool calls is a function.
Loop(x, n, L, w) == w = [i \in 0 .. L |-> IF i = 0 THEN x ELSE WithTool(w[i - 1], n, i)]

LEMMA LoopEnds ==
  ASSUME NEW x, NEW n, NEW L \in Nat
  PROVE  \E w : Loop(x, n, L, w)
  <1> DEFINE G == {k \in 0 .. L : \E w : Loop(x, n, k, w)}
  <1>1. 0 \in G
    <2> DEFINE w == [i \in 0 .. 0 |-> x]
    <2>1. Loop(x, n, 0, w)
      BY DEF Loop
    <2> HIDE DEF w
    <2> QED
      BY <2>1
  <1>2. ASSUME NEW k \in 1 .. L, k - 1 \in G PROVE k \in G
    <2>1. PICK v : Loop(x, n, k - 1, v)
      BY <1>2
    <2>2. v = [i \in 0 .. k - 1 |-> IF i = 0 THEN x ELSE WithTool(v[i - 1], n, i)]
      BY <2>1 DEF Loop
    <2> DEFINE w == [i \in 0 .. k |-> IF i < k THEN v[i] ELSE WithTool(v[k - 1], n, k)]
    <2>3. \A i \in 0 .. k : w[i] = IF i = 0 THEN x ELSE WithTool(w[i - 1], n, i)
      <3>1. ASSUME NEW i \in 0 .. k
            PROVE  w[i] = IF i = 0 THEN x ELSE WithTool(w[i - 1], n, i)
        <4>1. CASE i = 0
          <5>1. 0 \in 0 .. k - 1 /\ 0 \in 0 .. k /\ 0 < k
            OBVIOUS
          <5>2. v[0] = x
            BY <2>2, <5>1
          <5> QED
            BY <4>1, <5>1, <5>2
        <4>2. CASE i # 0 /\ i < k
          <5>1. i \in 0 .. k - 1 /\ i - 1 \in 0 .. k /\ i - 1 < k
            BY <4>2
          <5>2. v[i] = WithTool(v[i - 1], n, i)
            BY <2>2, <4>2, <5>1
          <5>3. w[i] = v[i] /\ w[i - 1] = v[i - 1]
            BY <4>2, <5>1
          <5> HIDE DEF w
          <5> QED
            BY <4>2, <5>2, <5>3
        <4>3. CASE i = k
          <5>1. k - 1 \in 0 .. k /\ k - 1 < k /\ k # 0
            OBVIOUS
          <5>2. w[k] = WithTool(v[k - 1], n, k) /\ w[k - 1] = v[k - 1]
            BY <5>1
          <5> HIDE DEF w
          <5> QED
            BY <4>3, <5>1, <5>2
        <4> QED
          BY <4>1, <4>2, <4>3
      <3> QED
        BY <3>1
    <2>4. w = [i \in 0 .. k |-> w[i]]
      OBVIOUS
    <2> HIDE DEF w
    <2>5. Loop(x, n, k, w)
      BY <2>3, <2>4 DEF Loop
    <2>6. k \in 0 .. L
      OBVIOUS
    <2> QED
      BY <2>5, <2>6
  <1>3. L \in G
    <2> HIDE DEF G
    <2> QED
      BY <1>1, <1>2, UpTo
  <1> QED
    BY <1>3

LEMMA ProcessedUnfolds ==
  ASSUME NEW e, NEW n, Len(script[n].tools) \in Nat
  PROVE  LET L == Len(script[n].tools)
         IN  \E w : /\ Loop(WithText(Started([enc |-> e, ev |-> <<>>]), n), n, L, w)
                    /\ Processed(e, n) = WithUsage(IF script[n].finish
                                                   THEN [w[L] EXCEPT !.enc.stop = n]
                                                   ELSE w[L], n)
  <1> DEFINE L == Len(script[n].tools)
             x == WithText(Started([enc |-> e, ev |-> <<>>]), n)
             w == CHOOSE w : w = [i \in 0 .. L |-> IF i = 0 THEN x ELSE WithTool(w[i - 1], n, i)]
  <1>1. Loop(x, n, L, w)
    <2>1. \E v : v = [i \in 0 .. L |-> IF i = 0 THEN x ELSE WithTool(v[i - 1], n, i)]
      <3>1. L \in Nat
        OBVIOUS
      <3> HIDE DEF L, x, w
      <3>2. PICK v : Loop(x, n, L, v)
        BY <3>1, LoopEnds
      <3> QED
        BY <3>2 DEF Loop
    <2> HIDE DEF L, x
    <2> QED
      BY <2>1 DEF Loop
  <1>2. Processed(e, n) = WithUsage(IF script[n].finish THEN [w[L] EXCEPT !.enc.stop = n]
                                                        ELSE w[L], n)
    BY DEF Processed
  <1> HIDE DEF w
  <1> QED
    BY <1>1, <1>2

\* The fragments of a chunk, as far as its k-th tool call.
FragmentsTo(n, k) ==
    TextOf(n) \cup {<<n, i>> : i \in {j \in 1 .. k : script[n].tools[j][2]}}

\* The loop puts the fragments of a chunk into the message.
LEMMA LoopSays ==
  ASSUME said \in Seq(EventTypes), ScriptTypes, NEW x, NEW F, Orderly(x, F),
         NEW n \in DOMAIN script, script[n] \in Chunks, \A f \in F : f[1] < n,
         NEW w, Loop(WithText(x, n), n, Len(script[n].tools), w)
  PROVE  LET y == w[Len(script[n].tools)]
         IN  /\ Orderly(y, F \cup Fragments(n)) /\ SameRest(x.enc, y.enc)
             /\ Faithful(x) /\ x.enc.started /\ ~x.enc.final => Faithful(y)
  <1> DEFINE L == Len(script[n].tools)
             legal == Faithful(x) /\ x.enc.started /\ ~x.enc.final
             Holds(k) == /\ Orderly(w[k], F \cup FragmentsTo(n, k)) /\ SameRest(x.enc, w[k].enc)
                         /\ legal => Faithful(w[k])
             G == {k \in 0 .. L : Holds(k)}
  <1>1. /\ L \in Nat /\ n \in Nat /\ DOMAIN script[n].tools = 1 .. L
        /\ \A i \in 1 .. L : script[n].tools[i][2] \in BOOLEAN
    BY ChunkIs
  <1>2. \A i \in 0 .. L : w[i] = IF i = 0 THEN WithText(x, n) ELSE WithTool(w[i - 1], n, i)
    BY DEF Loop
  <1> HIDE DEF L
  <1>3. 0 \in G
    <2>1. w[0] = WithText(x, n)
      BY <1>1, <1>2
    <2>2. FragmentsTo(n, 0) = TextOf(n)
      <3>1. 1 .. 0 = {}
        OBVIOUS
      <3> QED
        BY <3>1 DEF FragmentsTo
    <2> HIDE DEF legal
    <2>3. LET z == WithText(x, n)
          IN  /\ Orderly(z, F \cup TextOf(n)) /\ SameRest(x.enc, z.enc)
              /\ legal => Faithful(z)
      BY WithTextIs DEF legal
    <2>4. Holds(0)
      BY <2>1, <2>2, <2>3
    <2> QED
      BY <1>1, <2>4
  <1>4. ASSUME NEW k \in 1 .. L, k - 1 \in G PROVE k \in G
    <2>1. Holds(k - 1) /\ k \in 0 .. L /\ k # 0 /\ k \in DOMAIN script[n].tools /\ k \in Nat
      BY <1>1, <1>4
    <2>2. w[k] = WithTool(w[k - 1], n, k)
      BY <1>2, <2>1
    <2>3. FragmentsTo(n, k) = FragmentsTo(n, k - 1) \cup CallOf(n, k)
      <3>1. 1 .. k = (1 .. k - 1) \cup {k}
        BY <2>1
      <3>2. {j \in 1 .. k : script[n].tools[j][2]} =
            {j \in 1 .. k - 1 : script[n].tools[j][2]}
               \cup (IF script[n].tools[k][2] THEN {k} ELSE {})
        BY <3>1
      <3> HIDE DEF Holds
      <3> QED
        BY <3>2 DEF FragmentsTo, CallOf
    <2>4. \A f \in F \cup FragmentsTo(n, k - 1) : Precedes(f, <<n, k>>)
      <3>1. ASSUME NEW f \in F PROVE Precedes(f, <<n, k>>)
        BY DEF Precedes
      <3>2. ASSUME NEW f \in FragmentsTo(n, k - 1) PROVE Precedes(f, <<n, k>>)
        <4>1. f[1] = n /\ (f[2] = 0 \/ f[2] \in 1 .. k - 1)
          BY DEF FragmentsTo, TextOf
        <4> QED
          BY <2>1, <4>1 DEF Precedes
      <3> QED
        BY <3>1, <3>2
    <2> DEFINE H == F \cup FragmentsTo(n, k - 1)
               v == w[k - 1]
    <2>5. Orderly(v, H) /\ SameRest(x.enc, v.enc) /\ (legal => Faithful(v))
      BY <2>1
    <2>6. legal => v.enc.started /\ ~v.enc.final
      BY <2>5 DEF SameRest
    <2> HIDE DEF H, v, legal, Holds
    <2>7. /\ Orderly(WithTool(v, n, k), H \cup CallOf(n, k))
          /\ SameRest(v.enc, WithTool(v, n, k).enc)
          /\ Faithful(v) /\ v.enc.started /\ ~v.enc.final => Faithful(WithTool(v, n, k))
      BY <2>1, <2>4, <2>5, WithToolIs DEF H
    <2>8. H \cup CallOf(n, k) = F \cup FragmentsTo(n, k) /\ w[k] = WithTool(v, n, k)
      BY <2>2, <2>3 DEF H, v
    <2>9. SameRest(x.enc, WithTool(v, n, k).enc)
      BY <2>5, <2>7 DEF SameRest
    <2>10. Holds(k)
      BY <2>5, <2>6, <2>7, <2>8, <2>9 DEF Holds
    <2> QED
      BY <2>1, <2>10
  <1>5. L \in G
    <2> HIDE DEF G
    <2>1. 0 .. L \subseteq G
      BY <1>1, <1>3, <1>4, UpTo
    <2> QED
      BY <1>1, <2>1
  <1>6. FragmentsTo(n, L) = Fragments(n)
    BY <1>1 DEF FragmentsTo, Fragments, TextOf
  <1> QED
    BY <1>5, <1>6 DEF L

\* A chunk is encoded.
LEMMA ProcessedIs ==
  ASSUME said \in Seq(EventTypes), ScriptTypes, NEW c \in EncTypes, NEW F, Tidy(c, said, F),
         NEW n \in DOMAIN script, script[n] \in Chunks, \A f \in F : f[1] < n
  PROVE  LET y == Processed(c, n)
         IN  /\ Orderly(y, F \cup Fragments(n)) /\ y.enc.started
             /\ y.enc.stop = IF script[n].finish THEN n ELSE c.stop
             /\ y.enc.usage = IF script[n].usage = "full" THEN n ELSE c.usage
             /\ y.enc.final <=> c.final \/ script[n].usage = "full"
             /\ Mirrors(c, said) /\ Ready(c) /\ ~c.final =>
                   Faithful(y) /\ (y.enc.final => Told(y.enc, Hist(y)))
  <1> DEFINE L == Len(script[n].tools)
             x == [enc |-> c, ev |-> <<>>]
             s == Started(x)
             H == F \cup Fragments(n)
             legal == Mirrors(c, said) /\ Ready(c) /\ ~c.final
  <1>1. L \in Nat /\ n \in Nat /\ script[n].finish \in BOOLEAN
    BY ChunkIs
  <1>2. PICK w : /\ Loop(WithText(s, n), n, L, w)
                 /\ Processed(c, n) = WithUsage(IF script[n].finish
                                                THEN [w[L] EXCEPT !.enc.stop = n]
                                                ELSE w[L], n)
    BY <1>1, ProcessedUnfolds
  <1>3. x \in PairTypes /\ Hist(x) = said /\ x.enc = c
    <2>1. said \o <<>> = said /\ <<>> \in Seq(EventTypes)
      BY ConcatEmptySeq
    <2> QED
      BY <2>1 DEF PairTypes, Hist
  <1>4. Orderly(x, F) /\ (Faithful(x) <=> Mirrors(c, said) /\ Ready(c))
    BY <1>3 DEF Orderly, Faithful
  <1> HIDE DEF x
  <1>5. /\ Orderly(s, F) /\ (Faithful(x) => Faithful(s)) /\ s.enc.started
        /\ s.enc = [c EXCEPT !.started = TRUE]
    BY <1>3, <1>4, StartedIs
  <1>6. s.enc.stop = c.stop /\ s.enc.usage = c.usage /\ s.enc.final = c.final
    BY <1>5 DEF EncTypes
  <1> HIDE DEF s
  <1> DEFINE t == w[L]
  <1>7. /\ Orderly(t, H) /\ SameRest(s.enc, t.enc)
        /\ Faithful(s) /\ s.enc.started /\ ~s.enc.final => Faithful(t)
    BY <1>2, <1>5, LoopSays
  <1> DEFINE u == IF script[n].finish THEN [t EXCEPT !.enc.stop = n] ELSE t
  <1> HIDE DEF t, H, L
  <1>8. /\ Orderly(u, H) /\ (Faithful(t) => Faithful(u)) /\ u.enc.started = t.enc.started
        /\ u.enc.stop = (IF script[n].finish THEN n ELSE t.enc.stop)
        /\ u.enc.final = t.enc.final /\ u.enc.usage = t.enc.usage
    <2> DEFINE v == [t EXCEPT !.enc.stop = n]
    <2>1. /\ Orderly(v, H) /\ (Faithful(t) => Faithful(v)) /\ v.enc.stop = n
          /\ v.enc.started = t.enc.started /\ v.enc.final = t.enc.final
          /\ v.enc.usage = t.enc.usage
      <3> HIDE DEF v
      <3>1. Orderly(t, H) /\ n \in Nat
        BY <1>1, <1>7
      <3> QED
        BY <3>1, NotedIs DEF v
    <2>2. u = IF script[n].finish THEN v ELSE t
      OBVIOUS
    <2> HIDE DEF u, v
    <2> QED
      BY <1>1, <1>7, <2>1, <2>2
  <1>9. /\ u.enc.started /\ u.enc.stop = (IF script[n].finish THEN n ELSE c.stop)
        /\ u.enc.final = c.final /\ u.enc.usage = c.usage /\ (legal => Faithful(u))
    BY <1>4, <1>5, <1>6, <1>7, <1>8 DEF SameRest
  <1>10. Processed(c, n) = WithUsage(u, n)
    BY <1>2 DEF t, L
  <1> HIDE DEF u
  <1>11. CASE script[n].usage # "full"
    <2>1. WithUsage(u, n) = u
      BY <1>11 DEF WithUsage
    <2> QED
      BY <1>8, <1>9, <1>10, <1>11, <2>1 DEF H
  <1>12. CASE script[n].usage = "full"
    <2> DEFINE v == [u EXCEPT !.enc.usage = n]
    <2>1. WithUsage(u, n) = Finalized(v)
      BY <1>12 DEF WithUsage
    <2>2. /\ Orderly(v, H) /\ (Faithful(u) => Faithful(v)) /\ v.enc.usage = n
          /\ v.enc.started = u.enc.started /\ v.enc.final = u.enc.final
          /\ v.enc.stop = u.enc.stop
      <3> HIDE DEF v
      <3>1. Orderly(u, H) /\ n \in Nat
        BY <1>1, <1>8
      <3> QED
        BY <3>1, NotedIs DEF v
    <2> HIDE DEF v
    <2> DEFINE y == Finalized(v)
    <2>3. /\ Orderly(y, H) /\ y.enc.final /\ y.enc.started = v.enc.started
          /\ y.enc.stop = v.enc.stop /\ y.enc.usage = v.enc.usage
          /\ Faithful(v) /\ v.enc.started => Faithful(y)
          /\ ~v.enc.final \/ Told(v.enc, Hist(v)) => Told(y.enc, Hist(y))
      BY <2>2, FinalizedIs
    <2> HIDE DEF y
    <2>4. Processed(c, n) = y
      BY <1>10, <2>1 DEF y
    <2>5. legal => Faithful(y) /\ Told(y.enc, Hist(y))
      BY <1>9, <2>2, <2>3
    <2> QED
      BY <1>9, <1>12, <2>2, <2>3, <2>4, <2>5 DEF H
  <1> QED
    BY <1>11, <1>12

\* The message is finished.
LEMMA FinishIs ==
  ASSUME said \in Seq(EventTypes), NEW x, NEW F, Orderly(x, F)
  PROVE  LET y == Finish(x)
         IN  /\ Orderly(y, F) /\ y.enc.final
             /\ y.enc.stop = x.enc.stop /\ y.enc.usage = x.enc.usage
             /\ Faithful(x) => Faithful(y)
             /\ ~x.enc.final \/ (x.enc.started /\ Told(x.enc, Hist(x))) => Told(y.enc, Hist(y))
  <1> DEFINE s == Started(x)
  <1>1. x.enc \in EncTypes
    BY DEF Orderly, PairTypes
  <1>2. /\ Orderly(s, F) /\ (Faithful(x) => Faithful(s)) /\ s.enc.started
        /\ s.enc = [x.enc EXCEPT !.started = TRUE]
    BY StartedIs
  <1>3. s.enc.stop = x.enc.stop /\ s.enc.usage = x.enc.usage /\ s.enc.final = x.enc.final
    BY <1>1, <1>2 DEF EncTypes
  <1>4. x.enc.started => s = x
    BY DEF Started
  <1> HIDE DEF s
  <1> DEFINE y == Finalized(s)
  <1>5. /\ Orderly(y, F) /\ y.enc.final /\ y.enc.stop = s.enc.stop /\ y.enc.usage = s.enc.usage
        /\ Faithful(s) /\ s.enc.started => Faithful(y)
        /\ ~s.enc.final \/ Told(s.enc, Hist(s)) => Told(y.enc, Hist(y))
    BY <1>2, FinalizedIs
  <1>6. Finish(x) = y
    BY DEF Finish, s
  <1> HIDE DEF y
  <1> QED
    BY <1>2, <1>3, <1>4, <1>5, <1>6

-----------------------------------------------------------------------------
(* The response: what is true of every state, whatever the upstream sends. *)

\* The fragments in the first k bytes.
ArrivedBy(k) == UNION {Fragments(n) : n \in Heard(k)}

Grounds ==
    /\ ScriptTypes
    /\ got \in 0 .. Total /\ from \in 0 .. got
    /\ said \in Seq(EventTypes) /\ out \in Seq(EventTypes) /\ enc \in EncTypes
    /\ phase \in {"prime", "stream", "flush", "failing"} \cup Ended
    /\ record \in NoRecord .. Len(script)

Stages ==
    /\ phase \in {"prime", "stream"} => \E q \in Nat : from = Width * q
    /\ phase \in {"prime", "refused"} => said = <<>> /\ out = <<>> /\ enc = Fresh /\ from = 0
    /\ phase \in {"flush", "done"} => from = got
    /\ phase = "done" => out = <<>>

\* What was decoded is in the message, and as long as no usage ended it, all
\* that was sent was right.
Written ==
    /\ Tidy(enc, said \o out, ArrivedBy(from)) /\ Ready(enc)
    /\ phase \in {"prime", "stream"} /\ ~enc.final => Mirrors(enc, said \o out)

Sound == Grounds /\ Stages /\ Written

LEMMA FragmentsAre ==
  ASSUME ScriptTypes, NEW n \in DOMAIN script, script[n] \in Chunks
  PROVE  /\ \A f \in Fragments(n) : f \in Nat \X Nat /\ f[1] = n
         /\ ArrivedBy(0) = {}
<1>1. /\ n \in Nat /\ DOMAIN script[n].tools = 1 .. Len(script[n].tools)
      /\ Len(script[n].tools) \in Nat
  BY ChunkIs
<1>2. \A f \in Fragments(n) : f \in Nat \X Nat /\ f[1] = n
  <2> SUFFICES ASSUME NEW f \in Fragments(n) PROVE f \in Nat \X Nat /\ f[1] = n
    OBVIOUS
  <2>1. f = <<n, 0>> \/ \E i \in 1 .. Len(script[n].tools) : f = <<n, i>>
    BY <1>1 DEF Fragments
  <2> QED
    BY <1>1, <2>1
<1>3. Heard(0) = {}
  BY ScriptIs DEF Heard, Width, Legible
<1> QED
  BY <1>2, <1>3 DEF ArrivedBy

\* The chunk in hand is put into the message.
LEMMA ChunkIsWritten ==
  ASSUME Grounds, Written, out = <<>>, NEW q \in Nat, from = Width * q,
         NEW k \in from .. from + 3, k <= Total
  PROVE  LET n == Parsed(from + 1, k)
             y == Processed(enc, n)
         IN  /\ said \o out = said
             /\ n = 0 => Heard(k) = Heard(from)
             /\ n # 0 => /\ n \in Nat \ {0} /\ n \in DOMAIN script /\ script[n] \in Chunks
                         /\ Heard(k) = Heard(from) \cup {n} /\ \A m \in Heard(from) : m < n
                         /\ Orderly(y, ArrivedBy(k)) /\ y.enc.started
                         /\ y.enc.stop = IF script[n].finish THEN n ELSE enc.stop
                         /\ y.enc.usage = IF script[n].usage = "full" THEN n ELSE enc.usage
                         /\ y.enc.final <=> enc.final \/ script[n].usage = "full"
                         /\ Mirrors(enc, said) /\ ~enc.final =>
                               Faithful(y) /\ (y.enc.final => Told(y.enc, Hist(y)))
<1> DEFINE n == Parsed(from + 1, k)
           F == ArrivedBy(from)
<1>1. said \o out = said
  BY ConcatEmptySeq DEF Grounds
<1>2. \/ n = 0 /\ Heard(k) = Heard(from)
      \/ /\ n \in DOMAIN script /\ script[n] \in Chunks /\ Heard(k) = Heard(from) \cup {n}
         /\ \A m \in Heard(from) : m < n
  BY ParsedIsNext DEF Grounds
<1>3. DOMAIN script = 1 .. Len(script) /\ Len(script) \in Nat
  BY ScriptIs DEF Grounds
<1> HIDE DEF n
<1>4. CASE n = 0
  BY <1>1, <1>2, <1>3, <1>4 DEF n
<1>5. CASE n # 0
  <2>1. /\ n \in Nat \ {0} /\ n \in DOMAIN script /\ script[n] \in Chunks
        /\ Heard(k) = Heard(from) \cup {n} /\ \A m \in Heard(from) : m < n
    BY <1>2, <1>3, <1>5
  <2>2. \A f \in F : f[1] < n
    <3> SUFFICES ASSUME NEW f \in F PROVE f[1] < n
      OBVIOUS
    <3>1. PICK m \in Heard(from) : f \in Fragments(m)
      BY DEF ArrivedBy
    <3>2. m \in DOMAIN script /\ script[m] \in Chunks
      BY <3>1, ScriptIs DEF Heard, Grounds, Legible
    <3>3. f[1] = m
      BY <3>1, <3>2, FragmentsAre DEF Grounds
    <3> QED
      BY <2>1, <3>1, <3>3
  <2>3. F \cup Fragments(n) = ArrivedBy(k)
    BY <2>1 DEF ArrivedBy
  <2>4. Tidy(enc, said, F) /\ Ready(enc) /\ enc \in EncTypes /\ said \in Seq(EventTypes)
    BY <1>1 DEF Written, Grounds
  <2> HIDE DEF F
  <2> DEFINE y == Processed(enc, n)
  <2>5. /\ Orderly(y, F \cup Fragments(n)) /\ y.enc.started
        /\ y.enc.stop = IF script[n].finish THEN n ELSE enc.stop
        /\ y.enc.usage = IF script[n].usage = "full" THEN n ELSE enc.usage
        /\ y.enc.final <=> enc.final \/ script[n].usage = "full"
        /\ Mirrors(enc, said) /\ Ready(enc) /\ ~enc.final =>
              Faithful(y) /\ (y.enc.final => Told(y.enc, Hist(y)))
    BY <2>1, <2>2, <2>4, ProcessedIs DEF Grounds
  <2> HIDE DEF y
  <2> QED
    BY <1>1, <1>5, <2>1, <2>3, <2>4, <2>5 DEF n, y
<1> QED
  BY <1>4, <1>5

LEMMA FreshIs ==
  /\ Fresh \in EncTypes /\ Tidy(Fresh, <<>>, {}) /\ Ready(Fresh) /\ Mirrors(Fresh, <<>>)
  /\ ~Fresh.started /\ ~Fresh.final /\ Fresh.usage = 0 /\ Fresh.stop = 0
<1>1. /\ Fresh \in EncTypes /\ Fresh.tool = <<>> /\ Fresh.text = NoBlock /\ Fresh.next = 0
      /\ Fresh.open = {} /\ ~Fresh.started /\ ~Fresh.final /\ Fresh.usage = 0 /\ Fresh.stop = 0
  BY DEF Fresh, EncTypes, NoBlock, NoUsage
<1>2. ToSet(Fresh.tool) = {}
  BY <1>1 DEF ToSet
<1>3. <<>> \in Seq(EventTypes) /\ DeltasIn(<<>>) = {} /\ \A kind : Of(<<>>, kind) = {}
  BY DEF DeltasIn, Of
<1>4. \A kind : ~HasIn(<<>>, kind)
  BY DEF HasIn
<1>5. Legal(<<>>)
  BY DEF Legal
<1>6. 0 .. 0 - 1 = {}
  OBVIOUS
<1>7. Pure(Fresh, <<>>) /\ Sorted(<<>>, {})
  BY <1>1, <1>2, <1>3, <1>6 DEF Pure, Sorted, NoBlock
<1>8. Mirrors(Fresh, <<>>)
  BY <1>1, <1>3, <1>4, <1>5, <1>6 DEF Mirrors
<1> QED
  BY <1>1, <1>2, <1>3, <1>7, <1>8 DEF Tidy, Ready

LEMMA SoundInit == Init => Sound
<1> SUFFICES ASSUME Init PROVE Sound
  OBVIOUS
<1>1. /\ got = 0 /\ from = 0 /\ phase = "prime" /\ enc = Fresh
      /\ out = <<>> /\ said = <<>> /\ record = NoRecord
  BY DEF Init
<1>2. ScriptTypes
  <2>1. PICK n \in 0 .. MaxFrames : script \in [1 .. n -> Chunks \cup {Noise}]
    BY DEF Init
  <2>2. n \in Nat
    BY <2>1, StreamAssumption
  <2> QED
    BY <2>1, <2>2 DEF ScriptTypes
<1>3. Total \in Nat /\ Len(script) \in Nat
  BY <1>2, ScriptIs
<1>4. <<>> \in Seq(EventTypes) /\ said \o out = <<>>
  BY <1>1
<1>5. ArrivedBy(from) = {}
  <2>1. Heard(0) = {}
    BY <1>2, ScriptIs DEF Heard, Width, Legible
  <2> QED
    BY <1>1, <2>1 DEF ArrivedBy
<1>6. Grounds
  BY <1>1, <1>2, <1>3, <1>4, FreshIs DEF Grounds, NoRecord
<1>7. Stages
  <2>1. 0 \in Nat /\ from = Width * 0
    BY <1>1 DEF Width
  <2> QED
    BY <1>1, <2>1 DEF Stages
<1>8. Written
  BY <1>1, <1>4, <1>5, FreshIs DEF Written
<1> QED
  BY <1>6, <1>7, <1>8 DEF Sound

LEMMA MoveHead ==
  ASSUME NEW p \in Seq(EventTypes), NEW o \in Seq(EventTypes), o # <<>>
  PROVE  /\ Append(p, Head(o)) \o Tail(o) = p \o o
         /\ Append(p, Head(o)) \in Seq(EventTypes) /\ Tail(o) \in Seq(EventTypes)
<1>1. Head(o) \in EventTypes /\ Tail(o) \in Seq(EventTypes) /\ o = <<Head(o)>> \o Tail(o)
  BY HeadTailProperties
<1>2. Append(p, Head(o)) = p \o <<Head(o)>> /\ Append(p, Head(o)) \in Seq(EventTypes)
  BY <1>1, AppendIsConcat, AppendProperties
<1>3. <<Head(o)>> \in Seq(EventTypes)
  BY <1>1
<1>4. (p \o <<Head(o)>>) \o Tail(o) = p \o (<<Head(o)>> \o Tail(o))
  BY <1>1, <1>3, ConcatAssociative
<1> QED
  BY <1>1, <1>2, <1>4

\* What is recorded is a chunk of the stream.
LEMMA ExtractedType ==
  ASSUME Grounds
  PROVE  Extracted \in 0 .. Len(script)
<1> DEFINE R == Reported
           Late == {k \in 0 .. Len(script) : Len(script) - k \in R}
           m == CHOOSE n \in R : \A k \in R : k <= n
<1>1. Len(script) \in Nat /\ R \subseteq 1 .. Len(script)
  BY ScriptIs DEF Grounds, Reported, Whole
<1> HIDE DEF R
<1>2. CASE R = {}
  BY <1>1, <1>2 DEF Extracted, NoUsage, R
<1>3. CASE R # {}
  <2>1. PICK r \in R : TRUE
    BY <1>3
  <2>2. Len(script) - (Len(script) - r) = r /\ Len(script) - r \in 0 .. Len(script)
    BY <1>1, <2>1
  <2>3. Late # {} /\ Late \subseteq Nat
    BY <1>1, <2>1, <2>2
  <2>4. PICK l \in Late : \A k \in Late : ~(k < l)
    <3>1. IsWellFoundedOn(OpToRel(<, Nat), Nat)
      BY NatLessThanWellFounded
    <3>2. PICK l \in Late : \A k \in Late : ~(<<k, l>> \in OpToRel(<, Nat))
      BY <2>3, <3>1, WFMin
    <3> QED
      BY <2>3, <3>2 DEF OpToRel
  <2>5. Len(script) - l \in R
    BY <2>4
  <2>6. \A k \in R : k <= Len(script) - l
    <3> SUFFICES ASSUME NEW k \in R PROVE k <= Len(script) - l
      OBVIOUS
    <3>1. Len(script) - k \in Late
      BY <1>1
    <3>2. l \in Nat /\ k \in Nat /\ ~(Len(script) - k < l)
      BY <1>1, <2>3, <2>4, <3>1
    <3> QED
      BY <1>1, <3>2
  <2>7. m \in R
    <3>1. \E n \in R : \A k \in R : k <= n
      BY <2>5, <2>6
    <3> QED
      BY <3>1
  <2>8. Extracted = NoUsage \/ Extracted = m
    BY DEF Extracted, R
  <2> HIDE DEF m
  <2> QED
    BY <1>1, <2>7, <2>8 DEF NoUsage
<1> QED
  BY <1>2, <1>3

\* What the client was and will be sent.
Hand == said \o out

LEMMA TidyCarries ==
  ASSUME script' = script, NEW c, NEW h, NEW F, Tidy(c, h, F),
         enc' = c, (said \o out)' = h, ArrivedBy(from)' = F
  PROVE  Tidy(enc, said \o out, ArrivedBy(from))'
<1>1. \A p : Source(p)' = Source(p)
  BY DEF Source, TextSource
<1> QED
  BY <1>1 DEF Tidy, Pure, InBlock, Sorted, DeltasIn, EncTypes, EventTypes, TextSource, NoBlock

LEMMA DecodeKeeps ==
  ASSUME Sound, Decode
  PROVE  /\ Sound' /\ from' = from + Width /\ said' = said /\ script' = script
         /\ LET n == Parsed(from + 1, from + 2)
            IN  /\ n = 0 => Heard(from)' = Heard(from) /\ enc' = enc /\ Hand' = Hand
                /\ n # 0 => /\ n \in DOMAIN script /\ script[n] \in Chunks
                            /\ Heard(from)' = Heard(from) \cup {n} /\ \A m \in Heard(from) : m < n
                            /\ enc'.stop = IF script[n].finish THEN n ELSE enc.stop
                            /\ enc'.usage = IF script[n].usage = "full" THEN n ELSE enc.usage
                            /\ enc'.final <=> enc.final \/ script[n].usage = "full"
                            /\ ~enc.final => /\ Mirrors(enc', Hand')
                                             /\ enc'.final => Told(enc', Hand')
<1>1. /\ phase = "stream" /\ out = <<>> /\ Ends # {} /\ from' = FrameEnd
      /\ script' = script /\ got' = got /\ phase' = phase /\ said' = said /\ record' = record
  BY DEF Decode, Idle, Rest
<1>2. PICK q \in Nat : from = Width * q
  BY <1>1 DEF Sound, Stages
<1>3. ScriptTypes /\ Total \in Nat /\ got \in Nat /\ from \in Nat /\ from <= got /\ got <= Total
  BY ScriptIs DEF Sound, Grounds
<1>4. FrameEnd = from + Width /\ from + Width <= got
  BY <1>1, <1>2, <1>3, FrameInHand
<1>5. from + 2 \in from .. from + 3 /\ from + 2 <= Total /\ FrameEnd - 2 = from + 2
  BY <1>3, <1>4 DEF Width
<1> DEFINE n == Parsed(from + 1, from + 2)
           y == Processed(enc, n)
<1>6. Heard(from + Width) = Heard(from + 2)
  <2>1. \A m \in DOMAIN script : Width * (m - 1) + 2 <= from + Width
                                    <=> Width * (m - 1) + 2 <= from + 2
    BY <1>2, <1>3, ScriptIs DEF Width
  <2> QED
    BY <2>1 DEF Heard, Legible
<1>7. /\ said \o out = said
      /\ n = 0 => Heard(from + 2) = Heard(from)
      /\ n # 0 => /\ n \in Nat \ {0} /\ n \in DOMAIN script /\ script[n] \in Chunks
                  /\ Heard(from + 2) = Heard(from) \cup {n} /\ \A m \in Heard(from) : m < n
                  /\ Orderly(y, ArrivedBy(from + 2)) /\ y.enc.started
                  /\ y.enc.stop = IF script[n].finish THEN n ELSE enc.stop
                  /\ y.enc.usage = IF script[n].usage = "full" THEN n ELSE enc.usage
                  /\ y.enc.final <=> enc.final \/ script[n].usage = "full"
                  /\ Mirrors(enc, said) /\ ~enc.final =>
                        Faithful(y) /\ (y.enc.final => Told(y.enc, Hist(y)))
  BY <1>1, <1>2, <1>5, ChunkIsWritten DEF Sound
<1>8. Heard(from)' = Heard(from + 2)
  BY <1>1, <1>4, <1>6 DEF Heard, Legible
<1>9. ArrivedBy(from)' = ArrivedBy(from + 2)
  BY <1>1, <1>8 DEF ArrivedBy, Fragments
<1>10. \/ n = 0 /\ enc' = enc /\ out' = out
       \/ n # 0 /\ enc' = y.enc /\ out' = y.ev
  BY <1>5 DEF Decode
<1> HIDE DEF n, y
<1>11. ~enc.final => Mirrors(enc, said)
  BY <1>1, <1>7 DEF Sound, Written
<1>12. Grounds' /\ Written'
  <2>1. CASE n = 0
    <3>1. Grounds'
      BY <1>1, <1>3, <1>4, <1>10, <2>1
         DEF Sound, Grounds, ScriptTypes, Total, Width
    <3>2. /\ (said \o out)' = said \o out /\ ArrivedBy(from)' = ArrivedBy(from)
          /\ Tidy(enc, said \o out, ArrivedBy(from))
      BY <1>1, <1>7, <1>9, <1>10, <2>1 DEF Sound, Written, ArrivedBy
    <3>3. Tidy(enc, said \o out, ArrivedBy(from))'
      BY <1>1, <1>10, <2>1, <3>2, TidyCarries
    <3>4. Ready(enc)' /\ (~enc.final => Mirrors(enc, said \o out))'
      BY <1>1, <1>10, <2>1, <3>2 DEF Sound, Written
    <3>5. Written'
      BY <3>3, <3>4 DEF Written
    <3> QED
      BY <3>1, <3>5
  <2>2. CASE n # 0
    <3>1. /\ y \in PairTypes /\ Tidy(y.enc, Hist(y), ArrivedBy(from + 2))
          /\ enc' = y.enc /\ out' = y.ev
      BY <1>7, <1>10, <2>2 DEF Orderly
    <3>2. (said \o out)' = Hist(y)
      BY <1>1, <3>1 DEF Hist
    <3>3. Grounds'
      <4>1. enc' \in EncTypes /\ out' \in Seq(EventTypes)
        BY <3>1 DEF PairTypes
      <4>2. Total' = Total
        BY <1>1 DEF Total
      <4>3. from' \in 0 .. got'
        BY <1>1, <1>3, <1>4 DEF Width
      <4> QED
        BY <1>1, <4>1, <4>2, <4>3 DEF Sound, Grounds, ScriptTypes
    <3>4. Tidy(enc, said \o out, ArrivedBy(from))'
      BY <1>1, <1>9, <3>1, <3>2, TidyCarries
    <3>5. ~enc'.final => Mirrors(enc', (said \o out)') /\ Ready(enc')
      BY <1>7, <1>11, <2>2, <3>1, <3>2 DEF Faithful
    <3>6. Ready(enc')
      BY <3>5 DEF Ready
    <3>7. Written'
      BY <3>4, <3>5, <3>6 DEF Written
    <3> QED
      BY <3>3, <3>7
  <2> QED
    BY <2>1, <2>2
<1>13. Stages'
  <2>1. q + 1 \in Nat /\ from' = Width * (q + 1)
    BY <1>1, <1>2, <1>4 DEF Width
  <2> QED
    BY <1>1, <2>1 DEF Stages
<1>14. n # 0 => Hand' = Hist(y)
  BY <1>1, <1>10 DEF Hand, Hist
<1>15. n = 0 => Hand' = Hand
  BY <1>1, <1>10 DEF Hand
<1> QED
  BY <1>1, <1>4, <1>7, <1>8, <1>10, <1>11, <1>12, <1>13, <1>14, <1>15 DEF Sound, n, Faithful

LEMMA EndOfStreamKeeps ==
  ASSUME Sound, EndOfStream
  PROVE  /\ Sound' /\ said' = said /\ script' = script /\ enc'.final
         /\ LET n == Parsed(from + 1, got)
            IN  /\ n = 0 => /\ Heard(from)' = Heard(from)
                            /\ enc'.stop = enc.stop /\ enc'.usage = enc.usage
                            /\ Mirrors(enc, Hand) /\ (enc.final => enc.started /\ Told(enc, Hand)) =>
                                  Mirrors(enc', Hand') /\ Told(enc', Hand')
                /\ n # 0 => /\ n \in DOMAIN script /\ script[n] \in Chunks
                            /\ Heard(from)' = Heard(from) \cup {n} /\ \A m \in Heard(from) : m < n
                            /\ enc'.stop = IF script[n].finish THEN n ELSE enc.stop
                            /\ enc'.usage = IF script[n].usage = "full" THEN n ELSE enc.usage
                            /\ ~enc.final => Mirrors(enc', Hand') /\ Told(enc', Hand')
<1>1. /\ phase = "stream" /\ out = <<>> /\ Ends = {} /\ from' = got /\ phase' = "flush"
      /\ script' = script /\ got' = got /\ said' = said /\ record' = record
  BY DEF EndOfStream, Idle
<1>2. PICK q \in Nat : from = Width * q
  BY <1>1 DEF Sound, Stages
<1>3. ScriptTypes /\ Total \in Nat /\ got \in Nat /\ from \in Nat /\ from <= got /\ got <= Total
  BY ScriptIs DEF Sound, Grounds
<1>4. got < from + Width
  BY <1>1, <1>2, <1>3, FrameInHand
<1>5. got \in from .. from + 3
  BY <1>3, <1>4 DEF Width
<1> DEFINE n == Parsed(from + 1, got)
           y == Processed(enc, n)
           x == IF n = 0 THEN [enc |-> enc, ev |-> <<>>] ELSE y
           z == Finish(x)
<1>6. enc' = z.enc /\ out' = z.ev
  BY DEF EndOfStream
<1>7. /\ said \o out = said
      /\ n = 0 => Heard(got) = Heard(from)
      /\ n # 0 => /\ n \in Nat \ {0} /\ n \in DOMAIN script /\ script[n] \in Chunks
                  /\ Heard(got) = Heard(from) \cup {n} /\ \A m \in Heard(from) : m < n
                  /\ Orderly(y, ArrivedBy(got)) /\ y.enc.started
                  /\ y.enc.stop = IF script[n].finish THEN n ELSE enc.stop
                  /\ y.enc.usage = IF script[n].usage = "full" THEN n ELSE enc.usage
                  /\ y.enc.final <=> enc.final \/ script[n].usage = "full"
                  /\ Mirrors(enc, said) /\ ~enc.final =>
                        Faithful(y) /\ (y.enc.final => Told(y.enc, Hist(y)))
  BY <1>1, <1>2, <1>3, <1>5, ChunkIsWritten DEF Sound
<1>8. Heard(from)' = Heard(got) /\ ArrivedBy(from)' = ArrivedBy(got)
  BY <1>1 DEF Heard, ArrivedBy, Fragments, Legible
<1>9. n = 0 => ArrivedBy(got) = ArrivedBy(from)
  BY <1>7 DEF ArrivedBy
<1>10. n = 0 => x.enc = enc /\ Hist(x) = said /\ x \in PairTypes
  BY <1>1, <1>7 DEF Hist, PairTypes, Sound, Grounds
<1>11. n # 0 => x = y
  OBVIOUS
<1>12. ~enc.final => Mirrors(enc, said)
  BY <1>1, <1>7 DEF Sound, Written
<1> HIDE DEF n, y, x
<1>13. Orderly(x, ArrivedBy(got))
  <2>1. n = 0 => Tidy(x.enc, Hist(x), ArrivedBy(got))
    BY <1>7, <1>9, <1>10 DEF Sound, Written
  <2> QED
    BY <1>7, <1>10, <1>11, <2>1 DEF Orderly
<1>14. /\ Orderly(z, ArrivedBy(got)) /\ z.enc.final
       /\ z.enc.stop = x.enc.stop /\ z.enc.usage = x.enc.usage
       /\ Faithful(x) => Faithful(z)
       /\ ~x.enc.final \/ (x.enc.started /\ Told(x.enc, Hist(x))) => Told(z.enc, Hist(z))
  BY <1>13, FinishIs DEF Sound, Grounds
<1> HIDE DEF z
<1>15. (said \o out)' = Hist(z) /\ Hand' = Hist(z) /\ Hand = said
  BY <1>1, <1>6, <1>7 DEF Hist, Hand
<1>16. Sound'
  <2>1. z \in PairTypes /\ Tidy(z.enc, Hist(z), ArrivedBy(got))
    BY <1>14 DEF Orderly
  <2>2. enc' \in EncTypes /\ out' \in Seq(EventTypes)
    BY <1>6, <2>1 DEF PairTypes
  <2>3. Total' = Total /\ from' \in 0 .. got'
    BY <1>1, <1>3 DEF Total
  <2>4. Grounds'
    BY <1>1, <2>2, <2>3 DEF Sound, Grounds, ScriptTypes
  <2>5. Tidy(enc, said \o out, ArrivedBy(from))'
    BY <1>1, <1>6, <1>8, <1>15, <2>1, TidyCarries
  <2>6. Ready(enc')
    BY <1>6, <1>14 DEF Ready
  <2>7. Written'
    BY <1>1, <2>5, <2>6 DEF Written
  <2>8. Stages'
    BY <1>1 DEF Stages
  <2> QED
    BY <2>4, <2>7, <2>8 DEF Sound
<1>17. CASE n = 0
  <2>1. Mirrors(enc, said) => Faithful(x)
    BY <1>10, <1>17 DEF Faithful, Sound, Written
  <2> QED
    BY <1>1, <1>6, <1>7, <1>8, <1>10, <1>14, <1>15, <1>16, <1>17, <2>1 DEF Faithful, n
<1>18. CASE n # 0
  <2>1. ~enc.final => /\ Faithful(x) /\ x.enc.started
                      /\ x.enc.final => Told(x.enc, Hist(x))
    BY <1>7, <1>11, <1>12, <1>18
  <2> QED
    BY <1>1, <1>6, <1>7, <1>8, <1>11, <1>14, <1>15, <1>16, <1>18, <2>1 DEF Faithful, n
<1> QED
  BY <1>17, <1>18

LEMMA BreaksKeeps ==
  ASSUME Sound, Breaks
  PROVE  /\ Sound' /\ enc' = enc /\ script' = script /\ from' = from
         /\ Legal(Hand) /\ ~HasIn(Hand, "error") => Legal(Hand')
<1> DEFINE e == Event("error", NoBlock, Nowhere)
<1>1. /\ phase = "stream" /\ out = <<>> /\ out' = <<e>> /\ phase' = "failing"
      /\ script' = script /\ got' = got /\ from' = from /\ enc' = enc /\ said' = said
      /\ record' = record
  BY DEF Breaks, Idle
<1>2. e \in EventTypes /\ e.kind = "error" /\ e.kind # "delta"
  BY EventIs, Names
<1>3. said \in Seq(EventTypes) /\ enc \in EncTypes /\ said \o out = said
  BY <1>1, ConcatEmptySeq DEF Sound, Grounds
<1> HIDE DEF e
<1>4. said \o <<e>> = Append(said, e) /\ <<e>> \in Seq(EventTypes)
  BY <1>2, <1>3, AppendIsConcat
<1>5. Tidy(enc, Append(said, e), ArrivedBy(from))
  <2>1. Tidy(enc, said, ArrivedBy(from))
    BY <1>3 DEF Sound, Written
  <2> QED
    BY <1>2, <1>3, <2>1, SayingKeepsTidy
<1>6. (said \o out)' = Append(said, e) /\ Hand' = Append(said, e) /\ Hand = said
  BY <1>1, <1>3, <1>4 DEF Hand
<1>7. ArrivedBy(from)' = ArrivedBy(from)
  BY <1>1 DEF ArrivedBy, Heard, Fragments, Legible
<1>8. Tidy(enc, said \o out, ArrivedBy(from))'
  BY <1>1, <1>5, <1>6, <1>7, TidyCarries
<1>9. Sound'
  <2>1. Grounds'
    BY <1>1, <1>4 DEF Sound, Grounds, ScriptTypes, Total
  <2>2. Stages'
    BY <1>1 DEF Stages
  <2>3. Written'
    BY <1>1, <1>8 DEF Sound, Written
  <2> QED
    BY <2>1, <2>2, <2>3 DEF Sound
<1>10. Legal(Hand) /\ ~HasIn(Hand, "error") => Legal(Hand')
  BY <1>2, <1>3, <1>6, AppendedIsLegal DEF Permits
<1> QED
  BY <1>1, <1>9, <1>10

\* The other steps: what was or will be sent stays as it is.
Others == Prime \/ PrimeFails \/ Read \/ Send \/ Done \/ Failed \/ Leave

LEMMA OthersKeep ==
  ASSUME Sound, Others \/ UNCHANGED vars
  PROVE  /\ Sound' /\ enc' = enc /\ script' = script /\ from' = from /\ Hand' = Hand
<1>1. enc' = enc /\ script' = script /\ from' = from
  BY DEF Others, Prime, PrimeFails, Read, Send, Done, Failed, Leave, vars
<1>2. /\ Hand' = Hand /\ said' \in Seq(EventTypes) /\ out' \in Seq(EventTypes)
      /\ out = <<>> => out' = <<>> /\ said' = said
  <2>1. CASE Send
    BY <2>1, MoveHead DEF Send, Hand, Sound, Grounds
  <2>2. CASE UNCHANGED <<said, out>>
    BY <2>2 DEF Hand, Sound, Grounds
  <2> QED
    BY <2>1, <2>2 DEF Others, Prime, PrimeFails, Read, Done, Failed, Leave, vars
<1>3. ArrivedBy(from)' = ArrivedBy(from)
  BY <1>1 DEF ArrivedBy, Heard, Fragments, Legible
<1>4. Tidy(enc, said \o out, ArrivedBy(from))'
  <2>1. Tidy(enc, said \o out, ArrivedBy(from)) /\ (said \o out)' = said \o out
    BY <1>2 DEF Sound, Written, Hand
  <2> QED
    BY <1>1, <1>3, <2>1, TidyCarries
<1>5. Total' = Total /\ Len(script)' = Len(script) /\ Total \in Nat
  BY <1>1, ScriptIs DEF Total, Sound, Grounds
<1>6. got' \in 0 .. Total /\ from' \in 0 .. got'
  <2>1. CASE Prime
    BY <1>1, <1>5, <2>1 DEF Prime, Sound, Grounds, Stages
  <2>2. CASE Read
    BY <1>1, <1>5, <2>2 DEF Read, Sound, Grounds
  <2>3. CASE got' = got
    BY <1>1, <1>5, <2>3 DEF Sound, Grounds
  <2> QED
    BY <2>1, <2>2, <2>3 DEF Others, PrimeFails, Send, Done, Failed, Leave, vars
<1>7. record' \in NoRecord .. Len(script)
  <2>1. CASE Done
    <3>1. Extracted \in 0 .. Len(script) /\ Len(script) \in Nat
      BY ExtractedType, ScriptIs DEF Sound, Grounds
    <3> QED
      BY <2>1, <3>1 DEF Done, NoRecord
  <2>2. CASE record' = record
    BY <2>2 DEF Sound, Grounds
  <2> QED
    BY <2>1, <2>2 DEF Others, Prime, PrimeFails, Read, Send, Failed, Leave, vars
<1>8. /\ phase' \in {"prime", "stream", "flush", "failing"} \cup Ended
      /\ phase' \in {"prime", "stream"} => phase \in {"prime", "stream"}
      /\ phase' \in {"prime", "refused"} => phase \in {"prime", "refused"} /\ UNCHANGED <<said, out>>
      /\ phase' \in {"flush", "done"} => phase \in {"flush", "done"} /\ got' = got
      /\ phase' = "done" => out' = out /\ out = <<>>
  <2>1. phase = "done" => out = <<>>
    BY DEF Sound, Stages
  <2>2. phase \in {"prime", "stream", "flush", "failing"} \cup Ended
    BY DEF Sound, Grounds
  <2>3. CASE Prime \/ Read
    BY <2>2, <2>3 DEF Prime, Read, Idle
  <2>4. CASE PrimeFails \/ Done
    BY <2>4 DEF PrimeFails, Done, Ended
  <2>5. CASE Send
    BY <2>2, <2>5 DEF Send
  <2>6. CASE Failed \/ Leave
    BY <2>6 DEF Failed, Leave, Ended
  <2>7. CASE UNCHANGED vars
    BY <2>1, <2>2, <2>7 DEF vars
  <2> QED
    BY <2>3, <2>4, <2>5, <2>6, <2>7 DEF Others
<1>9. Grounds'
  BY <1>1, <1>2, <1>5, <1>6, <1>7, <1>8 DEF Sound, Grounds, ScriptTypes
<1>10. Stages'
  BY <1>1, <1>2, <1>8 DEF Sound, Stages
<1>11. Written'
  BY <1>1, <1>2, <1>4, <1>8 DEF Sound, Written, Hand
<1> QED
  BY <1>1, <1>2, <1>9, <1>10, <1>11 DEF Sound

LEMMA SoundStep == Sound /\ [Next]_vars => Sound'
<1>1. [Next]_vars => Decode \/ EndOfStream \/ Breaks \/ Others \/ UNCHANGED vars
  BY DEF Next, Body, Others
<1> QED
  BY <1>1, DecodeKeeps, EndOfStreamKeeps, BreaksKeeps, OthersKeep

LEMMA AlwaysSound == Spec => []Sound
<1> QED
  BY SoundInit, SoundStep, PTL DEF Spec

-----------------------------------------------------------------------------
(* Whatever the upstream sends.                                            *)

\* The events, the encoder and the record are what the code takes them for; a
\* block of the text that was begun is open until the message ends.
THEOREM MessageTypes == Spec => []TypeOK
<1>1. Sound => TypeOK
  <2> SUFFICES ASSUME Sound PROVE TypeOK
    OBVIOUS
  <2>1. Grounds /\ Ready(enc) /\ Pure(enc, said \o out)
    BY DEF Sound, Written, Tidy
  <2>2. enc.next \in Nat /\ enc.open \subseteq 0 .. enc.next - 1
    BY <2>1 DEF Grounds, EncTypes, Pure
  <2>3. enc.text \in enc.open \cup {NoBlock} \/ enc.final
    BY <2>1 DEF Ready
  <2>4. \A n \in DOMAIN script : script[n] \in Chunks \cup {Noise}
    BY <2>1, ScriptIs DEF Grounds
  <2> QED
    BY <2>1, <2>2, <2>3, <2>4 DEF TypeOK, Grounds
<1> QED
  BY <1>1, AlwaysSound, PTL

\* The events that were sent, in what was and will be sent.
LEMMA SentIs ==
  ASSUME Sound
  PROVE  /\ said \o out \in Seq(EventTypes) /\ Deltas = DeltasIn(said)
         /\ Len(said) \in Nat /\ DOMAIN said = 1 .. Len(said)
         /\ \A i \in DOMAIN said : i \in DOMAIN (said \o out) /\ (said \o out)[i] = said[i]
         /\ \A i \in Deltas : i \in DeltasIn(said \o out)
         /\ \A i \in DeltasIn(said \o out) : i <= Len(said) => i \in Deltas
         /\ out = <<>> => said \o out = said
<1>1. said \in Seq(EventTypes) /\ out \in Seq(EventTypes)
  BY DEF Sound, Grounds
<1> DEFINE h == said \o out
<1>2. /\ h \in Seq(EventTypes) /\ Len(said) \in Nat /\ DOMAIN said = 1 .. Len(said)
      /\ DOMAIN h = 1 .. Len(h) /\ Len(h) \in Nat /\ Len(said) <= Len(h)
      /\ \A i \in 1 .. Len(said) : h[i] = said[i]
  BY <1>1
<1>3. out = <<>> => h = said
  BY <1>1
<1> HIDE DEF h
<1>4. Deltas = DeltasIn(said)
  BY DEF Deltas, DeltasIn
<1>5. \A i \in DOMAIN said : i \in DOMAIN h /\ h[i] = said[i]
  BY <1>2
<1>6. \A i \in Deltas : i \in DeltasIn(h)
  BY <1>4, <1>5 DEF DeltasIn
<1>7. \A i \in DeltasIn(h) : i <= Len(said) => i \in Deltas
  BY <1>2, <1>4 DEF DeltasIn
<1> QED
  BY <1>2, <1>3, <1>4, <1>5, <1>6, <1>7 DEF h

\* What the bytes that were read hold is found alike by the properties.
LEMMA ContentIs ==
  ASSUME Sound
  PROVE  /\ {n \in Whole(1, got) : Legible(n)} = Heard(got) /\ Content = ArrivedBy(got)
         /\ Heard(from) \subseteq Heard(got)
         /\ \A n \in Heard(got) : \A m \in Heard(from) : n <= m => n \in Heard(from)
         /\ \A n \in Heard(got) : /\ n \in DOMAIN script /\ n \in Nat \ {0}
                                  /\ script[n] \in Chunks
<1>1. /\ DOMAIN script = 1 .. Len(script) /\ Len(script) \in Nat
      /\ \A n \in DOMAIN script : script[n] \in Chunks \cup {Noise}
      /\ got \in Nat /\ from \in Nat /\ from <= got
  BY ScriptIs DEF Sound, Grounds
<1>2. {n \in Whole(1, got) : Legible(n)} = Heard(got)
  BY <1>1 DEF Whole, Heard, Width, Legible
<1> QED
  BY <1>1, <1>2 DEF Content, ArrivedBy, Heard, Width, Legible

\* The client gets the fragments of all legible chunks once and in order, however
\* the bytes were cut: _iter_openai_sse_chunks keeps what follows a frame, the rest
\* is decoded when the stream ends, and no tool call of a chunk is passed over.
THEOREM FragmentsArrive == Spec => []NothingLost
<1>1. Sound => NothingLost
  <2> SUFFICES ASSUME Sound PROVE NothingLost
    OBVIOUS
  <2> DEFINE h == said \o out
             F == ArrivedBy(from)
  <2>1. Sorted(h, F)
    BY DEF Sound, Written, Tidy
  <2> HIDE DEF h, F
  <2>2. /\ \A i \in DeltasIn(h) : h[i].of \in F
        /\ \A p \in F : \E i \in DeltasIn(h) : h[i].of = p
        /\ \A i, j \in DeltasIn(h) : i < j => Precedes(h[i].of, h[j].of)
    BY <2>1 DEF Sorted
  <2>3. /\ \A i \in Deltas : i \in DeltasIn(h) /\ h[i] = said[i] /\ i \in Nat /\ i <= Len(said)
        /\ \A i \in DeltasIn(h) : i \in Nat /\ (i <= Len(said) => i \in Deltas)
        /\ Len(said) \in Nat /\ (out = <<>> => h = said)
    <3>1. \A i \in Deltas : i \in DOMAIN said
      BY DEF Deltas
    <3>2. h \in Seq(EventTypes) /\ \A i \in DeltasIn(h) : i \in DOMAIN h
      BY SentIs DEF h, DeltasIn
    <3>3. \A i \in DeltasIn(h) : i \in Nat
      BY <3>2
    <3>4. /\ Len(said) \in Nat
          /\ \A i \in DOMAIN said : i \in Nat /\ i <= Len(said) /\ h[i] = said[i]
      <4>1. /\ Len(said) \in Nat /\ DOMAIN said = 1 .. Len(said)
            /\ \A i \in DOMAIN said : h[i] = said[i]
        BY SentIs DEF h
      <4> QED
        BY <4>1
    <3> QED
      BY <3>1, <3>3, <3>4, SentIs DEF h
  <2>4. F \subseteq Content
    BY ContentIs DEF F, ArrivedBy
  <2>5. ASSUME NEW p \in Content, NEW s \in F, Precedes(p, s) PROVE p \in F
    <3>1. PICK n \in Heard(got) : p \in Fragments(n)
      BY ContentIs DEF ArrivedBy
    <3>2. PICK m \in Heard(from) : s \in Fragments(m)
      BY DEF F, ArrivedBy
    <3>3. p[1] = n /\ s[1] = m /\ n \in Nat /\ m \in Nat
      BY <3>1, <3>2, ContentIs, FragmentsAre DEF Sound, Grounds
    <3>4. n <= m
      BY <2>5, <3>3 DEF Precedes
    <3> QED
      BY <3>1, <3>2, <3>4, ContentIs DEF F, ArrivedBy
  <2>6. ASSUME NEW s \in F, NEW t \in F
        PROVE  /\ s[1] \in Nat /\ s[2] \in Nat
               /\ ~(Precedes(s, t) /\ Precedes(t, s)) /\ ~Precedes(s, s)
    <3>1. PICK n \in Heard(from) : s \in Fragments(n)
      BY DEF F, ArrivedBy
    <3>2. PICK m \in Heard(from) : t \in Fragments(m)
      BY DEF F, ArrivedBy
    <3>3. s \in Nat \X Nat /\ t \in Nat \X Nat
      BY <3>1, <3>2, ContentIs, FragmentsAre DEF Sound, Grounds
    <3> QED
      BY <3>3 DEF Precedes
  <2>7. ASSUME NEW i \in Deltas
        PROVE  /\ said[i].of \in Content
               /\ \A j \in Deltas : j < i => Precedes(said[j].of, said[i].of)
               /\ \A p \in Content : Precedes(p, said[i].of) =>
                     \E j \in Deltas : j < i /\ said[j].of = p
    <3>1. /\ said[i].of \in Content
          /\ \A j \in Deltas : j < i => Precedes(said[j].of, said[i].of)
      BY <2>2, <2>3, <2>4
    <3>2. ASSUME NEW p \in Content, Precedes(p, said[i].of)
          PROVE  \E j \in Deltas : j < i /\ said[j].of = p
      <4>1. said[i].of \in F /\ said[i].of = h[i].of /\ i \in DeltasIn(h)
        BY <2>2, <2>3
      <4>2. p \in F
        BY <2>5, <3>2, <4>1
      <4>3. PICK j \in DeltasIn(h) : h[j].of = p
        BY <2>2, <4>2
      <4>4. ~(i < j)
        BY <2>2, <2>6, <3>2, <4>1, <4>2, <4>3
      <4>5. j # i
        BY <2>6, <3>2, <4>1, <4>3
      <4>6. j < i /\ j \in Deltas
        BY <2>3, <4>3, <4>4, <4>5
      <4> QED
        BY <2>3, <4>3, <4>6
    <3> QED
      BY <3>1, <3>2
  <2>8. ASSUME phase = "done", NEW p \in Content PROVE \E j \in Deltas : said[j].of = p
    <3>1. from = got /\ out = <<>>
      BY <2>8 DEF Sound, Stages
    <3>2. p \in F /\ h = said
      BY <2>3, <2>8, <3>1, ContentIs DEF F
    <3> QED
      BY <2>2, <3>2, SentIs
  <2> QED
    BY <2>7, <2>8 DEF NothingLost
<1> QED
  BY <1>1, AlwaysSound, PTL

\* A block holds the text, or the arguments of one tool, and these are nowhere
\* else: _open_text_block and _process_tool_calls open a block once and go on
\* finding it.
THEOREM BlocksAreOwn == Spec => []BlocksPure
<1>1. Sound => BlocksPure
  <2> SUFFICES ASSUME Sound, NEW i \in Deltas, NEW j \in Deltas
               PROVE  said[i].block = said[j].block <=> Source(said[i].of) = Source(said[j].of)
    BY DEF BlocksPure
  <2> DEFINE h == said \o out
             s == Source(said[i].of)
             t == Source(said[j].of)
             a == said[i].block
             b == said[j].block
  <2>1. Pure(enc, h)
    BY DEF Sound, Written, Tidy
  <2>2. i \in DeltasIn(h) /\ j \in DeltasIn(h) /\ h[i] = said[i] /\ h[j] = said[j]
    BY SentIs DEF Deltas
  <2> HIDE DEF h
  <2>3. InBlock(enc, s, a) /\ InBlock(enc, t, b)
    BY <2>1, <2>2 DEF Pure
  <2> HIDE DEF s, t, a, b
  <2>4. /\ \A p \in ToSet(enc.tool) : p[2] # enc.text
        /\ \A p, r \in ToSet(enc.tool) : p[1] = r[1] <=> p[2] = r[2]
    BY <2>1 DEF Pure
  <2>5. a = b <=> s = t
    <3>1. <<s, a>>[1] = s /\ <<s, a>>[2] = a /\ <<t, b>>[1] = t /\ <<t, b>>[2] = b
      OBVIOUS
    <3>2. CASE s = TextSource /\ t = TextSource
      BY <2>3, <3>2 DEF InBlock
    <3>3. CASE s = TextSource /\ t # TextSource
      BY <2>3, <2>4, <3>1, <3>3 DEF InBlock
    <3>4. CASE s # TextSource /\ t = TextSource
      BY <2>3, <2>4, <3>1, <3>4 DEF InBlock
    <3>5. CASE s # TextSource /\ t # TextSource
      <4>1. <<s, a>> \in ToSet(enc.tool) /\ <<t, b>> \in ToSet(enc.tool)
        BY <2>3, <3>5 DEF InBlock
      <4> QED
        BY <2>4, <3>1, <4>1
    <3> QED
      BY <3>2, <3>3, <3>4, <3>5
  <2> QED
    BY <2>5 DEF s, t, a, b
<1> QED
  BY <1>1, AlwaysSound, PTL

-----------------------------------------------------------------------------
(* If the upstream sends usage in no chunk but the last.                   *)

\* All that was and will be sent is right, the usage is that of the chunk that
\* has one, and the message is at its end when there is one.
Regular ==
    /\ Lawful(script) /\ Legal(Hand)
    /\ enc.usage # 0 => enc.usage \in Heard(from) /\ script[enc.usage].usage = "full"
    /\ \A n \in Heard(from) : /\ script[n].usage = "full" => enc.usage = n
                              /\ script[n].finish => n <= enc.stop
    /\ phase \in {"prime", "stream"} =>
          Mirrors(enc, Hand) /\ (enc.final => enc.usage # 0 /\ Told(enc, Hand))
    /\ phase \in {"flush", "done"} => Told(enc, Hand)
    /\ IF phase = "done" THEN record = enc.usage ELSE record = NoRecord

Settled == Sound /\ Regular

LEMMA SettledInit == UsageIsLast /\ Init => Settled
<1> SUFFICES ASSUME UsageIsLast, Init PROVE Settled
  OBVIOUS
<1>1. /\ Lawful(script) /\ from = 0 /\ phase = "prime" /\ enc = Fresh
      /\ said = <<>> /\ out = <<>> /\ record = NoRecord
  BY DEF Init
<1>2. Sound /\ ScriptTypes
  BY SoundInit DEF Sound, Grounds
<1>3. Hand = <<>>
  BY <1>1 DEF Hand
<1>4. Heard(from) = {}
  BY <1>1, <1>2, ScriptIs DEF Heard, Width, Legible
<1>5. Mirrors(enc, Hand) /\ ~enc.final /\ enc.usage = 0
  BY <1>1, <1>3, FreshIs
<1>6. Legal(Hand)
  BY <1>5 DEF Mirrors
<1> QED
  BY <1>1, <1>2, <1>4, <1>5, <1>6 DEF Settled, Regular

\* No chunk follows the one that has the usage.
LEMMA UsageComesLast ==
  ASSUME Settled, NEW n \in DOMAIN script, script[n] \in Chunks, \A m \in Heard(from) : m < n
  PROVE  enc.usage = 0 /\ \A m \in Heard(from) : script[m].usage # "full"
<1>1. DOMAIN script = 1 .. Len(script) /\ Len(script) \in Nat /\ script[n] # Noise
  BY ScriptIs, StreamAssumption DEF Settled, Sound, Grounds
<1>2. ASSUME NEW m \in Heard(from), script[m].usage = "full" PROVE FALSE
  <2>1. m \in DOMAIN script /\ script[m] # Noise /\ script[m].usage # "no" /\ m < n
    BY <1>2, StreamAssumption DEF Heard, Legible
  <2>2. n \in m + 1 .. Len(script)
    BY <1>1, <2>1
  <2> QED
    BY <1>1, <2>1, <2>2 DEF Settled, Regular, Lawful
<1> QED
  BY <1>2 DEF Settled, Regular

\* What a chunk adds to the usage and to the reason of the stop.
LEMMA ChunkIsNoted ==
  ASSUME Settled, script' = script,
         NEW n \in DOMAIN script, script[n] \in Chunks, \A m \in Heard(from) : m < n,
         Heard(from)' = Heard(from) \cup {n},
         enc'.stop = IF script[n].finish THEN n ELSE enc.stop,
         enc'.usage = IF script[n].usage = "full" THEN n ELSE enc.usage
  PROVE  /\ enc.usage = 0
         /\ enc'.usage # 0 => enc'.usage \in Heard(from)' /\ script[enc'.usage].usage = "full"
         /\ \A k \in Heard(from)' : /\ script[k].usage = "full" => enc'.usage = k
                                    /\ script[k].finish => k <= enc'.stop
         /\ script[n].usage = "full" => enc'.usage # 0
<1>1. enc.usage = 0 /\ \A m \in Heard(from) : script[m].usage # "full"
  BY UsageComesLast
<1>2. n \in Nat \ {0} /\ \A m \in Heard(from) : m \in Nat
  BY ScriptIs DEF Settled, Sound, Grounds, Heard, Legible
<1>3. \A m \in Heard(from) : script[m].finish => m <= enc.stop
  BY DEF Settled, Regular
<1>4. ASSUME NEW k \in Heard(from)'
      PROVE  /\ script[k].usage = "full" => enc'.usage = k
             /\ script[k].finish => k <= enc'.stop
  <2>1. CASE k = n
    BY <1>2, <2>1
  <2>2. CASE k \in Heard(from)
    <3>1. k < n /\ k \in Nat /\ n \in Nat
      BY <1>2, <2>2
    <3> QED
      BY <1>1, <1>3, <2>2, <3>1
  <2> QED
    BY <2>1, <2>2
<1>5. enc'.usage # 0 => enc'.usage = n /\ script[n].usage = "full"
  BY <1>1
<1> QED
  BY <1>1, <1>2, <1>4, <1>5

LEMMA SettledDecode ==
  ASSUME Settled, Decode
  PROVE  Settled'
<1> DEFINE n == Parsed(from + 1, from + 2)
<1>1. /\ Sound' /\ said' = said /\ script' = script
      /\ n = 0 => Heard(from)' = Heard(from) /\ enc' = enc /\ Hand' = Hand
      /\ n # 0 => /\ n \in DOMAIN script /\ script[n] \in Chunks
                  /\ Heard(from)' = Heard(from) \cup {n} /\ \A m \in Heard(from) : m < n
                  /\ enc'.stop = IF script[n].finish THEN n ELSE enc.stop
                  /\ enc'.usage = IF script[n].usage = "full" THEN n ELSE enc.usage
                  /\ enc'.final <=> enc.final \/ script[n].usage = "full"
                  /\ ~enc.final => /\ Mirrors(enc', Hand')
                                   /\ enc'.final => Told(enc', Hand')
  BY DecodeKeeps DEF Settled
<1>2. phase = "stream" /\ phase' = "stream" /\ record' = record /\ record = NoRecord
  BY DEF Decode, Idle, Settled, Regular
<1>3. Lawful(script)' /\ Lawful(script)
  BY <1>1 DEF Settled, Regular, Lawful
<1> HIDE DEF n
<1>4. CASE n = 0
  BY <1>1, <1>2, <1>3, <1>4 DEF Settled, Regular
<1>5. CASE n # 0
  <2>1. /\ enc.usage = 0
        /\ enc'.usage # 0 => enc'.usage \in Heard(from)' /\ script[enc'.usage].usage = "full"
        /\ \A k \in Heard(from)' : /\ script[k].usage = "full" => enc'.usage = k
                                   /\ script[k].finish => k <= enc'.stop
        /\ script[n].usage = "full" => enc'.usage # 0
    BY <1>1, <1>5, ChunkIsNoted
  <2>2. ~enc.final
    BY <1>2, <2>1 DEF Settled, Regular
  <2>3. /\ Mirrors(enc', Hand')
        /\ enc'.final => enc'.usage # 0 /\ Told(enc', Hand')
    BY <1>1, <1>5, <2>1, <2>2
  <2>4. Legal(Hand')
    BY <2>3 DEF Mirrors
  <2> QED
    BY <1>1, <1>2, <1>3, <2>1, <2>3, <2>4 DEF Settled, Regular
<1> QED
  BY <1>4, <1>5

LEMMA SettledEnd ==
  ASSUME Settled, EndOfStream
  PROVE  Settled'
<1> DEFINE n == Parsed(from + 1, got)
<1>1. /\ Sound' /\ said' = said /\ script' = script /\ enc'.final
      /\ n = 0 => /\ Heard(from)' = Heard(from)
                  /\ enc'.stop = enc.stop /\ enc'.usage = enc.usage
                  /\ Mirrors(enc, Hand) /\ (enc.final => enc.started /\ Told(enc, Hand)) =>
                        Mirrors(enc', Hand') /\ Told(enc', Hand')
      /\ n # 0 => /\ n \in DOMAIN script /\ script[n] \in Chunks
                  /\ Heard(from)' = Heard(from) \cup {n} /\ \A m \in Heard(from) : m < n
                  /\ enc'.stop = IF script[n].finish THEN n ELSE enc.stop
                  /\ enc'.usage = IF script[n].usage = "full" THEN n ELSE enc.usage
                  /\ ~enc.final => Mirrors(enc', Hand') /\ Told(enc', Hand')
  BY EndOfStreamKeeps DEF Settled
<1>2. phase = "stream" /\ phase' = "flush" /\ record' = record /\ record = NoRecord
  BY DEF EndOfStream, Idle, Settled, Regular
<1>3. Lawful(script)' /\ Lawful(script)
  BY <1>1 DEF Settled, Regular, Lawful
<1>4. Mirrors(enc, Hand) /\ (enc.final => enc.usage # 0 /\ Told(enc, Hand))
  BY <1>2 DEF Settled, Regular
<1> HIDE DEF n
<1>5. CASE n = 0
  <2>1. enc.final => enc.started /\ Told(enc, Hand)
    BY <1>4 DEF Mirrors, HasIn
  <2>2. Mirrors(enc', Hand') /\ Told(enc', Hand')
    BY <1>1, <1>4, <1>5, <2>1
  <2>3. Legal(Hand')
    BY <2>2 DEF Mirrors
  <2> QED
    BY <1>1, <1>2, <1>3, <1>5, <2>2, <2>3 DEF Settled, Regular
<1>6. CASE n # 0
  <2>1. /\ enc.usage = 0
        /\ enc'.usage # 0 => enc'.usage \in Heard(from)' /\ script[enc'.usage].usage = "full"
        /\ \A k \in Heard(from)' : /\ script[k].usage = "full" => enc'.usage = k
                                   /\ script[k].finish => k <= enc'.stop
    BY <1>1, <1>6, ChunkIsNoted
  <2>2. Mirrors(enc', Hand') /\ Told(enc', Hand')
    BY <1>1, <1>4, <1>6, <2>1
  <2>3. Legal(Hand')
    BY <2>2 DEF Mirrors
  <2> QED
    BY <1>1, <1>2, <1>3, <2>1, <2>2, <2>3 DEF Settled, Regular
<1> QED
  BY <1>5, <1>6

\* What is read from the bytes is what the encoder told.
LEMMA RecordIsTold ==
  ASSUME Settled, phase = "flush"
  PROVE  Extracted = enc.usage
<1>1. /\ from = got /\ DOMAIN script = 1 .. Len(script) /\ Len(script) \in Nat
      /\ \A n \in DOMAIN script : script[n] \in Chunks \cup {Noise}
  BY ScriptIs DEF Settled, Sound, Grounds, Stages
<1>2. Reported = {n \in Heard(from) : script[n].usage # "no"}
  <2>1. {n \in Whole(1, got) : Legible(n)} = Heard(got)
    BY ContentIs DEF Settled
  <2> QED
    BY <1>1, <2>1 DEF Reported
<1>3. \A n \in Reported : /\ n \in 1 .. Len(script) /\ script[n] # Noise
                          /\ script[n].usage \in {"empty", "full"}
  BY <1>1, <1>2, StreamAssumption DEF Heard, Legible
<1>4. ASSUME NEW n \in Reported, NEW k \in Reported, n < k PROVE FALSE
  <2>1. k \in n + 1 .. Len(script) /\ script[n].usage # "no" /\ script[n] # Noise
    BY <1>1, <1>3, <1>4
  <2> QED
    BY <1>1, <1>3, <2>1 DEF Settled, Regular, Lawful
<1>5. \A n, k \in Reported : n = k
  <2> SUFFICES ASSUME NEW n \in Reported, NEW k \in Reported PROVE n = k
    OBVIOUS
  <2>1. n \in Nat /\ k \in Nat /\ ~(n < k) /\ ~(k < n)
    BY <1>3, <1>4
  <2> QED
    BY <2>1
<1>6. /\ enc.usage # 0 => enc.usage \in Reported /\ script[enc.usage].usage = "full"
      /\ \A n \in Reported : script[n].usage = "full" => enc.usage = n
  BY <1>2 DEF Settled, Regular
<1>7. CASE Reported = {}
  BY <1>6, <1>7 DEF Extracted, NoUsage
<1>8. CASE Reported # {}
  <2>1. PICK r \in Reported : TRUE
    BY <1>8
  <2>2. r <= r
    BY <1>3, <2>1
  <2> DEFINE m == CHOOSE n \in Reported : \A k \in Reported : k <= n
  <2>3. m = r
    BY <1>5, <2>1, <2>2
  <2>4. Extracted = IF script[m].usage = "empty" THEN NoUsage ELSE m
    BY <1>8 DEF Extracted
  <2> HIDE DEF m
  <2> QED
    BY <1>3, <1>5, <1>6, <2>1, <2>3, <2>4 DEF NoUsage
<1> QED
  BY <1>7, <1>8

LEMMA SettledOthers ==
  ASSUME Settled, Others \/ UNCHANGED vars
  PROVE  Settled'
<1>1. Sound' /\ enc' = enc /\ script' = script /\ from' = from /\ Hand' = Hand
  BY OthersKeep DEF Settled
<1>2. Heard(from)' = Heard(from) /\ Lawful(script)'
  BY <1>1 DEF Heard, Settled, Regular, Lawful, Legible
<1>3. /\ phase' \in {"prime", "stream"} => phase \in {"prime", "stream"}
      /\ phase' \in {"flush", "done"} => phase \in {"flush", "done"}
  BY DEF Others, Prime, PrimeFails, Read, Send, Done, Failed, Leave, vars
<1>4. IF phase' = "done" THEN record' = enc.usage ELSE record' = NoRecord
  <2>1. CASE Done
    BY <2>1, RecordIsTold DEF Done
  <2>2. CASE ~Done
    <3>1. record' = record /\ (phase' = "done" <=> phase = "done")
      BY <2>2 DEF Others, Prime, PrimeFails, Read, Send, Failed, Leave, vars, Idle
    <3> QED
      BY <3>1 DEF Settled, Regular
  <2> QED
    BY <2>1, <2>2
<1> QED
  BY <1>1, <1>2, <1>3, <1>4 DEF Settled, Regular

LEMMA SettledBreaks ==
  ASSUME Settled, Breaks
  PROVE  Settled'
<1>1. /\ Sound' /\ enc' = enc /\ script' = script /\ from' = from
      /\ Legal(Hand) /\ ~HasIn(Hand, "error") => Legal(Hand')
  BY BreaksKeeps DEF Settled
<1>2. phase = "stream" /\ phase' = "failing" /\ record' = record
  BY DEF Breaks, Idle
<1>3. Legal(Hand')
  BY <1>1, <1>2 DEF Settled, Regular, Mirrors
<1>4. Heard(from)' = Heard(from) /\ Lawful(script)'
  BY <1>1 DEF Heard, Settled, Regular, Lawful, Legible
<1> QED
  BY <1>1, <1>2, <1>3, <1>4 DEF Settled, Regular

LEMMA SettledStep == Settled /\ [Next]_vars => Settled'
<1>1. [Next]_vars => Decode \/ EndOfStream \/ Breaks \/ Others \/ UNCHANGED vars
  BY DEF Next, Body, Others
<1> QED
  BY <1>1, SettledDecode, SettledEnd, SettledBreaks, SettledOthers

LEMMA AlwaysSettled == UsageIsLast /\ Spec => []Settled
<1> QED
  BY SettledInit, SettledStep, PTL DEF Spec

\* The usage that _extract_usage_from_sse finds in the bytes is the one the
\* encoder told the client, with the last reason of a stop that arrived, and
\* nothing is recorded for a stream that broke or was left.
THEOREM UsageIsThatTold == UsageIsLast /\ Spec => []UsageAgrees
<1>1. Settled => UsageAgrees
  <2> SUFFICES ASSUME Settled PROVE UsageAgrees
    OBVIOUS
  <2>1. phase = "done" <=> record # NoRecord
    BY DEF Settled, Sound, Grounds, Regular, EncTypes, NoRecord
  <2>2. ASSUME phase = "done"
        PROVE  \E i \in DOMAIN said :
                  /\ said[i].kind = "usage" /\ said[i].of[1] = record
                  /\ \A n \in Whole(1, got) :
                        Legible(n) /\ script[n].finish => n <= said[i].of[2]
    <3>1. out = <<>> /\ from = got /\ Hand = said
      BY <2>2, SentIs DEF Settled, Sound, Stages, Hand
    <3>2. PICK i \in DOMAIN said : said[i].kind = "usage" /\ said[i].of = <<enc.usage, enc.stop>>
      BY <2>2, <3>1 DEF Settled, Regular, Told
    <3>3. said[i].of[1] = record /\ said[i].of[2] = enc.stop
      BY <2>2, <3>2 DEF Settled, Regular
    <3>4. \A n \in Whole(1, got) : Legible(n) => n \in Heard(from)
      BY <3>1, ContentIs DEF Settled
    <3>5. \A n \in Heard(from) : script[n].finish => n <= enc.stop
      BY DEF Settled, Regular
    <3> QED
      BY <3>2, <3>3, <3>4, <3>5
  <2> QED
    BY <2>1, <2>2 DEF UsageAgrees
<1> QED
  BY <1>1, AlwaysSettled, PTL

\* An event is sent when those before it allow it.
LEMMA SendIsAllowed ==
  ASSUME Settled, Send
  PROVE  Events!Say
<1>1. /\ out # <<>> /\ said' = Append(said, Head(out))
      /\ said \in Seq(EventTypes) /\ out \in Seq(EventTypes)
  BY DEF Send, Settled, Sound, Grounds
<1> DEFINE e == Head(out)
<1>2. e \in EventTypes /\ e = out[1] /\ Len(out) \in Nat /\ Len(out) > 0
  BY <1>1, HeadTailProperties, EmptySeq, LenProperties
<1>3. /\ Len(said) \in Nat /\ Len(said) + 1 \in DOMAIN Hand /\ Hand[Len(said) + 1] = e
      /\ SubSeq(Hand, 1, Len(said)) = said
  <2>1. /\ Hand \in Seq(EventTypes) /\ Len(said) \in Nat /\ Len(Hand) = Len(said) + Len(out)
        /\ \A i \in 1 .. Len(said) : Hand[i] = said[i]
        /\ Hand[Len(said) + 1] = out[1]
    BY <1>1, <1>2 DEF Hand
  <2>2. Len(said) + 1 \in DOMAIN Hand
    BY <1>2, <2>1
  <2>3. SubSeq(Hand, 1, Len(said)) = [i \in 1 .. Len(said) |-> Hand[i]]
    BY <2>1
  <2>4. said = [i \in 1 .. Len(said) |-> said[i]]
    BY <1>1
  <2>5. SubSeq(Hand, 1, Len(said)) = said
    BY <2>1, <2>3, <2>4
  <2> QED
    BY <1>2, <2>1, <2>2, <2>5
<1>4. Permits(said, e)
  <2>1. (Len(said) + 1) - 1 = Len(said)
    BY <1>3
  <2>2. Permits(SubSeq(Hand, 1, (Len(said) + 1) - 1), Hand[Len(said) + 1])
    BY <1>3 DEF Settled, Regular, Legal
  <2> QED
    BY <1>3, <2>1, <2>2
<1> HIDE DEF e
<1>5. Events!Allowed(e)
  BY <1>4 DEF Permits, HasIn, Of, Events!Allowed, Events!Has, Events!Opened, Events!Closed
<1>6. Len(said') = Len(said) + 1 /\ said'[Len(said')] = e
  BY <1>1, <1>2 DEF e
<1> QED
  BY <1>1, <1>5, <1>6 DEF Events!Say, e

\* The response implements AnthropicEvents: whatever the pieces and the failures,
\* _AnthropicSseEncoder and _anthropic_stream_response send a message's events in
\* the order a client may rely on.
THEOREM EventsImplemented == UsageIsLast /\ Spec => InOrder
<1>1. Init => Events!EventsInit
  BY DEF Init, Events!EventsInit
<1>2. Settled /\ [Next]_vars => [Events!Say]_said
  <2>1. [Next]_vars => Send \/ UNCHANGED said
    BY DEF Next, Body, Prime, PrimeFails, Read, Decode, EndOfStream, Breaks, Done, Failed, Leave,
           vars
  <2> QED
    BY <2>1, SendIsAllowed
<1> QED
  BY <1>1, <1>2, AlwaysSettled, PTL DEF Spec, InOrder, Events!EventsSpec
=============================================================================
