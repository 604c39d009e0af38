--------------------------- MODULE AnthropicEvents ---------------------------
(***************************************************************************)
(* What a client of /v1/messages may rely on: the order of the events of   *)
(* one streamed message, without frames, chunks or an upstream.  Blocks    *)
(* are numbered in the order they are opened, a delta goes into a block    *)
(* that is open, every block is closed before the usage is told, and a     *)
(* failure is reported once, as the last event.                            *)
(***************************************************************************)
EXTENDS Integers, Sequences

VARIABLE said   \* the events the client was sent

Opened == {said[i].block : i \in {j \in DOMAIN said : said[j].kind = "open"}}
Closed == {said[i].block : i \in {j \in DOMAIN said : said[j].kind = "close"}}
Has(kind) == \E i \in DOMAIN said : said[i].kind = kind

Allowed(e) ==
    /\ ~Has("error")
    /\ \/ e.kind = "start" /\ said = <<>>
       \/ /\ Has("start") /\ ~Has("usage")
          /\ \/ e.kind = "open" /\ Opened = 0 .. e.block - 1
             \/ e.kind \in {"delta", "close"} /\ e.block \in Opened \ Closed
             \/ e.kind = "usage" /\ Opened = Closed
       \/ e.kind = "stop" /\ Has("usage") /\ ~Has("stop")
       \/ e.kind = "error"

EventsInit == said = <<>>

\* One event more.
Say ==
    /\ Len(said') = Len(said) + 1
    /\ said' = Append(said, said'[Len(said')])
    /\ Allowed(said'[Len(said')])

EventsSpec == EventsInit /\ [][Say]_said
=============================================================================
