-------------------------- MODULE MCMessagesStream --------------------------
(* Instances of MessagesStream for TLC.                                    *)
EXTENDS MessagesStream

Chunk(text, tools, finish, usage) ==
    [text |-> text, tools |-> tools, finish |-> finish, usage |-> usage, split |-> FALSE]
Split(chunk) == [chunk EXCEPT !.split = TRUE]

\* Text; one or two tools, with and without arguments; the reason of the stop;
\* usage in a chunk of its own, with text, and empty; a line separator in a text,
\* with and without the usage behind it.
MCChunks ==
    {Chunk(TRUE, <<>>, FALSE, "no"),
     Chunk(FALSE, <<<<0, TRUE>>>>, FALSE, "no"),
     Chunk(TRUE, <<<<1, FALSE>>, <<0, TRUE>>>>, FALSE, "no"),
     Chunk(FALSE, <<<<1, TRUE>>>>, TRUE, "no"),
     Chunk(TRUE, <<>>, TRUE, "full"),
     Chunk(FALSE, <<>>, FALSE, "full"),
     Chunk(FALSE, <<>>, FALSE, "empty"),
     Split(Chunk(TRUE, <<<<0, TRUE>>>>, FALSE, "no")),
     Split(Chunk(TRUE, <<>>, TRUE, "full"))}
MCNoise == Chunk(FALSE, <<>>, FALSE, "noise")
=============================================================================
