--------------------------- MODULE MCTerminalClient ---------------------------
(* Instances of TerminalClient for TLC.                                    *)
EXTENDS TerminalClient
=============================================================================
