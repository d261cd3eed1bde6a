----------------------------- MODULE MCTerminal -----------------------------
(***************************************************************************)
(* Terminals for TLC: the sessions of MCCommandProcessor, typed in chunks. *)
(***************************************************************************)
EXTENDS Terminal, MCCommandProcessor

CONSTANT Words  \* the commands that the client types

\* A command and enter, enter alone, a letter alone, and a login sent with a
\* command behind it; a chunk may also end in the middle of a line.
OneLine == {<<w, "enter">> : w \in Words}

Pieces == {<<w>> : w \in Words} \cup {<<"enter">>, <<"letter">>}

TwoLines == {<<v, "enter", w, "enter">> : v, w \in Words}

AnyChunk == OneLine \cup Pieces \cup TwoLines
              \cup {<<v, "enter", w>> : v, w \in Words}
              \cup {<<"typo", "enter", "secret", "enter", w, "enter">> : w \in Words}
=============================================================================
