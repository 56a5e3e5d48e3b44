----------------------------- MODULE MCLineParser -----------------------------
(* LineParser with one command of one character.                           *)
EXTENDS LineParser

CommandNames == {<<"a">>}
==============================================================================
