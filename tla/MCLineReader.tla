---------------------------- MODULE MCLineReader ----------------------------
(***************************************************************************)
(* Bounded source files for the line reader.                               *)
(***************************************************************************)
EXTENDS LineReaderProperties

Joined(pieces, n) == {FlattenSeq(s) : s \in UNION {[1..k -> pieces] : k \in 0..n}}

\* Code, comments and white space around the end of a buffer of 6 bytes.
Plain == Joined({<<"x">>, <<"n">>, <<";">>, <<"s", "s">>, <<"x", "x">>}, 6)

\* Quotes that hold semicolons, white space and NUL, or are not closed.
Quoted == Joined({<<"q">>, <<"x">>, <<"n">>, <<";">>, <<"s">>, <<"0">>}, 5)

\* Pieces of every kind.
Mixed == Joined({<<"x">>, <<"n">>, <<"s">>, <<";", "x">>, <<"q", ";", "q">>}, 5)

AllFiles == Plain \cup Quoted \cup Mixed

=============================================================================
