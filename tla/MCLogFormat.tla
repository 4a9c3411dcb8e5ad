---------------------------- MODULE MCLogFormat ----------------------------
(* LogFormat for TLC: all short patterns over a few characters, and longer *)
(* ones put together from pieces.                                          *)
EXTENDS LogFormat
LOCAL INSTANCE SequencesExt

CONSTANTS
  MaxLength,  \* bound: characters of a short pattern
  MaxPiece    \* bound: pieces of a long one

SomeChar == {"%", "d", "{", "}", "m", "x"}
SomeKnown == {"%", "m"}

Piece ==
  {<<"%", "d">>, <<"%", "d", "{", "m", "}">>, <<"%", "d", "{", "%", "x", "}">>, <<"%", "d", "{">>,
   <<"%", "%">>, <<"%", "m">>, <<"%", "x">>, <<"x">>, <<"d", "}">>}

UpTo(n, S) == UNION {[1 .. k -> S] : k \in 0 .. n}

SomePattern == UpTo(MaxLength, SomeChar) \cup {FlattenSeq(p) : p \in UpTo(MaxPiece, Piece)}
=============================================================================
