------------------------------ MODULE MCInput ------------------------------
(***************************************************************************)
(* Small inputs on which TLC checks Input: two byte values, and a          *)
(* delimiter that overlaps itself, so that an input can hold whole, partial*)
(* and overlapping delimiters at any place.                                *)
(***************************************************************************)
EXTENDS Input

TwoBytes    == {0, 1}
ZeroOneZero == <<0, 1, 0>>

\* Two requests, empty requests, overlapping delimiters, false starts with part of a
\* delimiter at the end of the input, one right after a delimiter, no input at all.
Requests ==
  {<<1, 1, 0, 1, 0, 1, 1>>, <<0, 1, 0, 0, 1, 0, 1>>, <<1, 0, 1, 0, 1, 0, 1>>,
   <<1, 0, 0, 1, 1, 0, 1>>, <<1, 1, 0, 1, 0, 0, 1>>, <<1, 0, 1, 0, 0, 1, 0>>, <<>>}

\* one input, as long, for a pipe
Piped == {<<1, 0, 1, 0, 1>>}

\* one buffer, two buffers of a message, two messages of one buffer, and one of two
\* buffers followed by another message
SomeIovs ==
  {[ends |-> <<2>>, lasts |-> {1}], [ends |-> <<1, 3>>, lasts |-> {2}],
   [ends |-> <<2, 3>>, lasts |-> {1, 2}], [ends |-> <<1, 2, 4>>, lasts |-> {2, 3}]}
=============================================================================
