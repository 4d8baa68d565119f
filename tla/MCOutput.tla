------------------------------ MODULE MCOutput -----------------------------
(* Small writes on which TLC checks Output. *)
EXTENDS Output

\* one buffer, two buffers of a message with an empty one between them, three messages
\* of which the second has two buffers, and an empty message
SomeIovs ==
  {[ends |-> <<3>>, lasts |-> {1}], [ends |-> <<2, 2, 4>>, lasts |-> {3}],
   [ends |-> <<2, 3, 5, 6>>, lasts |-> {1, 3, 4}], [ends |-> <<0>>, lasts |-> {1}]}
=============================================================================
