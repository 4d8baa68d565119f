------------------------------ MODULE MCServe ------------------------------
(***************************************************************************)
(* Two threads and small inputs on which TLC checks Serve.                 *)
(***************************************************************************)
EXTENDS Serve

CONSTANTS t1, t2

TwoBytes    == {0, 1}
ZeroOneZero == <<0, 1, 0>>
Requests    == {<<1, 1, 0, 1, 0, 1, 1>>, <<1, 0, 1, 0, 0, 1, 0>>, <<0, 1, 0, 0, 1>>}
=============================================================================
