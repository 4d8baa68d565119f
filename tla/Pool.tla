-------------------------------- MODULE Pool -------------------------------
(***************************************************************************)
(* What libdesock's connection pool promises to the threads of an          *)
(* application that accept connections and close them: there are never     *)
(* more than MAX_CONNS open, and an acceptor is served when one is free.   *)
(***************************************************************************)
EXTENDS Integers, FiniteSets

CONSTANTS Threads, Fds, MAX_CONNS

VARIABLES
  conns,    \* the connections the application holds
  waiting   \* the threads inside accept

vars == <<conns, waiting>>

Init == conns = {} /\ waiting = {}

Request(t) ==
  /\ t \notin waiting
  /\ waiting' = waiting \cup {t}
  /\ UNCHANGED conns

Grant(t, f) ==
  /\ t \in waiting /\ f \notin conns
  /\ Cardinality(conns) < MAX_CONNS
  /\ conns' = conns \cup {f}
  /\ waiting' = waiting \ {t}

\* accept may fail: the process is out of descriptors
Refuse(t) ==
  /\ t \in waiting
  /\ waiting' = waiting \ {t}
  /\ UNCHANGED conns

Release(f) ==
  /\ f \in conns
  /\ conns' = conns \ {f}
  /\ UNCHANGED waiting

Next ==
  \/ \E t \in Threads : Request(t) \/ Refuse(t)
  \/ \E t \in Threads, f \in Fds : Grant(t, f)
  \/ \E f \in Fds : Release(f)

Spec == Init /\ [][Next]_vars

\* Some waiting acceptor is served while there is room; which one is left open,
\* for a semaphore does not queue its waiters.
FairSpec == Spec /\ WF_vars(\E t \in Threads, f \in Fds : Grant(t, f))
=============================================================================
