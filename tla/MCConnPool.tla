----------------------------- MODULE MCConnPool ----------------------------
(***************************************************************************)
(* Small applications on which TLC checks ConnPool: which thread makes     *)
(* which calls.  The .cfg of a run picks one of them and the build options.*)
(***************************************************************************)
EXTENDS ConnPool, TLC

CONSTANTS t1, t2, t3, t4

Setup    == {"socket", "bind", "listen"}
Tcp      == {"AF_INET"}
TcpLocal == {"AF_INET6", "AF_UNIX"}
OneEpoll == {100}

\* two acceptors, the first of which sets the listener up, and two closers
CallsBlocking ==
  t1 :> (Setup \cup {"accept"}) @@ t2 :> {"accept", "getname"} @@ t3 :> {"close"} @@ t4 :> {"close"}

\* an event loop and a thread that closes the connections it is handed
CallsEventLoop ==
  t1 :> (Setup \cup {"accept", "poll", "select", "epoll_ctl", "epoll_wait"}) @@ t2 :> {"close"}

\* sockets and copies of descriptors in one thread, in any order; the other opens
\* files and closes whatever it gets hold of
CallsAny ==
  t1 :> (Setup \cup {"connect", "accept", "dup", "dup2", "close"})
  @@ t2 :> {"open", "close", "close_socket"}

\* tests/test_threads.c: main accepts, a thread per connection closes it
CallsThreadsTest == t1 :> (Setup \cup {"accept"}) @@ t2 :> {"close"}

\* two workers, each polling the same listener, accepting and closing
CallsTwoPollers ==
  t1 :> (Setup \cup {"poll", "accept", "close"}) @@ t2 :> {"poll", "accept", "close"}

\* a server that copies a connection's descriptor and closes both
CallsDupClose == t1 :> (Setup \cup {"accept", "dup", "close"})
=============================================================================
