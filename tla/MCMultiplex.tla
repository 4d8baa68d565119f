---------------------------- MODULE MCMultiplex ----------------------------
(***************************************************************************)
(* Tables, arrays, sets, timeouts and kernels on which TLC checks          *)
(* Multiplex.                                                              *)
(***************************************************************************)
EXTENDS Multiplex, TLC

OneEpoll == {100}

Plain == [ZeroedEntry EXCEPT !.domain = "AF_INET"]
Conn(once) ==
  [domain |-> "AF_INET", desock |-> 1, listening |-> 0, epfd |-> 100, oneshot |-> once, data |-> 4]
Listener == [Conn(TRUE) EXCEPT !.listening = 1, !.data = 3]

Tab(e3, e4, e5) ==
  [fd_table |-> [f \in TableFds |-> CASE f = 3 -> e3 [] f = 4 -> e4 [] f = 5 -> e5 [] OTHER -> ZeroedEntry],
   max_fd   |-> 6]

\* descriptors 3 to 5: a listener, connections, two listeners, a connection below one
SmallTables ==
  {Tab(Listener, Conn(TRUE), Conn(FALSE)), Tab(Listener, Plain, ZeroedEntry),
   Tab(Conn(FALSE), Listener, Listener), Tab(Plain, Conn(TRUE), ZeroedEntry)}

\* an array of descriptors, all asking for the same; revents is what was left there
Array(s, evs) == [k \in 0 .. Len(s) - 1 |-> [fd |-> s[k + 1], events |-> evs, revents |-> {"pri"}]]

Arrays ==
  {Array(<<3>>, {"in"}), Array(<<3, 4>>, {"in", "out", "pri"}), Array(<<5, 3>>, {"in"}),
   Array(<<4, -1, 4>>, {"in", "out"}), Array(<<0, 6>>, {"in"}), Array(<<3, 4>>, {"out"}),
   <<>>}

Sel(n, rs, ws) == [n |-> n, rfds |-> rs, wfds |-> ws, efds |-> {3, 0}]
SmallSelects ==
  {Sel(6, {3}, {}), Sel(6, {3, 4, 5}, {4}), Sel(5, {0, 4, 5}, {3, 5}), Sel(6, {}, {3}),
   Sel(4, {4}, {4}), Sel(0, {}, {}), Sel(6, {0, 3}, {1})}

SmallTimeouts ==
  {NoTimeout} \cup [sec : {-1, 0, 1, 3, 4, 5, 15}, usec : {-1, 0, 1, 5}]

Modern == {"poll", "ppoll", "select", "pselect6", "epoll_pwait", "socket function"}
SmallBuilds ==
  {[arch |-> "x86_64", kernel |-> Modern, long64 |-> TRUE, socketcall |-> FALSE,
    select |-> TRUE, time64 |-> "none"],
   [arch |-> "aarch64", kernel |-> Modern, long64 |-> TRUE, socketcall |-> FALSE,
    select |-> FALSE, time64 |-> "none"],
   [arch |-> "i386", kernel |-> {"poll", "select", "socketcall"}, long64 |-> FALSE,
    socketcall |-> TRUE, select |-> TRUE, time64 |-> "separate"],
   [arch |-> "mips", kernel |-> Modern \cup {"pselect6_time64"}, long64 |-> FALSE,
    socketcall |-> FALSE, select |-> TRUE, time64 |-> "separate"],
   [arch |-> "mips", kernel |-> {"poll", "select"}, long64 |-> FALSE,
    socketcall |-> FALSE, select |-> TRUE, time64 |-> "separate"],
   [arch |-> "powerpc", kernel |-> {"poll", "select", "socketcall"}, long64 |-> FALSE,
    socketcall |-> TRUE, select |-> TRUE, time64 |-> "separate"],
   [arch |-> "powerpc64", kernel |-> Modern, long64 |-> TRUE, socketcall |-> TRUE,
    select |-> TRUE, time64 |-> "none"]}

SmallAnswers == {0, 2, -EINTR}
=============================================================================
