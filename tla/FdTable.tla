------------------------------ MODULE FdTable ------------------------------
(***************************************************************************)
(* The metadata libdesock keeps per file descriptor (src/include/desock.h, *)
(* src/desock.c) and the tests and updates every hooked function applies   *)
(* to it.  The table itself is a variable of the modules that extend this  *)
(* one; here are its entries and the functions from a table to a table.    *)
(***************************************************************************)
EXTENDS Integers, FiniteSets

CONSTANTS
  FD_TABLE_SIZE,  \* build option fd_table_size: descriptors below it have an entry
  NOFILE,         \* the kernel's limit: it only hands out descriptors below it
  Epolls          \* descriptors of the application's epoll instances

(* meson_options.txt gives fd_table_size a minimum of 3.  A zeroed entry has
   epfd 0, so an instance on descriptor 0 would be confused with "none"; an
   instance number is only ever compared, never used as an index.           *)
ASSUME FdTableAssumption ==
  /\ FD_TABLE_SIZE \in Nat /\ FD_TABLE_SIZE >= 3
  /\ NOFILE \in Nat /\ NOFILE >= 3
  /\ Epolls \subseteq Nat \ {0}

Fds      == 0 .. NOFILE - 1
TableFds == 0 .. FD_TABLE_SIZE - 1
NoFd     == -1

(* AF_UNSPEC is the 0 of the zeroed table, "cleared" the -1 of a cleared entry. *)
Supported == {"AF_INET", "AF_INET6"}
Domains   == Supported \cup {"AF_UNIX", "AF_UNSPEC", "cleared"}

Entry ==
  [domain    : Domains,
   desock    : {0, 1},
   listening : {0, 1},
   epfd      : Epolls \cup {-1, 0},
   oneshot   : BOOLEAN,               \* EPOLLONESHOT in ep_event.events
   data      : Fds]                    \* ep_event.data: the fd the application put there

Table == [TableFds -> Entry]

\* static storage: every field of every entry is zero
ZeroedEntry ==
  [domain |-> "AF_UNSPEC", desock |-> 0, listening |-> 0,
   epfd |-> 0, oneshot |-> FALSE, data |-> 0]

VALID_FD(f) == f \in TableFds

DESOCK_FD(table, f) == VALID_FD(f) /\ table[f].desock = 1

LISTENING_FD(table, f) == DESOCK_FD(table, f) /\ table[f].listening = 1

\* seeded fault: any entry will do
has_any_domain(table, f) == VALID_FD(f)

has_supported_domain(table, f) == VALID_FD(f) /\ table[f].domain \in Supported

\* seeded fault: desock is not reset
clear_fd_table_entry_desocked(e) ==
  [e EXCEPT !.domain = "cleared", !.listening = 0, !.epfd = -1]

\* ep_event is the one part of an entry that clearing leaves as it was.
clear_fd_table_entry(e) ==
  [e EXCEPT !.domain = "cleared", !.desock = 0, !.listening = 0, !.epfd = -1]

\* seeded fault: the arguments the other way round
clone_fd_table_entry_swapped(table, to, from) == [table EXCEPT ![from] = table[to]]

clone_fd_table_entry(table, to, from) == [table EXCEPT ![to] = table[from]]

(***************************************************************************)
(* epoll.c: the entries one call of do_wait looks at, and what it makes of *)
(* them.  Only descriptors below max_fd are scanned, and the scan stops    *)
(* once cnt events are filled in; a listening socket is only remembered.   *)
(***************************************************************************)
Registered(table, ep, max_fd) ==
  {f \in TableFds : f < max_fd /\ table[f].desock = 1 /\ table[f].epfd = ep}

\* the connections that get one of the cnt event slots, lowest descriptor first
Hits(table, ep, max_fd, cnt) ==
  LET streams == {f \in Registered(table, ep, max_fd) : table[f].listening = 0}
  IN  {f \in streams : Cardinality({g \in streams : g <= f}) <= cnt}

\* seeded fault: j + 1 < cnt
WaitServer_short(table, ep, max_fd, cnt) ==
  LET servers == {f \in Registered(table, ep, max_fd) : table[f].listening = 1}
  IN  IF Cardinality(Hits(table, ep, max_fd, cnt)) + 1 >= cnt THEN {}
      ELSE {f \in servers : \A g \in servers : g <= f}

\* server_sock of do_wait: the highest listening descriptor, unless the slots
\* ran out (then the code skips the server, seen or not)
WaitServer(table, ep, max_fd, cnt) ==
  LET servers == {f \in Registered(table, ep, max_fd) : table[f].listening = 1}
  IN  IF Cardinality(Hits(table, ep, max_fd, cnt)) = cnt THEN {}
      ELSE {f \in servers : \A g \in servers : g <= f}

\* EPOLLONESHOT: a reported registration is dropped
disarm_oneshot(table, fs) ==
  [f \in TableFds |->
     IF f \in fs /\ table[f].oneshot THEN [table[f] EXCEPT !.epfd = -1] ELSE table[f]]
=============================================================================
