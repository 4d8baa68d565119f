------------------------------ MODULE Multiplex ------------------------------
(***************************************************************************)
(* One call of poll, ppoll, select, pselect, epoll_wait, epoll_pwait or    *)
(* epoll_pwait2, step by step, while other threads change the table and    *)
(* the semaphore: the scan, descriptor by descriptor, the semaphore, what  *)
(* the application is given, and the system calls made when nothing is     *)
(* desocketed.  ConnPool takes each scan in one step; here it is shown     *)
(* that this is what the loops come to.                                    *)
(*                                                                         *)
(* An iteration of a loop is one step.  Of the events of a poll, "in",     *)
(* "out" and "pri" are kept, of those of epoll none.                       *)
(***************************************************************************)
EXTENDS FdTable, Syscall

CONSTANTS
  Tables,         \* bound: the tables a run starts with, and their max_fd
  MaxToken,       \* bound: the largest value of the semaphore
  MaxOthers,      \* bound: how often other threads interfere in a run
  Polls,          \* bound: arrays given to poll
  Selects,        \* bound: n and the three sets given to select
  EventSlots,     \* bound: lengths of the arrays given to epoll_wait
  Timeouts,       \* bound: timeouts given to select; pselect's nanoseconds count as usec
  Builds,         \* architectures and kernels: see Syscall
  Answers         \* external: results of system calls

Events == {"in", "out", "pri"}

ASSUME MultiplexAssumption ==
  /\ MaxToken \in Nat /\ MaxOthers \in Nat
  /\ \A t \in Tables : t.fd_table \in Table /\ t.max_fd \in 0 .. FD_TABLE_SIZE
  /\ \A a \in Polls : /\ a \in [DOMAIN a -> [fd : Int, events : SUBSET Events, revents : SUBSET Events]]
                      /\ \A k \in DOMAIN a : k \in Nat /\ 0 .. k \subseteq DOMAIN a   \* no gaps
                      /\ IsFiniteSet(DOMAIN a)
  /\ \A s \in Selects : s.n \in Nat /\ s.rfds \cup s.wfds \cup s.efds \subseteq Nat
  /\ EventSlots \subseteq Nat \ {0}
  /\ \A tv \in Timeouts : {tv.sec, tv.usec} \subseteq Int
  /\ Answers \subseteq Int /\ \A v \in Answers : v > -4096 /\ v # -ENOSYS

VARIABLES
  sem, accept_block, fd_table, max_fd,
  pc, call,               \* the call under way, or the last one
  i, r, server_sock,      \* locals of the scan: r is r, ret or j
  fds, rfds, wfds, efds,  \* the array and the sets, which the call changes in place
  ev,                     \* data of the epoll events filled in
  trap,                   \* the system calls to try, and those the kernel carried out
  result,                 \* what the call returned, and errno
  others,                 \* how often other threads interfered
  before, touched, took   \* history: the table at the call, the entries others have
                          \*   written since, whether sem_wait got a token

lib    == <<sem, accept_block, fd_table, max_fd>>
locals == <<i, r, server_sock>>
out    == <<fds, rfds, wfds, efds, ev>>
back   == <<trap, result>>
hist   == <<others, before, touched>>
vars   == <<lib, pc, call, locals, out, back, hist, took>>

PollFns   == {"poll", "ppoll"}
SelectFns == {"select", "pselect"}
EpollFns  == {"epoll_wait", "epoll_pwait", "epoll_pwait2"}

NoCall   == [fn |-> "none"]
NoTrap   == [plan |-> <<>>, build |-> "none", next |-> 1, served |-> <<>>]
Traps(b, plan) == [plan |-> plan, build |-> b, next |-> 1, served |-> <<>>]
NoResult == [ret |-> 0, errno |-> 0]

Init ==
  /\ sem \in 0 .. MaxToken /\ accept_block = 1
  /\ \E t \in Tables : fd_table = t.fd_table /\ max_fd = t.max_fd
  /\ pc = "idle" /\ call = NoCall
  /\ i = 0 /\ r = 0 /\ server_sock = -1
  /\ fds = <<>> /\ rfds = {} /\ wfds = {} /\ efds = {} /\ ev = <<>>
  /\ trap = NoTrap /\ result = NoResult
  /\ others = 0 /\ before = fd_table /\ touched = {} /\ took = "no"
-----------------------------------------------------------------------------
(* Calls *)

\* the application has looked at the result
NextCall ==
  /\ pc = "done" /\ pc' = "idle" /\ call' = NoCall
  /\ i' = 0 /\ r' = 0 /\ server_sock' = -1
  /\ fds' = <<>> /\ rfds' = {} /\ wfds' = {} /\ efds' = {} /\ ev' = <<>>
  /\ trap' = NoTrap /\ result' = NoResult
  /\ before' = fd_table /\ touched' = {} /\ took' = "no"
  /\ UNCHANGED <<lib, others>>

Begin(c, l) ==
  /\ pc = "idle" /\ pc' = l /\ call' = c
  /\ UNCHANGED <<lib, locals, ev, back, hist, took>>

PollCall ==
  \E fn \in PollFns, a \in Polls :
    /\ Begin([fn |-> fn], "scan")
    /\ fds' = a /\ UNCHANGED <<rfds, wfds, efds>>

SelectCall ==
  \E fn \in SelectFns, s \in Selects :
    /\ Begin([fn |-> fn, n |-> s.n, rfds |-> s.rfds, wfds |-> s.wfds, efds |-> s.efds,
              left |-> FALSE, tv |-> NoTimeout], "check")
    /\ rfds' = s.rfds /\ wfds' = s.wfds /\ efds' = s.efds /\ UNCHANGED fds

EpollWaitCall ==
  \E fn \in EpollFns, ep \in Epolls, cnt \in EventSlots :
    /\ Begin([fn |-> fn, ep |-> ep, cnt |-> cnt], "scan")
    /\ UNCHANGED <<fds, rfds, wfds, efds>>

\* any of the socket functions, on a descriptor that is not desocketed
SocketCall ==
  /\ pc = "idle" /\ pc' = "trap" /\ call' = [fn |-> "socketcall"]
  /\ \E b \in Builds : trap' = Traps(b, alt_socketcall(b, "socket function"))
  /\ UNCHANGED <<lib, locals, out, result, hist, took>>
-----------------------------------------------------------------------------
(* The loops *)

Tested(l) == pc' = l /\ UNCHANGED <<lib, call, back, hist, took>>

\* seeded fault: a listener keeps POLLOUT
PollMask_out(table, f) == IF DESOCK_FD(table, f) THEN {"in", "out"} ELSE {}

PollMask(table, f) ==
  IF ~DESOCK_FD(table, f) THEN {} ELSE IF LISTENING_FD(table, f) THEN {"in"} ELSE {"in", "out"}

PollScan ==
  /\ pc = "scan" /\ call.fn \in PollFns /\ i \in DOMAIN fds
  /\ LET f         == fds[i].fd
         listening == LISTENING_FD(fd_table, f)
     IN  /\ fds' = [fds EXCEPT ![i].revents = fds[i].events \cap PollMask(fd_table, f)]
         /\ r' = IF DESOCK_FD(fd_table, f) THEN r + 1 ELSE r
         /\ server_sock' = IF listening THEN i ELSE server_sock
  /\ i' = i + 1
  /\ Tested("scan") /\ UNCHANGED <<rfds, wfds, efds, ev>>

\* has_desock_fds
SelectCheck ==
  /\ pc = "check" /\ i < call.n
  /\ IF i \in rfds \cup wfds /\ DESOCK_FD(fd_table, i)
     THEN Tested("scan") /\ i' = 0 ELSE Tested("check") /\ i' = i + 1
  /\ UNCHANGED <<r, server_sock, out>>

SelectScan ==
  /\ pc = "scan" /\ call.fn \in SelectFns /\ i < call.n
  /\ LET reads  == i \in rfds /\ DESOCK_FD(fd_table, i)
         writes == i \in wfds /\ DESOCK_FD(fd_table, i) /\ ~LISTENING_FD(fd_table, i)
     IN  /\ rfds' = IF reads THEN rfds ELSE rfds \ {i}
         /\ wfds' = IF writes THEN wfds ELSE wfds \ {i}
         /\ r' = r + (IF reads THEN 1 ELSE 0) + (IF writes THEN 1 ELSE 0)
         /\ server_sock' = IF reads /\ LISTENING_FD(fd_table, i) THEN i ELSE server_sock
  /\ i' = i + 1
  /\ Tested("scan") /\ UNCHANGED <<fds, efds, ev>>

\* seeded fault: j < cnt is not tested
MoreEntries_overfull(n) == i < max_fd

\* n events have been filled in
MoreEntries(n) == i < max_fd /\ n < call.cnt

EpollScan ==
  /\ pc = "scan" /\ call.fn \in EpollFns /\ MoreEntries(r)
  /\ LET found  == fd_table[i].desock = 1 /\ fd_table[i].epfd = call.ep
         stream == found /\ fd_table[i].listening = 0
     IN  /\ server_sock' = IF found /\ ~stream THEN i ELSE server_sock
         /\ ev' = IF stream THEN Append(ev, fd_table[i].data) ELSE ev
         /\ r' = IF stream THEN r + 1 ELSE r
         /\ fd_table' = IF stream THEN disarm_oneshot(fd_table, {i}) ELSE fd_table
  /\ i' = i + 1
  /\ UNCHANGED <<sem, accept_block, max_fd, pc, call, fds, rfds, wfds, efds, back, hist, took>>

\* the loop is over; select also empties efds
Scanned ==
  /\ pc = "scan"
  /\ CASE call.fn \in PollFns   -> i \notin DOMAIN fds
       [] call.fn \in SelectFns -> i >= call.n
       [] call.fn \in EpollFns  -> ~MoreEntries(r)
  /\ efds' = IF call.fn \in SelectFns THEN {} ELSE efds
  /\ LET server == server_sock > -1 /\ (call.fn \in EpollFns => r < call.cnt)
     IN  Tested(IF server THEN "arm" ELSE "return")
  /\ UNCHANGED <<locals, fds, rfds, wfds, ev>>
-----------------------------------------------------------------------------
(* The semaphore *)

\* seeded fault: accept_block stays as it is
Arm_not ==
  /\ pc = "arm" /\ pc' = "try"
  /\ UNCHANGED <<lib, call, locals, out, back, hist, took>>

Arm ==
  /\ pc = "arm" /\ pc' = "try"
  /\ accept_block' = 0
  /\ UNCHANGED <<sem, fd_table, max_fd, call, locals, out, back, hist, took>>

Took(how) ==
  /\ took' = how
  /\ pc' = IF call.fn \in EpollFns THEN "report" ELSE "return"
  /\ UNCHANGED <<accept_block, fd_table, max_fd, call, locals, out, back, hist>>

\* seeded faults: the test of epoll in poll and select, and the other way round
SleepsAt_zero(n) == n <= 0
SleepsAt_one(n)  == n <= 1

\* r counts the server socket in poll and select, not in epoll
SleepsAt(n) == IF call.fn \in EpollFns THEN n <= 0 ELSE n <= 1

TryWait ==
  /\ pc = "try"
  /\ \/ sem > 0 /\ sem' = sem - 1 /\ Took("token")
     \/ /\ sem = 0
        /\ Tested(IF SleepsAt(r) THEN "sem_wait" ELSE "give_up") /\ UNCHANGED <<locals, out>>

SemWait ==
  /\ pc = "sem_wait" /\ sem > 0
  /\ sem' = sem - 1 /\ Took("token")

SemWaitInterrupted == pc = "sem_wait" /\ Took("signal") /\ UNCHANGED sem

\* seeded fault: the server socket stays counted
GiveUp_counted ==
  /\ pc = "give_up" /\ pc' = "return"
  /\ accept_block' = 1
  /\ fds' = IF call.fn \in PollFns THEN [fds EXCEPT ![server_sock].revents = {}] ELSE fds
  /\ rfds' = IF call.fn \in SelectFns THEN rfds \ {server_sock} ELSE rfds
  /\ UNCHANGED <<sem, fd_table, max_fd, call, locals, wfds, efds, ev, back, hist, took>>

GiveUp ==
  /\ pc = "give_up" /\ pc' = "return"
  /\ accept_block' = 1
  /\ fds' = IF call.fn \in PollFns THEN [fds EXCEPT ![server_sock].revents = {}] ELSE fds
  /\ rfds' = IF call.fn \in SelectFns THEN rfds \ {server_sock} ELSE rfds
  /\ r' = IF call.fn \in EpollFns THEN r ELSE r - 1
  /\ UNCHANGED <<sem, fd_table, max_fd, call, i, server_sock, wfds, efds, ev, back, hist, took>>

\* epoll: what the entry of the server socket holds by now
EpollReport ==
  /\ pc = "report" /\ pc' = "return"
  /\ ev' = Append(ev, fd_table[server_sock].data) /\ r' = r + 1
  /\ fd_table' = disarm_oneshot(fd_table, {server_sock})
  /\ UNCHANGED <<sem, accept_block, max_fd, call, i, server_sock, fds, rfds, wfds, efds,
                 back, hist, took>>
-----------------------------------------------------------------------------
(* The end of the call, or the kernel's turn *)

ReturnFound ==
  /\ pc = "return" /\ pc' = "done"
  /\ r > 0 \/ call.fn \in SelectFns
  /\ result' = [ret |-> r, errno |-> 0]
  /\ UNCHANGED <<lib, call, locals, out, trap, hist, took>>

epoll_pwait2_unsupported ==
  /\ pc = "return" /\ pc' = "done"
  /\ r = 0 /\ call.fn = "epoll_pwait2"
  /\ result' = [ret |-> -1, errno |-> ENOSYS]
  /\ UNCHANGED <<lib, call, locals, out, trap, hist, took>>

Leave(b, plan) ==
  /\ pc' = "trap"
  /\ trap' = Traps(b, plan)
  /\ UNCHANGED <<lib, locals, out, result, hist, took>>

PollOrEpollToKernel ==
  /\ pc = "return" /\ r = 0 /\ call.fn \in {"poll", "ppoll", "epoll_wait", "epoll_pwait"}
  /\ \E b \in Builds :
       Leave(b, <<Try(IF call.fn \in PollFns THEN call.fn ELSE "epoll_pwait", NoTimeout)>>)
  /\ UNCHANGED call

WithTimeout(c, tv) ==
  [fn |-> c.fn, n |-> c.n, rfds |-> c.rfds, wfds |-> c.wfds, efds |-> c.efds, left |-> TRUE, tv |-> tv]

\* musl_select; its timeout matters from here on
SelectToKernel ==
  /\ pc = "check" /\ i >= call.n
  /\ \E tv \in Timeouts :
       /\ call' = WithTimeout(call, tv)
       /\ \/ /\ tv.sec < 0 \/ tv.usec < 0
             /\ pc' = "done" /\ result' = syscall_ret(-EINVAL)
             /\ UNCHANGED <<lib, locals, out, trap, hist, took>>
          \/ /\ tv.sec >= 0 /\ tv.usec >= 0
             /\ \E b \in Builds : Leave(b, musl_select(b, tv))

\* the next system call: ENOSYS if the kernel lacks it, and then the one after it is tried
Trap ==
  /\ pc = "trap"
  /\ LET try == trap.plan[trap.next]
         has == try.nr \in trap.build.kernel
     IN  \E v \in IF ~has THEN {-ENOSYS} ELSE IF try.timeout.sec < 0 THEN {-EINVAL} ELSE Answers :
           LET ret  == syscall(trap.build.arch, v)
               more == ret = -ENOSYS /\ trap.next < Len(trap.plan)
               this == IF has THEN <<[try |-> try, v |-> v]>> ELSE <<>>
           IN  /\ trap' = [plan |-> trap.plan, build |-> trap.build,
                           next |-> IF more THEN trap.next + 1 ELSE trap.next,
                           served |-> trap.served \o this]
               /\ pc' = IF more THEN "trap" ELSE "done"
               /\ result' = IF more THEN result ELSE syscall_ret(ret)
  /\ UNCHANGED <<lib, call, locals, out, hist, took>>
-----------------------------------------------------------------------------
(* Other threads: accept and the multiplexers take a token, close posts one   *)
(* and clears its entry, accept gives a free entry to a connection, epoll_ctl  *)
(* drops a registration.  accept_block is written by a call, never read.       *)

OtherTakes ==
  /\ sem > 0 /\ sem' = sem - 1 /\ others' = others + 1
  /\ UNCHANGED <<fd_table, max_fd, touched>>

OtherPosts ==
  /\ sem < MaxToken /\ sem' = sem + 1
  /\ UNCHANGED <<fd_table, max_fd, others, touched>>

OtherWrites ==
  /\ others' = others + 1
  /\ \E f \in TableFds :
       /\ touched' = touched \cup {f}
       /\ \/ /\ fd_table[f].desock = 1
             /\ \/ fd_table' = [fd_table EXCEPT ![f] = clear_fd_table_entry(@)]
                \/ fd_table' = [fd_table EXCEPT ![f].epfd = -1]
             /\ UNCHANGED max_fd
          \/ /\ fd_table[f].desock = 0 /\ f > 2
             /\ \E l \in TableFds :
                  /\ LISTENING_FD(fd_table, l)
                  /\ fd_table' = [clone_fd_table_entry(fd_table, f, l) EXCEPT ![f].listening = 0]
             /\ max_fd' = IF f + 1 > max_fd THEN f + 1 ELSE max_fd
  /\ UNCHANGED sem

OtherThreads ==
  /\ pc \in {"check", "scan", "arm", "try", "sem_wait", "give_up", "report"}
  /\ OtherPosts \/ (others < MaxOthers /\ (OtherTakes \/ OtherWrites))
  /\ UNCHANGED <<accept_block, pc, call, locals, out, back, before, took>>
-----------------------------------------------------------------------------
Step ==
  \/ PollScan \/ SelectCheck \/ SelectScan \/ EpollScan \/ Scanned
  \/ Arm \/ TryWait \/ SemWait \/ SemWaitInterrupted \/ GiveUp \/ EpollReport
  \/ ReturnFound \/ epoll_pwait2_unsupported \/ PollOrEpollToKernel \/ SelectToKernel \/ Trap

Next == NextCall \/ PollCall \/ SelectCall \/ EpollWaitCall \/ SocketCall \/ Step \/ OtherThreads

Spec == Init /\ [][Next]_vars
-----------------------------------------------------------------------------
(* Properties *)

\* Every local stays within the array it indexes: do_poll writes to fds[server_sock], do_wait
\* to ev[j] with j below cnt.
TypeOK ==
  /\ sem \in 0 .. MaxToken /\ accept_block \in {0, 1}
  /\ fd_table \in Table /\ max_fd \in 0 .. FD_TABLE_SIZE
  /\ pc \in {"idle", "done", "check", "scan", "arm", "try", "sem_wait", "give_up", "report", "return", "trap"}
  /\ call.fn \in PollFns => server_sock \in (DOMAIN fds) \cup {-1} /\ r <= Cardinality(DOMAIN fds)
  /\ call.fn \in EpollFns => server_sock \in TableFds \cup {-1} /\ r = Len(ev) /\ r <= call.cnt
  /\ \A k \in DOMAIN fds : fds[k].revents \subseteq Events
  /\ rfds \cup wfds \cup efds \subseteq Nat
  /\ trap.next \in 1 .. Len(trap.plan) + 1
  /\ took \in {"no", "token", "signal"} /\ touched \subseteq TableFds

\* the call was answered by the library
Answered == pc = "done" /\ call.fn \in PollFns \cup SelectFns \cup EpollFns /\ trap = NoTrap
            /\ (call.fn \in SelectFns => ~call.left)

\* the server socket was not reported: there was no token, and something else was found
Withheld(k) == k = server_sock /\ took = "no"

PollExact ==
  \A k \in DOMAIN fds :
    LET f == fds[k].fd
    IN  f \notin touched =>
          fds[k].revents = {e \in fds[k].events :
                              /\ DESOCK_FD(before, f) /\ ~Withheld(k)
                              /\ e = "in" \/ (e = "out" /\ ~LISTENING_FD(before, f))}

SelectExact ==
  /\ \A f \in call.rfds \ touched :
       f \in rfds <=> f >= call.n \/ (DESOCK_FD(before, f) /\ ~Withheld(f))
  /\ \A f \in call.wfds \ touched :
       f \in wfds <=> f >= call.n \/ (DESOCK_FD(before, f) /\ ~LISTENING_FD(before, f))
  /\ rfds \subseteq call.rfds /\ wfds \subseteq call.wfds /\ efds = {}

EpollExact ==
  LET hits    == Hits(before, call.ep, max_fd, call.cnt)
      servers == IF took = "no" THEN {} ELSE WaitServer(before, call.ep, max_fd, call.cnt)
  IN  /\ Len(ev) = Cardinality(hits) + Cardinality(servers)
      /\ \A f \in hits : ev[Cardinality({g \in hits : g <= f})] = before[f].data
      /\ \A f \in servers : ev[Len(ev)] = before[f].data
      /\ fd_table = disarm_oneshot(before, hits \cup servers)

\* Whatever other threads do during a call, what it reports of a descriptor whose entry
\* they leave alone is what the entry says; so the loops of poll, select and do_wait come
\* to the single step ConnPool takes for them.  A call left to the kernel passes it the
\* arguments of the application as they were.
ReportIsExact ==
  /\ Answered /\ call.fn \in PollFns => PollExact
  /\ Answered /\ call.fn \in SelectFns => SelectExact
  /\ Answered /\ call.fn \in EpollFns /\ touched = {} => EpollExact
  /\ call.fn \in SelectFns /\ call.left => rfds = call.rfds /\ wfds = call.wfds /\ efds = call.efds

\* However the table changes during the call, the number returned is the number of
\* descriptors reported: an application that stops looking after that many misses none.
\* poll also counts a desocketed descriptor of which it was asked nothing it can serve.
CountIsReport ==
  Answered /\ result.errno = 0 =>
    CASE call.fn \in PollFns ->
           (\A k \in DOMAIN fds : "in" \in fds[k].events) =>
             result.ret = Cardinality({k \in DOMAIN fds : fds[k].revents # {}})
      [] call.fn \in SelectFns ->
           result.ret = Cardinality({f \in rfds : f < call.n}) + Cardinality({f \in wfds : f < call.n})
      [] call.fn \in EpollFns -> result.ret = Len(ev)

ServerReported ==
  CASE call.fn \in PollFns   -> "in" \in fds[server_sock].revents
    [] call.fn \in SelectFns -> server_sock \in rfds
    [] call.fn \in EpollFns  -> took # "no"

\* A listener was found: it is reported if and only if a token was taken (or the wait for
\* one interrupted), and accept_block tells the next accept which of the two it was.
TokenForReport ==
  Answered /\ server_sock > -1 /\ (call.fn \in EpollFns => took # "no" \/ r < call.cnt) =>
    /\ accept_block = (IF took = "no" THEN 1 ELSE 0)
    /\ (call.fn \in PollFns => "in" \in fds[server_sock].events) => (ServerReported <=> took # "no")

\* A call sleeps until a connection is closed only if it has nothing else to report.
NeverSleepsWithWork ==
  pc = "sem_wait" =>
    CASE call.fn \in PollFns   -> \A k \in DOMAIN fds : k # server_sock => fds[k].revents = {}
      [] call.fn \in SelectFns -> {f \in rfds \cup wfds : f < call.n} = {server_sock}
      [] call.fn \in EpollFns  -> ev = <<>>

\* A call that found nothing leaves the waiting to the kernel, so that an event loop does
\* not spin.  Only select may return 0 itself: when another thread closes what has_desock_fds
\* saw, or when a listener is asked for in wfds alone.
ZeroIsTheKernels ==
  Answered /\ result.ret = 0 =>
    /\ call.fn \in SelectFns
    /\ \/ touched # {}
       \/ \E f \in call.wfds : LISTENING_FD(before, f)

\* A call that is left to the kernel is carried out at most once, and exactly once if the
\* kernel has one of the system calls that are tried; the application gets the kernel's
\* answer, or -1 and its error in errno, on every architecture.
CarriedOutOnce ==
  pc = "done" /\ trap.plan # <<>> =>
    LET known == {k \in DOMAIN trap.plan : trap.plan[k].nr \in trap.build.kernel}
        v     == IF known = {} THEN -ENOSYS ELSE trap.served[1].v
    IN  /\ Len(trap.served) = (IF known = {} THEN 0 ELSE 1)
        /\ result = (IF v < 0 THEN [ret |-> -1, errno |-> -v] ELSE [ret |-> v, errno |-> 0])

\* in nanoseconds: a time, what select and pselect are asked to wait, the largest time_t
Nanos(sec, nsec) == sec * MILLION * THOUSAND + nsec
Asked(fn, tv)    == Nanos(tv.sec, IF fn = "select" THEN tv.usec * THOUSAND ELSE tv.usec)
Longest          == Nanos(TIME_MAX, (MILLION - 1) * THOUSAND)

\* select waits in the kernel exactly as long as it was asked to, up to the largest time_t.
\* pselect, whose nanoseconds are taken for microseconds, never waits for a shorter time.
\* (Unless a long is shorter than a time_t and the kernel has no pselect6_time64: then the
\* seconds are cut off, as CLAMP is not applied.)
WaitsAsAsked ==
  \A k \in DOMAIN trap.served :
    LET to    == trap.served[k].try.timeout
        waits == Nanos(to.sec, to.nsec)
    IN  /\ call.fn \in SelectFns /\ call.tv # NoTimeout
        /\ \/ trap.build.long64 \/ trap.served[k].try.nr = "pselect6_time64"
           \/ Nanos(call.tv.sec, call.tv.usec * THOUSAND) < Nanos(INT32_MAX + 1, 0)
        => IF call.fn = "select" /\ Asked(call.fn, call.tv) < Longest
           THEN waits = Asked(call.fn, call.tv)
           ELSE waits >= Asked(call.fn, call.tv) \/ waits >= Longest
=============================================================================
