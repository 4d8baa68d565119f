------------------------------ MODULE ConnPool -----------------------------
(***************************************************************************)
(* libdesock's connection pool: the hooked socket calls of a process with  *)
(* several threads, the semaphore that limits how many connections are     *)
(* open at once, the flag with which poll/select/epoll hand a connection   *)
(* to the next accept, and the table of descriptors.                       *)
(*                                                                         *)
(* A call is cut where it reads or writes what other threads share (sem,   *)
(* accept_block, max_fd, the table, the kernel's descriptors), so threads  *)
(* interleave at those points; a call that touches one of them once is one *)
(* step.  The kernel's descriptor table and the application's own view of  *)
(* its descriptors are external and modelled from how src/ uses them.      *)
(***************************************************************************)
EXTENDS FdTable

CONSTANTS
  Threads,        \* threads of the application
  MAX_CONNS,      \* build option max_conns
  DUP_STDIN,      \* build option: dup2 may replace stdin
  Calls,          \* Calls[t]: the kinds of call thread t makes
  SockDomains,    \* domains the application passes to socket()
  Signals,        \* threads whose sem_wait a signal handler may interrupt
  AcceptsReported, \* the application accepts each reported connection, once, before
                  \*   it waits again
  RegistersConns, \* it calls epoll_ctl on every connection it accepts first of all
  MaxSockets,     \* bound: how many socket() and open() calls are made
  Oneshot,        \* whether epoll_ctl is passed EPOLLONESHOT: a subset of BOOLEAN
  StdTargets,     \* bound: which of 0, 1, 2 the application passes to dup2 as the target
  MaxEvents       \* bound: largest event array given to epoll_wait

CallKinds ==
  {"socket", "bind", "connect", "listen", "accept", "getname", "close", "close_socket",
   "dup", "dup2", "dup2_high", "open", "poll", "select", "epoll_ctl", "epoll_wait"}

ASSUME ConnPoolAssumption ==
  /\ IsFiniteSet(Threads) /\ Threads # {}
  /\ MAX_CONNS \in Nat /\ MAX_CONNS >= 1
  /\ {DUP_STDIN, AcceptsReported, RegistersConns} \subseteq BOOLEAN
  /\ Calls \in [Threads -> SUBSET CallKinds]
  /\ SockDomains \subseteq {"AF_INET", "AF_INET6", "AF_UNIX"}
  /\ Signals \subseteq Threads /\ Oneshot \subseteq BOOLEAN /\ StdTargets \subseteq 0 .. 2
  /\ MaxSockets \in Nat /\ MaxEvents \in Nat

VARIABLES
  sem,            \* value of the POSIX semaphore
  accept_block,   \* 0: a poll/select/epoll already took the token of the next accept
  fd_table,
  max_fd,
  kernel,         \* external: what each descriptor is for the kernel
  origin,         \* external: how the application got each descriptor it holds
  opened,         \* external: socket() and open() calls so far
  pc, call,       \* where each thread is, and in which function
  arg, new,       \* that function's descriptor argument and the one it creates
  ready           \* what poll/select/epoll_wait found; between calls, the listeners reported

lib  == <<sem, accept_block, fd_table, max_fd>>
app  == <<origin, opened>>
cpu  == <<pc, call, arg, new>>
vars == <<lib, kernel, app, cpu, ready>>

Labels ==
  {"idle", "block", "sem_wait", "set_block", "dup", "clone", "unlisten", "fill", "name",
   "copy", "check_max", "write_max", "getvalue", "post", "clear", "sysclose", "arm", "try",
   "unblock", "report"}
CallNames == {"none", "socket", "accept", "getname", "close", "dup", "poll", "select", "epoll_wait"}
Origins   == {"none", "socket", "listener", "conn", "copy", "file"}

TypeOK ==
  /\ sem \in Nat
  /\ accept_block \in {0, 1}
  /\ fd_table \in Table
  /\ max_fd \in 0 .. FD_TABLE_SIZE
  /\ kernel \in [Fds -> {"closed", "file", "sock"}]
  /\ origin \in [Fds -> Origins]
  /\ opened \in Nat
  /\ pc \in [Threads -> Labels]
  /\ call \in [Threads -> CallNames]
  /\ arg \in [Threads -> Fds \cup {NoFd}]
  /\ new \in [Threads -> Fds \cup {NoFd}]
  /\ ready \in [Threads -> SUBSET Fds]

\* __libdesock_init, with stdin, stdout and stderr open
Init ==
  /\ sem = MAX_CONNS
  /\ accept_block = 1
  /\ fd_table = [f \in TableFds |-> ZeroedEntry]
  /\ max_fd = 0
  /\ kernel = [f \in Fds |-> IF f <= 2 THEN "file" ELSE "closed"]
  /\ origin = [f \in Fds |-> "none"]
  /\ opened = 0
  /\ pc = [t \in Threads |-> "idle"]
  /\ call = [t \in Threads |-> "none"]
  /\ arg = [t \in Threads |-> NoFd]
  /\ new = [t \in Threads |-> NoFd]
  /\ ready = [t \in Threads |-> {}]
-----------------------------------------------------------------------------
(* The kernel and the application. *)

Conns        == {f \in Fds : origin[f] = "conn"}
Held         == {f \in Fds : origin[f] # "none"}
HeldDesocked == {f \in Held : DESOCK_FD(fd_table, f)}
InUse(f)     == \E t \in Threads : f \in {arg[t], new[t]}

\* open, socket and dup return the lowest descriptor that is free, if there is one
LowestFree == {f \in Fds : /\ kernel[f] = "closed"
                           /\ \A g \in Fds : g < f => kernel[g] # "closed"}

\* no entry of an epoll instance that a connection copied from its listener
OwnRegistration(f) == fd_table[f].epfd \in Epolls => fd_table[f].data = f

MayCall(t, kind) == pc[t] = "idle" /\ kind \in Calls[t]

\* Thread t enters function fn with argument f, to create g; its next step is l.
Enter(t, fn, f, g, l) ==
  /\ call' = [call EXCEPT ![t] = fn]
  /\ arg' = [arg EXCEPT ![t] = f]
  /\ new' = [new EXCEPT ![t] = g]
  /\ pc' = [pc EXCEPT ![t] = l]

Goto(t, l) == pc' = [pc EXCEPT ![t] = l] /\ UNCHANGED <<call, arg, new>>
Return(t)  == Enter(t, "none", NoFd, NoFd, "idle")

\* the descriptor a call returned now belongs to the application
HandOver(f, kind) == origin' = [origin EXCEPT ![f] = kind]

\* open(), pipe(), ...: a descriptor libdesock is not told of
OpenCall(t) ==
  /\ MayCall(t, "open") /\ opened < MaxSockets
  /\ opened' = opened + 1
  /\ \E f \in LowestFree : /\ kernel' = [kernel EXCEPT ![f] = "file"]
                           /\ HandOver(f, "file")
  /\ UNCHANGED <<lib, cpu, ready>>
-----------------------------------------------------------------------------
(* Seeded faults: what some of the actions below would be with a likely slip  *)
(* in the code.  No specification uses them; the table in the README says     *)
(* which property finds which one.                                            *)

\* accept without the accept_block test
AcceptBlockAlways(t) ==
  /\ pc[t] = "block" /\ Goto(t, "sem_wait")
  /\ UNCHANGED <<lib, kernel, app, ready>>

\* accept with the test the wrong way round
AcceptBlockInverted(t) ==
  /\ pc[t] = "block" /\ Goto(t, IF accept_block = 0 THEN "sem_wait" ELSE "set_block")
  /\ UNCHANGED <<lib, kernel, app, ready>>

\* a sem_wait that decrements without waiting
SemWaitUnguarded(t) ==
  /\ pc[t] = "sem_wait" /\ sem' = sem - 1
  /\ Goto(t, IF call[t] = "accept" THEN "set_block" ELSE "report")
  /\ UNCHANGED <<accept_block, fd_table, max_fd, kernel, app, ready>>

\* accept without fd_table[new_fd].listening = 0
AcceptCloneKeepsListening(t) ==
  /\ pc[t] = "clone" /\ Goto(t, "check_max")
  /\ fd_table' = clone_fd_table_entry(fd_table, new[t], arg[t])
  /\ UNCHANGED <<sem, accept_block, max_fd, kernel, app, ready>>

\* close without the sem_post
CloseLabelNoPost(f) == IF VALID_FD(f) THEN "clear" ELSE "sysclose"

\* close with sem_value < MAX_CONNS - 1, and with sem_value <= MAX_CONNS
CloseGetValueLow(t) ==
  /\ pc[t] = "getvalue" /\ Goto(t, IF sem < MAX_CONNS - 1 THEN "post" ELSE "clear")
  /\ UNCHANGED <<lib, kernel, app, ready>>
CloseGetValueHigh(t) ==
  /\ pc[t] = "getvalue" /\ Goto(t, IF sem <= MAX_CONNS THEN "post" ELSE "clear")
  /\ UNCHANGED <<lib, kernel, app, ready>>

\* a multiplexer without accept_block = 0
MuxArmNot(t) ==
  /\ pc[t] = "arm" /\ Goto(t, "try")
  /\ UNCHANGED <<lib, kernel, app, ready>>

\* sem_getvalue in place of sem_trywait
MuxTryPeeks(t) ==
  /\ pc[t] = "try"
  /\ \/ sem > 0 /\ Goto(t, "report")
     \/ sem = 0 /\ ready[t] = {} /\ Goto(t, "sem_wait")
     \/ sem = 0 /\ ready[t] # {} /\ Goto(t, "unblock")
  /\ UNCHANGED <<lib, kernel, app, ready>>
-----------------------------------------------------------------------------
(* socket, bind, connect, listen *)

SocketCall(t) ==
  /\ MayCall(t, "socket") /\ opened < MaxSockets
  /\ opened' = opened + 1
  /\ \E f \in LowestFree, d \in SockDomains :
       /\ kernel' = [kernel EXCEPT ![f] = "sock"]
       /\ \/ /\ VALID_FD(f)
             /\ fd_table' = [fd_table EXCEPT ![f] = [clear_fd_table_entry(@) EXCEPT !.domain = d]]
             /\ Enter(t, "socket", NoFd, f, "check_max")
             /\ UNCHANGED origin
          \/ /\ ~VALID_FD(f)
             /\ HandOver(f, "socket")
             /\ UNCHANGED <<fd_table, cpu>>
  /\ UNCHANGED <<sem, accept_block, max_fd, ready>>

\* bind and connect do the same; every other domain is left to the kernel.
MarkDesock(t, kind) ==
  /\ MayCall(t, kind)
  /\ \E f \in Held :
       /\ origin[f] = "socket" /\ has_supported_domain(fd_table, f)
       /\ fd_table' = [fd_table EXCEPT ![f].desock = 1]
  /\ UNCHANGED <<sem, accept_block, max_fd, kernel, app, cpu, ready>>

BindCall(t)    == MarkDesock(t, "bind")
ConnectCall(t) == MarkDesock(t, "connect")

ListenCall(t) ==
  /\ MayCall(t, "listen")
  /\ \E f \in HeldDesocked :
       /\ origin[f] = "socket"
       /\ fd_table' = [fd_table EXCEPT ![f].listening = 1]
       /\ HandOver(f, "listener")
  /\ UNCHANGED <<sem, accept_block, max_fd, kernel, opened, cpu, ready>>
-----------------------------------------------------------------------------
(* accept *)

\* An event loop accepts on a listener that was reported to it.
EventLoop(t) == Calls[t] \cap {"poll", "select", "epoll_wait"} # {}

AcceptCall(t) ==
  /\ MayCall(t, "accept")
  /\ \E f \in HeldDesocked :
       /\ LISTENING_FD(fd_table, f)
       /\ EventLoop(t) /\ AcceptsReported => f \in ready[t]
       /\ Enter(t, "accept", f, NoFd, "block")
  /\ UNCHANGED <<lib, kernel, app, ready>>

AcceptBlock(t) ==
  /\ pc[t] = "block"
  /\ Goto(t, IF accept_block = 1 THEN "sem_wait" ELSE "set_block")
  /\ UNCHANGED <<lib, kernel, app, ready>>

\* sem_wait of accept and of the three multiplexers
SemWait(t) ==
  /\ pc[t] = "sem_wait" /\ sem > 0
  /\ sem' = sem - 1
  /\ Goto(t, IF call[t] = "accept" THEN "set_block" ELSE "report")
  /\ UNCHANGED <<accept_block, fd_table, max_fd, kernel, app, ready>>

\* EINTR: no caller looks at the result of sem_wait
SemWaitInterrupted(t) ==
  /\ pc[t] = "sem_wait" /\ t \in Signals
  /\ Goto(t, IF call[t] = "accept" THEN "set_block" ELSE "report")
  /\ UNCHANGED <<lib, kernel, app, ready>>

AcceptSetBlock(t) ==
  /\ pc[t] = "set_block"
  /\ accept_block' = 1
  /\ ready' = [ready EXCEPT ![t] = @ \ {arg[t]}]   \* the report has been acted upon
  /\ Goto(t, "dup")
  /\ UNCHANGED <<sem, fd_table, max_fd, kernel, app>>

\* The listener was closed meanwhile, the process is out of descriptors, or the
\* new one has no entry: -1, and neither the token nor the descriptor is given back.
AcceptDupFails(t) ==
  /\ pc[t] = "dup"
  /\ \/ /\ kernel[arg[t]] = "closed" \/ LowestFree = {}
        /\ UNCHANGED kernel
     \/ /\ kernel[arg[t]] # "closed"
        /\ \E f \in LowestFree : ~VALID_FD(f) /\ kernel' = [kernel EXCEPT ![f] = kernel[arg[t]]]
  /\ Return(t)
  /\ UNCHANGED <<lib, app, ready>>

AcceptDup(t) ==
  /\ pc[t] = "dup" /\ kernel[arg[t]] # "closed"
  /\ \E f \in LowestFree :
       /\ VALID_FD(f)
       /\ kernel' = [kernel EXCEPT ![f] = kernel[arg[t]]]
       /\ Enter(t, call[t], arg[t], f, "clone")
  /\ UNCHANGED <<lib, app, ready>>

AcceptClone(t) ==
  /\ pc[t] = "clone"
  /\ fd_table' = clone_fd_table_entry(fd_table, new[t], arg[t])
  /\ Goto(t, "unlisten")
  /\ UNCHANGED <<sem, accept_block, max_fd, kernel, app, ready>>

\* Until here the copy passes for a listener.
AcceptUnlisten(t) ==
  /\ pc[t] = "unlisten"
  /\ fd_table' = [fd_table EXCEPT ![new[t]].listening = 0]
  /\ Goto(t, "fill")
  /\ UNCHANGED <<sem, accept_block, max_fd, kernel, app, ready>>

\* getpeername and getsockname, and recvfrom and recvmsg when they are asked for the
\* sender: tested with DESOCK_FD, then the entry is read.
GetNameCall(t) ==
  /\ MayCall(t, "getname")
  /\ \E f \in HeldDesocked : Enter(t, "getname", f, NoFd, "name")
  /\ UNCHANGED <<lib, kernel, app, ready>>

\* fill_sockaddr, in accept and in the calls above: the domain of the entry, by now,
\* selects the address that is copied to the application; for a domain that is not
\* supported the build may copy either.
FillSockaddr(t) ==
  /\ \/ pc[t] = "fill" /\ Goto(t, "check_max")
     \/ pc[t] = "name" /\ Return(t)
  /\ UNCHANGED <<lib, kernel, app, ready>>
-----------------------------------------------------------------------------
(* max_fd, in socket, accept, dup, dup2 and dup3: tested, then written.  Either
   way the call returns its new descriptor.                                   *)

Finish(t) ==
  /\ HandOver(new[t], IF call[t] = "accept" THEN "conn"
                      ELSE IF call[t] = "socket" THEN "socket" ELSE "copy")
  /\ Return(t)

CheckMax(t) ==
  /\ pc[t] = "check_max"
  /\ \/ new[t] + 1 > max_fd /\ Goto(t, "write_max") /\ UNCHANGED origin
     \/ new[t] + 1 <= max_fd /\ Finish(t)
  /\ UNCHANGED <<lib, kernel, opened, ready>>

\* seeded fault: max_fd = new_fd
WriteMaxShort(t) ==
  /\ pc[t] = "write_max" /\ max_fd' = new[t] /\ Finish(t)
  /\ UNCHANGED <<sem, accept_block, fd_table, kernel, opened, ready>>

WriteMax(t) ==
  /\ pc[t] = "write_max"
  /\ max_fd' = new[t] + 1
  /\ Finish(t)
  /\ UNCHANGED <<sem, accept_block, fd_table, kernel, opened, ready>>
-----------------------------------------------------------------------------
(* close: the application lets go of the descriptor when it makes the call *)

\* where close starts on descriptor f: an entry with a token, an entry, none
CloseLabel(f) ==
  IF ~VALID_FD(f) THEN "sysclose"
  ELSE IF fd_table[f].desock = 1 /\ fd_table[f].listening = 0 THEN "getvalue" ELSE "clear"

\* "close" is for what accept, dup and open returned, "close_socket" for what
\* socket() did; only the latter may hit a descriptor another thread waits on.
CloseCall(t) ==
  /\ \E f \in Held :
       /\ \/ /\ MayCall(t, "close")
             /\ origin[f] \in {"conn", "copy", "file"} /\ ~InUse(f)
             /\ RegistersConns /\ f \in Conns => OwnRegistration(f)
          \/ MayCall(t, "close_socket") /\ origin[f] \in {"socket", "listener"}
       /\ HandOver(f, "none")
       /\ Enter(t, "close", f, NoFd, CloseLabel(f))
  /\ UNCHANGED <<lib, kernel, opened, ready>>

CloseGetValue(t) ==
  /\ pc[t] = "getvalue"
  /\ Goto(t, IF sem < MAX_CONNS THEN "post" ELSE "clear")
  /\ UNCHANGED <<lib, kernel, app, ready>>

ClosePost(t) ==
  /\ pc[t] = "post"
  /\ sem' = sem + 1
  /\ Goto(t, "clear")
  /\ UNCHANGED <<accept_block, fd_table, max_fd, kernel, app, ready>>

CloseClear(t) ==
  /\ pc[t] = "clear"
  /\ fd_table' = [fd_table EXCEPT ![arg[t]] = clear_fd_table_entry(@)]
  /\ Goto(t, "sysclose")
  /\ UNCHANGED <<sem, accept_block, max_fd, kernel, app, ready>>

\* "Allow close() for every fd except stdin + stdout + stderr"
CloseSysClose(t) ==
  /\ pc[t] = "sysclose"
  /\ kernel' = IF arg[t] > 2 THEN [kernel EXCEPT ![arg[t]] = "closed"] ELSE kernel
  /\ Return(t)
  /\ UNCHANGED <<lib, app, ready>>
-----------------------------------------------------------------------------
(* dup, dup2, dup3 *)

DupCall(t) ==
  /\ MayCall(t, "dup")
  /\ \E f \in Held, g \in LowestFree :
       /\ kernel' = [kernel EXCEPT ![g] = kernel[f]]
       /\ \/ VALID_FD(f) /\ VALID_FD(g) /\ Enter(t, "dup", f, g, "copy") /\ UNCHANGED origin
          \/ ~(VALID_FD(f) /\ VALID_FD(g)) /\ HandOver(g, "copy") /\ UNCHANGED cpu
  /\ UNCHANGED <<lib, opened, ready>>

\* dup2 leaves the kernel's stdout, and stdin unless DUP_STDIN, as they are.
ReplacedByKernel(g) == g > 1 \/ (DUP_STDIN /\ g = 0)

\* "dup2_high": the source may be a descriptor above the table
Dup2Call(t) ==
  /\ MayCall(t, "dup2")
  /\ \E f \in Held, g \in StdTargets \cup Held :
       /\ f # g /\ ~InUse(g) /\ (VALID_FD(f) \/ "dup2_high" \in Calls[t])
       /\ kernel' = IF ReplacedByKernel(g) THEN [kernel EXCEPT ![g] = kernel[f]] ELSE kernel
       /\ \/ VALID_FD(f) /\ VALID_FD(g) /\ HandOver(g, "none") /\ Enter(t, "dup", f, g, "copy")
          \/ ~(VALID_FD(f) /\ VALID_FD(g)) /\ HandOver(g, "copy") /\ UNCHANGED cpu
  /\ UNCHANGED <<lib, opened, ready>>

CopyEntry(t) ==
  /\ pc[t] = "copy"
  /\ fd_table' = clone_fd_table_entry(fd_table, new[t], arg[t])
  /\ Goto(t, "check_max")
  /\ UNCHANGED <<sem, accept_block, max_fd, kernel, app, ready>>
-----------------------------------------------------------------------------
(* poll, select, epoll *)

\* An application that accepts what is reported sets its sockets up before it waits,
\* and waits again only when no reported listener is left to accept on.
MayWait(t, kind) ==
  /\ MayCall(t, kind)
  /\ AcceptsReported => /\ \A f \in Held : origin[f] # "socket"
                        /\ \A f \in ready[t] : ~LISTENING_FD(fd_table, f)
  /\ RegistersConns => \A f \in Conns : OwnRegistration(f)

\* The application reads a reported connection at once, which the pool is not part
\* of; a reported listener is there to be accepted on.
Report(t, found) == ready' = [ready EXCEPT ![t] = {f \in found : LISTENING_FD(fd_table, f)}]

\* What every multiplexer does after its scan: without a server socket it returns
\* the descriptors found, else one of the servers goes through the handshake below.
Scanned(t, fn, found, servers) ==
  \/ servers = {} /\ Report(t, found) /\ UNCHANGED cpu
  \/ /\ \E s \in servers : Enter(t, fn, s, NoFd, "arm")
     /\ ready' = [ready EXCEPT ![t] = found]

\* poll, ppoll: any of the listeners may come last in the array and be server_sock;
\* the others are reported without a token.  Other descriptors get revents 0.
PollCall(t) ==
  /\ MayWait(t, "poll")
  /\ \E polled \in SUBSET HeldDesocked :
       LET servers == {f \in polled : LISTENING_FD(fd_table, f)}
       IN  /\ polled # {}
           /\ \/ servers = {} /\ Scanned(t, "poll", polled, {})
              \/ \E s \in servers : Scanned(t, "poll", polled \ {s}, {s})
  /\ UNCHANGED <<lib, kernel, app>>

\* select, pselect: server_sock is the highest listener in rfds; one in wfds is dropped.
SelectCall(t) ==
  /\ MayWait(t, "select")
  /\ \E rfds, wfds \in SUBSET HeldDesocked :
       LET servers == {f \in rfds : LISTENING_FD(fd_table, f)}
           server  == {f \in servers : \A g \in servers : g <= f}
           streams == {f \in wfds : ~LISTENING_FD(fd_table, f)}
       IN  /\ rfds \cup wfds # {}
           /\ Scanned(t, "select", (rfds \cup streams) \ server, server)
  /\ UNCHANGED <<lib, kernel, app>>

EpollCtlCall(t) ==
  /\ MayCall(t, "epoll_ctl")
  /\ \E f \in Held, e \in Epolls :
       /\ VALID_FD(f)
       /\ \/ \E once \in Oneshot :        \* EPOLL_CTL_ADD, EPOLL_CTL_MOD
               fd_table' = [fd_table EXCEPT ![f] =
                              [@ EXCEPT !.epfd = e, !.oneshot = once, !.data = f]]
          \/ fd_table' = [fd_table EXCEPT ![f].epfd = -1]     \* EPOLL_CTL_DEL
  /\ UNCHANGED <<sem, accept_block, max_fd, kernel, app, cpu, ready>>

EpollWaitCall(t) ==
  /\ MayWait(t, "epoll_wait")
  /\ \E e \in Epolls, cnt \in 1 .. MaxEvents :
       LET hits   == Hits(fd_table, e, max_fd, cnt)
           server == WaitServer(fd_table, e, max_fd, cnt)
       IN  /\ hits \cup server # {}
           /\ fd_table' = disarm_oneshot(fd_table, hits)
           /\ Scanned(t, "epoll_wait", {fd_table[f].data : f \in hits}, server)
  /\ UNCHANGED <<sem, accept_block, max_fd, kernel, app>>

MuxArm(t) ==
  /\ pc[t] = "arm"
  /\ accept_block' = 0
  /\ Goto(t, "try")
  /\ UNCHANGED <<sem, fd_table, max_fd, kernel, app, ready>>

\* sem_trywait; on EAGAIN wait only if nothing else is ready
MuxTry(t) ==
  /\ pc[t] = "try"
  /\ \/ sem > 0 /\ sem' = sem - 1 /\ Goto(t, "report")
     \/ sem = 0 /\ ready[t] = {} /\ Goto(t, "sem_wait") /\ UNCHANGED sem
     \/ sem = 0 /\ ready[t] # {} /\ Goto(t, "unblock") /\ UNCHANGED sem
  /\ UNCHANGED <<accept_block, fd_table, max_fd, kernel, app, ready>>

MuxUnblock(t) ==
  /\ pc[t] = "unblock"
  /\ accept_block' = 1
  /\ Report(t, ready[t])
  /\ Return(t)
  /\ UNCHANGED <<sem, fd_table, max_fd, kernel, app>>

\* epoll reports what the entry of the server socket holds by now
MuxReport(t) ==
  /\ pc[t] = "report"
  /\ LET s == arg[t]
         event == IF call[t] = "epoll_wait" THEN fd_table[s].data ELSE s
     IN  /\ Report(t, ready[t] \cup {event})
         /\ fd_table' = IF call[t] = "epoll_wait" THEN disarm_oneshot(fd_table, {s}) ELSE fd_table
  /\ Return(t)
  /\ UNCHANGED <<sem, accept_block, max_fd, kernel, app>>
-----------------------------------------------------------------------------
\* the application calls libdesock (or the kernel)
AppCall(t) ==
  \/ OpenCall(t) \/ SocketCall(t) \/ BindCall(t) \/ ConnectCall(t) \/ ListenCall(t)
  \/ AcceptCall(t) \/ GetNameCall(t) \/ CloseCall(t) \/ DupCall(t) \/ Dup2Call(t)
  \/ PollCall(t) \/ SelectCall(t) \/ EpollCtlCall(t) \/ EpollWaitCall(t)

\* a thread inside a call goes on
LibStep(t) ==
  \/ AcceptBlock(t) \/ SemWait(t) \/ SemWaitInterrupted(t) \/ AcceptSetBlock(t)
  \/ AcceptDupFails(t) \/ AcceptDup(t) \/ AcceptClone(t) \/ AcceptUnlisten(t)
  \/ FillSockaddr(t) \/ CheckMax(t) \/ WriteMax(t)
  \/ CloseGetValue(t) \/ ClosePost(t) \/ CloseClear(t) \/ CloseSysClose(t) \/ CopyEntry(t)
  \/ MuxArm(t) \/ MuxTry(t) \/ MuxUnblock(t) \/ MuxReport(t)

Next == \E t \in Threads : AppCall(t) \/ LibStep(t)

Spec == Init /\ [][Next]_vars

\* The kernel schedules every thread; which waiter of the semaphore gets a token
\* is not determined, and the application need not make any call.
FairSpec == Spec /\ \A t \in Threads : WF_vars(LibStep(t))
-----------------------------------------------------------------------------
(* Who holds a token of the semaphore.  A connection does, from the sem_wait  *)
(* that admitted it to the sem_post of its close; in between calls it is the  *)
(* application's descriptor, during them the calling thread stands for it.    *)

Accepting(t) == \/ pc[t] \in {"set_block", "dup", "clone", "unlisten", "fill"}
                \/ pc[t] \in {"check_max", "write_max"} /\ call[t] = "accept"
Posting(t)   == pc[t] \in {"getvalue", "post"}

\* a multiplexer took the token of a connection the thread has yet to accept
Reserving(t) == pc[t] = "report" \/ \E f \in ready[t] : LISTENING_FD(fd_table, f)

Owing  == {t \in Threads : Accepting(t) \/ Posting(t) \/ Reserving(t)}

Holders == {<<"fd", f>> : f \in Conns} \cup {<<"thread", t>> : t \in Owing}

(* Properties *)

\* README, max_conns: "The number of simultaneous connections that can be
\* desocketed": never more than MAX_CONNS connections are open at a time.
ConnLimit == Cardinality(Conns) <= MAX_CONNS

\* sem, the open connections, the connections on their way in, out, or reported
\* but not accepted yet, together never exceed MAX_CONNS.
TokensBounded == sem + Cardinality(Holders) <= MAX_CONNS

\* ... nor fall short of it: accept, close and the multiplexers lose no token, so
\* the pool never shrinks for the rest of the process's life.
NoTokenLost == sem + Cardinality(Holders) >= MAX_CONNS

\* Whatever the application does, a token disappears in four places only: an accept
\* that fails after its wait, a dup2 over a connection, the test of close when it finds
\* the semaphore full, and the close of a connection that is not desocketed, because its
\* listener was closed after the wait and before the entry was copied.
TokensLostOnlyHere ==
  [][sem' + Cardinality(Holders') < sem + Cardinality(Holders) =>
       \E t \in Threads : \/ AcceptDupFails(t)
                          \/ Dup2Call(t) /\ \E f \in Conns : origin'[f] # "conn"
                          \/ CloseGetValue(t) /\ sem >= MAX_CONNS
                          \/ CloseCall(t) /\ arg'[t] \in Conns \ HeldDesocked]_vars

\* Whatever the application does, the unlocked test of close (sem_getvalue, then
\* sem_post) lets sem pass MAX_CONNS by less than the number of threads.
SemBound ==
  sem + Cardinality({t \in Threads : pc[t] = "post"}) <= MAX_CONNS + Cardinality(Threads) - 1

\* Whatever the application does and threads interleave, a desocketed entry has an
\* IP domain (so fill_sockaddr, reached through getpeername, getsockname and
\* recvfrom on it, never gets to __builtin_unreachable), and only desocketed
\* entries are marked as listening.
DesockedIsInet ==
  \A f \in TableFds :
    /\ fd_table[f].desock = 1 => fd_table[f].domain \in Supported
    /\ fd_table[f].listening = 1 => fd_table[f].desock = 1

\* Reads and writes of a descriptor that open() returned go to the kernel, never to
\* the hooks: no entry of an earlier socket is left behind on its number, because
\* close clears the entry before the kernel may give the number away again.
FilesAreNotDesocked == \A f \in Fds : origin[f] = "file" => ~DESOCK_FD(fd_table, f)

\* fill_sockaddr, reached from accept after its wait, never gets to its
\* __builtin_unreachable: the listener of an accept that went through is still there,
\* if the application does not close listeners that a thread accepts on.
FillSeesInet ==
  \A t \in Threads : pc[t] \in {"fill", "name"} => fd_table[arg[t]].domain \in Supported

\* epoll_wait leaves a listener out when its array is full of connections, which it
\* reports again and again.  If the array has room for MAX_CONNS of them, this keeps no
\* one waiting who could be admitted: no token is free, unless a close is under way.
HiddenListenerHasNoToken ==
  \A e \in Epolls :
    LET server == WaitServer(fd_table, e, max_fd, FD_TABLE_SIZE + 1)
    IN  /\ server # {} /\ WaitServer(fd_table, e, max_fd, MAX_CONNS) = {}
        /\ \A t \in Threads : call[t] # "close"
        => sem = 0

\* What accept returned is served from the hooks until it is closed: its entry is
\* desocketed and not taken for a listener, and the kernel's descriptor is open.
ConnIsServed ==
  \A f \in Conns : DESOCK_FD(fd_table, f) /\ fd_table[f].listening = 0 /\ kernel[f] = "sock"

\* desock.c:29 "Highest file descriptor number seen so far": epoll_wait scans every
\* desocketed descriptor the application holds.
MaxFdCovers == \A f \in HeldDesocked : f < max_fd

\* desock.c:33: an accept on a listener that was just reported does not block.
ReportedAcceptDoesNotBlock ==
  \A t \in Threads : pc[t] = "sem_wait" /\ call[t] = "accept" => arg[t] \notin ready[t]

\* Liveness, with one event loop: a thread asleep in poll, select, epoll_wait or accept
\* wakes up once fewer than MAX_CONNS connections are open, that is, after a close.
WaiterAdmitted ==
  \A t \in Threads :
    (pc[t] = "sem_wait" /\ Cardinality(Conns) < MAX_CONNS) ~> pc[t] # "sem_wait"

\* README: "It automatically synchronizes multi-threaded programs": the threads are
\* not all waiting for a connection while none is open.
NotAllStarved == (\A t \in Threads : pc[t] = "sem_wait") => Conns # {}

\* tests/test_threads.c:13, with one listener: "this is the check for synchronization"
AcceptedFdIs4 == Conns \subseteq {4}

\* What the pool promises to the application (module Pool): an acceptor is given a
\* connection when fewer than MAX_CONNS are open.
Abstract == INSTANCE Pool WITH conns <- Conns, waiting <- {t \in Threads : call[t] = "accept"}
RefinesPool     == Abstract!Spec
RefinesFairPool == Abstract!FairSpec
=============================================================================
