-------------------------- MODULE EventLoop_proofs --------------------------
(***************************************************************************)
(* Applications with one event loop: a thread that sets one listening      *)
(* socket up, waits in poll, select and epoll_wait in any mix, accepts     *)
(* what is reported to it and registers what it accepted; any number of    *)
(* other threads close the connections.  For any size of the tables, any   *)
(* MAX_CONNS, any epoll instances and event arrays.                        *)
(***************************************************************************)
EXTENDS Blocking_proofs

LoopCalls ==
  {"socket", "bind", "connect", "listen", "accept", "getname", "poll", "select", "epoll_ctl",
   "epoll_wait"}

LoopApp(m) ==
  /\ AcceptsReported /\ RegistersConns /\ MaxSockets <= 1 /\ m \notin Signals
  /\ Calls[m] \subseteq LoopCalls
  /\ \A t \in Threads \ {m} : Calls[t] \subseteq {"close", "getname"}

-----------------------------------------------------------------------------
(* The invariant *)

MuxCalls  == {"poll", "select", "epoll_wait"}
MuxLabels == {"arm", "try", "sem_wait", "unblock", "report"}

\* m is at label l of function fn; any other thread is.
LoopAt(l, fn) ==
  \/ l = "idle" /\ fn = "none"
  \/ l = "name" /\ fn = "getname"
  \/ l \in AcceptLabels /\ fn = "accept"
  \/ l \in {"check_max", "write_max"} /\ fn \in {"accept", "socket"}
  \/ l \in MuxLabels /\ fn \in MuxCalls

CloserAt(l, fn) ==
  \/ l = "idle" /\ fn = "none"
  \/ l = "name" /\ fn = "getname"
  \/ l \in CloseLabels /\ fn = "close"

Places(m) ==
  /\ LoopAt(pc[m], call[m])
  /\ \A t \in Threads \ {m} : CloserAt(pc[t], call[t]) /\ ready[t] = {}

Listeners == {f \in Fds : origin[f] = "listener"}
IsSock(m, f) ==
  origin[f] \in {"socket", "listener"} \/ (call[m] = "socket" /\ Creates(m, f))

\* There is one socket at most.
OneSocket(m) ==
  /\ \A f \in Fds : origin[f] \in {"none", "socket", "listener", "conn"}
  /\ \A f, g \in Fds : IsSock(m, f) /\ IsSock(m, g) => f = g
  /\ opened = 0 => \A f \in Fds : ~IsSock(m, f)

\* The entries marked as listening are the listeners, but for the connection that an
\* accept is about to unmark.
Marks(m) ==
  /\ \A f \in Listeners : LISTENING_FD(fd_table, f)
  /\ \A f \in Fds : LISTENING_FD(fd_table, f) => \/ f \in Listeners
                                                 \/ pc[m] = "unlisten" /\ new[m] = f
  /\ call[m] \in MuxCalls \cup {"accept"} => arg[m] \in Listeners

\* accept_block is 0 from the time a multiplexer reserves a token to the accept that
\* uses it; outside of the multiplexers just while a listener is reported.
Flag(m) ==
  /\ call[m] \notin MuxCalls => /\ ready[m] \subseteq Listeners
                                /\ accept_block = 0 <=> ready[m] # {}
  /\ call[m] \in MuxCalls => /\ ready[m] \cap Listeners = {}
                             /\ accept_block = 0 <=> pc[m] # "arm"
  /\ call[m] = "accept" /\ pc[m] \notin {"block", "set_block"} => accept_block = 1

\* Registrations are the application's own, except those a connection copied from the
\* listener and the application has yet to replace.
Registrations(m) ==
  /\ \A f \in TableFds \cap Fds :
       \/ OwnRegistration(f)
       \/ f \in Conns
       \/ call[m] = "accept" /\ Creates(m, f)
  /\ call[m] = "epoll_wait" => fd_table[arg[m]].data = arg[m]

\* What is desocketed and no listener has a token, or is being closed.
Streams(m) ==
  /\ \A f \in TableFds \cap Fds :
       fd_table[f].desock = 1 /\ fd_table[f].listening = 0 =>
         \/ f \in Conns \/ origin[f] = "socket"
         \/ call[m] = "accept" /\ Creates(m, f)
         \/ \E t \in Threads : Closes(t, f)
  /\ \A f \in Conns : f \in TableFds /\ fd_table[f].desock = 1 /\ fd_table[f].listening = 0
  /\ pc[m] = "unlisten" => fd_table[new[m]].desock = 1
  /\ Filled(m) => fd_table[new[m]].desock = 1 /\ fd_table[new[m]].listening = 0

LoopInv(m) ==
  Places(m) /\ OneSocket(m) /\ Marks(m) /\ Flag(m) /\ Registrations(m) /\ Streams(m)

LEMMA LoopInit ==
  ASSUME NEW m \in Threads, Init
  PROVE  LoopInv(m)
<1>1. /\ \A f \in Fds : origin[f] = "none"
      /\ \A t \in Threads : pc[t] = "idle" /\ call[t] = "none" /\ ready[t] = {}
      /\ \A f \in TableFds : fd_table[f] = ZeroedEntry
      /\ accept_block = 1
  BY DEF Init
<1>2. \A f \in Fds : ~LISTENING_FD(fd_table, f)
  BY <1>1 DEF LISTENING_FD, DESOCK_FD, VALID_FD, ZeroedEntry
<1>3. \A f \in TableFds : OwnRegistration(f)
  BY <1>1, FdTableAssumption DEF OwnRegistration, ZeroedEntry
<1>4. \A f \in TableFds : fd_table[f].desock = 0
  BY <1>1 DEF ZeroedEntry
<1>5. Places(m)
  BY <1>1 DEF Places, LoopAt, CloserAt
<1>6. OneSocket(m)
  BY <1>1 DEF OneSocket, IsSock, Creates, NewLabels
<1>7. Marks(m) /\ Flag(m)
  BY <1>1, <1>2 DEF Marks, Flag, Listeners, MuxCalls
<1>8. Registrations(m)
  BY <1>1, <1>3 DEF Registrations
<1>9. Streams(m)
  BY <1>1, <1>4 DEF Streams, Conns, Filled
<1>10. QED
  BY <1>5, <1>6, <1>7, <1>8, <1>9 DEF LoopInv

-----------------------------------------------------------------------------
(* The threads that close *)

CloserStep(t) ==
  \/ GetNameCall(t) \/ CloseCall(t) \/ FillSockaddr(t)
  \/ CloseGetValue(t) \/ ClosePost(t) \/ CloseClear(t) \/ CloseSysClose(t)

LEMMA OnlyCloserSteps ==
  ASSUME NEW m \in Threads, LoopApp(m), LoopInv(m), NEW t \in Threads \ {m},
         AppCall(t) \/ LibStep(t)
  PROVE  CloserStep(t)
<1>1. CloserAt(pc[t], call[t]) /\ Calls[t] \subseteq {"close", "getname"}
  BY DEF LoopApp, LoopInv, Places
<1>2. CASE AppCall(t)
  BY <1>1, <1>2
     DEF AppCall, MayCall, MayWait, OpenCall, SocketCall, BindCall, ConnectCall, MarkDesock,
         ListenCall, AcceptCall, DupCall, Dup2Call, PollCall, SelectCall, EpollCtlCall,
         EpollWaitCall, CloserStep
<1>3. CASE LibStep(t)
  BY <1>1, <1>3
     DEF LibStep, CloserAt, CloseLabels, AcceptBlock, SemWait, SemWaitInterrupted,
         AcceptSetBlock, AcceptDupFails, AcceptDup, AcceptClone, AcceptUnlisten, CheckMax,
         WriteMax, CopyEntry, MuxArm, MuxTry, MuxUnblock, MuxReport, CloserStep
<1>4. QED
  BY <1>2, <1>3

\* All that a step of such a thread does.
CloserEffect(t) ==
  /\ UNCHANGED <<accept_block, opened, ready>>
  /\ CloserAt(pc'[t], call'[t])
  /\ \A f \in Fds : \/ origin'[f] = origin[f]
                    \/ origin[f] = "conn" /\ origin'[f] = "none" /\ Closes(t, f)' /\ OwnRegistration(f)
  /\ \A f \in TableFds : \/ fd_table'[f] = fd_table[f]
                         \/ /\ Closes(t, f)
                            /\ fd_table'[f] = clear_fd_table_entry(fd_table[f])
  /\ \A f \in TableFds \cap Fds : Closes(t, f) => Closes(t, f)' \/ fd_table[f].desock = 0

LEMMA CloserSteps ==
  ASSUME NEW m \in Threads, LoopApp(m), TypeInv, OwnInv, LoopInv(m), NEW t \in Threads \ {m},
         AppCall(t) \/ LibStep(t)
  PROVE  CloserEffect(t)
<1>0. /\ CpuOK /\ fd_table \in Table /\ origin \in [Fds -> Origins]
      /\ pc \in [Threads -> Labels] /\ call \in [Threads -> CallNames]
      /\ arg \in [Threads -> Fds \cup {NoFd}]
      /\ FrameOK(pc[t], arg[t], new[t])
  BY DEF TypeInv, WorldOK, TableOK, CpuOK
<1>1. CloserAt(pc[t], call[t]) /\ Calls[t] \subseteq {"close", "getname"} /\ RegistersConns
  BY DEF LoopApp, LoopInv, Places
<1>2. CloserStep(t)
  BY OnlyCloserSteps
<1>r. ASSUME Return(t) PROVE CloserAt(pc'[t], call'[t])
  BY <1>0, <1>r DEF Return, Enter, CloserAt
<1>3. CASE GetNameCall(t)
  BY <1>0, <1>3 DEF GetNameCall, MayCall, Enter, lib, app, CloserAt, CloserEffect, Closes, CloseLabels
<1>4. CASE CloseCall(t)
  <2>1. PICK f \in Fds : /\ origin[f] \in {"conn", "copy", "file"}
                         /\ f \in Conns => OwnRegistration(f)
                         /\ HandOver(f, "none")
                         /\ Enter(t, "close", f, NoFd, CloseLabel(f))
    BY <1>1, <1>4 DEF CloseCall, Held, MayCall
  <2>2. origin[f] = "conn" /\ OwnRegistration(f)
    BY <2>1 DEF LoopInv, OneSocket, Conns
  <2>3. CloseLabel(f) \in CloseLabels
    BY DEF CloseLabel, CloseLabels
  <2>4. pc'[t] = CloseLabel(f) /\ call'[t] = "close" /\ arg'[t] = f
    BY <1>0, <2>1 DEF Enter
  <2>5. CloserAt(pc'[t], call'[t]) /\ Closes(t, f)'
    BY <2>3, <2>4 DEF CloserAt, Closes
  <2>6. \A g \in Fds : origin'[g] = IF g = f THEN "none" ELSE origin[g]
    BY <1>0, <2>1 DEF HandOver
  <2>7. UNCHANGED <<accept_block, fd_table, opened, ready>> /\ pc[t] = "idle"
    BY <1>4 DEF CloseCall, lib, MayCall
  <2>8. QED
    BY <2>2, <2>5, <2>6, <2>7 DEF CloserEffect, Closes, CloseLabels
<1>5. CASE FillSockaddr(t)
  <2>1. pc[t] = "name" /\ Return(t)
    BY <1>1, <1>5 DEF FillSockaddr, CloserAt, CloseLabels
  <2>2. QED
    BY <1>5, <1>r, <2>1 DEF FillSockaddr, lib, app, CloserEffect, Closes, CloseLabels
<1>6. CASE CloseGetValue(t) \/ ClosePost(t)
  <2>1. pc[t] \in CloseLabels /\ UNCHANGED <<accept_block, fd_table, origin, opened, ready, call, arg>>
    BY <1>6 DEF CloseGetValue, ClosePost, CloseLabels, lib, app, Goto
  <2>2. pc'[t] \in CloseLabels
    BY <1>0, <1>6 DEF CloseGetValue, ClosePost, CloseLabels, Goto
  <2>3. CloserAt(pc'[t], call'[t])
    BY <1>1, <2>1, <2>2 DEF CloserAt, CloseLabels
  <2>4. QED
    BY <2>1, <2>2, <2>3 DEF CloserEffect, Closes
<1>7. CASE CloseClear(t)
  <2>1. /\ pc[t] = "clear" /\ UNCHANGED <<accept_block, origin, opened, ready, call, arg>>
        /\ fd_table' = [fd_table EXCEPT ![arg[t]] = clear_fd_table_entry(@)]
    BY <1>7 DEF CloseClear, app, Goto
  <2>2. pc'[t] = "sysclose"
    BY <1>0, <1>7 DEF CloseClear, Goto
  <2>3. CloserAt(pc'[t], call'[t])
    BY <1>1, <2>1, <2>2 DEF CloserAt, CloseLabels
  <2>4. \A f \in TableFds : fd_table'[f] = IF f = arg[t] THEN clear_fd_table_entry(fd_table[f])
                                                         ELSE fd_table[f]
    BY <1>0, <2>1 DEF Table
  <2>5. QED
    BY <2>1, <2>2, <2>3, <2>4 DEF CloserEffect, Closes, CloseLabels
<1>8. CASE CloseSysClose(t)
  <2>1. pc[t] = "sysclose" /\ Return(t) /\ UNCHANGED <<accept_block, fd_table, origin, opened, ready>>
    BY <1>8 DEF CloseSysClose, lib, app
  <2>2. \A f \in TableFds \cap Fds : Closes(t, f) => fd_table[f].desock = 0
    <3>1. \A f \in TableFds \cap Fds : Closes(t, f) => ~DESOCK_FD(fd_table, f)
      BY <2>1 DEF OwnInv, VacantIsClear, Vacant, Closes
    <3>2. QED
      BY <1>0, <3>1 DEF DESOCK_FD, VALID_FD, Table, Entry
  <2>3. QED
    BY <1>r, <2>1, <2>2 DEF CloserEffect
<1>9. QED
  BY <1>2, <1>3, <1>4, <1>5, <1>6, <1>7, <1>8 DEF CloserStep

LEMMA ClosersKeep ==
  ASSUME NEW m \in Threads, TypeInv, OwnInv, LoopInv(m), NEW t \in Threads \ {m},
         Moves(t), CloserEffect(t)
  PROVE  LoopInv(m)'
<1>0. /\ fd_table \in Table
      /\ \A f \in TableFds : fd_table[f] \in Entry
  BY DEF TypeInv, TableOK, Table
<1>1. \A u \in Threads \ {t} : /\ pc'[u] = pc[u] /\ call'[u] = call[u]
                               /\ arg'[u] = arg[u] /\ new'[u] = new[u]
  BY DEF TypeInv, CpuOK, Moves, Enter, Goto, cpu
<1>2. /\ Places(m) /\ OneSocket(m) /\ Marks(m) /\ Flag(m) /\ Registrations(m) /\ Streams(m)
  BY DEF LoopInv
<1>3. \A f \in Fds : Closes(t, f) => origin[f] = "none" /\ ~Creates(m, f)
  BY DEF OwnInv, OwnersOpen, OneOwner, Owns
<1>4. \A f \in TableFds : LET e == clear_fd_table_entry(fd_table[f])
                          IN  e.desock = 0 /\ e.listening = 0 /\ e.epfd = -1
  BY <1>0 DEF clear_fd_table_entry, Entry
<1>5. Listeners' = Listeners
  BY DEF Listeners, CloserEffect
<1>6. Places(m)'
  BY <1>1, <1>2 DEF Places, CloserEffect
<1>7. OneSocket(m)'
  BY <1>1, <1>2 DEF OneSocket, IsSock, Creates, CloserEffect
<1>8. \A f \in Fds \cap TableFds : f \in Held \/ Creates(m, f) => fd_table'[f] = fd_table[f]
  BY <1>3 DEF Held, CloserEffect
<1>9. Marks(m)'
  <2>1. \A f \in Listeners' : LISTENING_FD(fd_table', f)
    BY <1>2, <1>5, <1>8 DEF Marks, Listeners, Held, LISTENING_FD, DESOCK_FD, VALID_FD
  <2>2. \A f \in Fds : LISTENING_FD(fd_table', f) => LISTENING_FD(fd_table, f)
    BY <1>4 DEF LISTENING_FD, DESOCK_FD, VALID_FD, CloserEffect
  <2>3. QED
    BY <1>1, <1>2, <1>5, <2>1, <2>2 DEF Marks
<1>10. Flag(m)'
  BY <1>1, <1>2, <1>5 DEF Flag, CloserEffect
<1>11. Registrations(m)'
  <2>1. \A f \in TableFds \cap Fds : OwnRegistration(f) => OwnRegistration(f)'
    BY <1>4, FdTableAssumption DEF OwnRegistration, CloserEffect
  <2>2. \A f \in TableFds \cap Fds : f \in Conns => f \in Conns' \/ OwnRegistration(f)
    BY DEF Conns, CloserEffect
  <2>3. call[m] = "epoll_wait" => fd_table'[arg[m]] = fd_table[arg[m]]
    <3>1. call[m] = "epoll_wait" => arg[m] \in Listeners /\ arg[m] \in TableFds \cap Held
      BY <1>2 DEF Marks, MuxCalls, Listeners, LISTENING_FD, DESOCK_FD, VALID_FD, Held
    <3>2. QED
      BY <1>8, <3>1 DEF Held
  <2>4. QED
    BY <1>1, <1>2, <2>1, <2>2, <2>3 DEF Registrations, Creates
<1>12. Streams(m)'
  <2>1. \A f \in Conns' : f \in Conns /\ fd_table'[f] = fd_table[f] /\ f \in TableFds
    <3>1. \A f \in Conns' : f \in Conns
      BY DEF Conns, CloserEffect
    <3>2. \A f \in Conns : f \in TableFds
      BY <1>0, <1>2 DEF Streams, Conns
    <3>3. QED
      BY <1>8, <3>1, <3>2 DEF Conns, Held
  <2>2. pc[m] = "unlisten" \/ Filled(m) =>
          new[m] \in TableFds \cap Fds /\ fd_table'[new[m]] = fd_table[new[m]]
    <3>1. pc[m] = "unlisten" \/ Filled(m) => new[m] \in TableFds \cap Fds /\ Creates(m, new[m])
      BY DEF TypeInv, CpuOK, FrameOK, NewLabels, Filled, Creates
    <3>2. QED
      BY <1>8, <3>1
  <2>3. ASSUME NEW f \in TableFds \cap Fds, fd_table'[f].desock = 1, fd_table'[f].listening = 0
        PROVE  \/ f \in Conns' \/ origin'[f] = "socket"
               \/ call'[m] = "accept" /\ Creates(m, f)'
               \/ \E u \in Threads : Closes(u, f)'
    <3>1. fd_table'[f] = fd_table[f]
      BY <1>4, <2>3 DEF CloserEffect
    <3>2. \/ f \in Conns \/ origin[f] = "socket"
          \/ call[m] = "accept" /\ Creates(m, f)
          \/ \E u \in Threads : Closes(u, f)
      BY <1>2, <2>3, <3>1 DEF Streams
    <3>3. CASE f \in Conns
      BY <3>3 DEF Conns, CloserEffect
    <3>4. CASE origin[f] = "socket"
      BY <3>4 DEF CloserEffect
    <3>5. CASE call[m] = "accept" /\ Creates(m, f)
      BY <1>1, <3>5 DEF Creates
    <3>6. ASSUME NEW u \in Threads, Closes(u, f) PROVE \E v \in Threads : Closes(v, f)'
      <4>1. CASE u = t
        BY <2>3, <3>1, <3>6, <4>1 DEF CloserEffect
      <4>2. CASE u # t
        BY <1>1, <3>6, <4>2 DEF Closes
      <4>3. QED
        BY <4>1, <4>2
    <3>7. QED
      BY <3>2, <3>3, <3>4, <3>5, <3>6
  <2>4. \A f \in Conns' : f \in TableFds /\ fd_table'[f].desock = 1 /\ fd_table'[f].listening = 0
    BY <1>2, <2>1 DEF Streams
  <2>5. pc'[m] = "unlisten" => fd_table'[new'[m]].desock = 1
    BY <1>1, <1>2, <2>2 DEF Streams
  <2>6. Filled(m)' => fd_table'[new'[m]].desock = 1 /\ fd_table'[new'[m]].listening = 0
    BY <1>1, <1>2, <2>2 DEF Streams, Filled
  <2>7. QED
    BY <2>3, <2>4, <2>5, <2>6 DEF Streams
<1>13. QED
  BY <1>6, <1>7, <1>9, <1>10, <1>11, <1>12 DEF LoopInv

-----------------------------------------------------------------------------
(* The event loop *)

\* What a step of m that hands no descriptor over and marks no entry must do.
QuietEffect(m) ==
  /\ UNCHANGED <<origin, opened>>
  /\ \A f \in TableFds : /\ fd_table'[f].desock = fd_table[f].desock
                         /\ fd_table'[f].listening = fd_table[f].listening
                         /\ OwnRegistration(f) => OwnRegistration(f)'
  /\ \A t \in Threads \ {m} : ready'[t] = ready[t]
  /\ LoopAt(pc'[m], call'[m])
  /\ pc[m] # "unlisten" /\ pc'[m] # "unlisten"
  /\ call'[m] = "socket" => call[m] = "socket" /\ new'[m] = new[m] /\ pc[m] \in NewLabels
  /\ call[m] = "accept" /\ pc[m] \in NewLabels =>
       call'[m] = "accept" /\ pc'[m] \in NewLabels /\ new'[m] = new[m]
  /\ call'[m] \in MuxCalls \cup {"accept"} => arg'[m] \in Listeners
  /\ call'[m] = "epoll_wait" => fd_table'[arg'[m]].data = arg'[m]
  /\ Filled(m)' => Filled(m) /\ new'[m] = new[m]

LEMMA QuietKeeps ==
  ASSUME NEW m \in Threads, TypeInv, OwnInv, LoopInv(m), Moves(m), QuietEffect(m), Flag(m)'
  PROVE  LoopInv(m)'
<1>0. /\ fd_table \in Table
      /\ \A f \in TableFds : fd_table[f] \in Entry
  BY DEF TypeInv, TableOK, Table
<1>1. \A u \in Threads \ {m} : pc'[u] = pc[u] /\ call'[u] = call[u] /\ arg'[u] = arg[u]
  BY DEF TypeInv, CpuOK, Moves, Enter, Goto, cpu
<1>2. /\ Places(m) /\ OneSocket(m) /\ Marks(m) /\ Flag(m) /\ Registrations(m) /\ Streams(m)
  BY DEF LoopInv
<1>3. Listeners' = Listeners /\ Conns' = Conns
  BY DEF Listeners, Conns, QuietEffect
<1>4. Places(m)'
  BY <1>1, <1>2 DEF Places, QuietEffect
<1>5. OneSocket(m)'
  <2>1. \A f \in Fds : IsSock(m, f)' => IsSock(m, f)
    BY DEF IsSock, Creates, QuietEffect
  <2>2. QED
    BY <1>2, <2>1 DEF OneSocket, QuietEffect
<1>6. Marks(m)'
  <2>1. \A f \in Fds : LISTENING_FD(fd_table', f) <=> LISTENING_FD(fd_table, f)
    BY DEF LISTENING_FD, DESOCK_FD, VALID_FD, QuietEffect
  <2>2. \A f \in Fds : LISTENING_FD(fd_table, f) => f \in Listeners
    BY <1>2 DEF Marks, QuietEffect
  <2>3. \A f \in Listeners : f \in Fds /\ LISTENING_FD(fd_table, f)
    BY <1>2 DEF Marks, Listeners
  <2>4. call'[m] \in MuxCalls \cup {"accept"} => arg'[m] \in Listeners
    BY DEF QuietEffect
  <2>5. QED
    BY <1>3, <2>1, <2>2, <2>3, <2>4 DEF Marks
<1>7. Registrations(m)'
  BY <1>2, <1>3 DEF Registrations, Creates, QuietEffect
<1>8. Streams(m)'
  <2>1. \A f \in TableFds \cap Fds :
          (\E t \in Threads : Closes(t, f)) => \E t \in Threads : Closes(t, f)'
    <3>1. ~Closes(m, NoFd) /\ pc[m] \notin CloseLabels
      BY <1>2 DEF Places, LoopAt, Closes, CloseLabels, AcceptLabels, MuxLabels
    <3>2. QED
      BY <1>1, <3>1 DEF Closes
  <2>2. \A f \in TableFds \cap Fds : call[m] = "accept" /\ Creates(m, f)
                                       => call'[m] = "accept" /\ Creates(m, f)'
    BY DEF Creates, QuietEffect
  <2>3. Filled(m) => new[m] \in TableFds
    BY DEF TypeInv, CpuOK, FrameOK, NewLabels, Filled
  <2>4. ASSUME NEW f \in TableFds \cap Fds, fd_table'[f].desock = 1, fd_table'[f].listening = 0
        PROVE  \/ f \in Conns' \/ origin'[f] = "socket"
               \/ call'[m] = "accept" /\ Creates(m, f)'
               \/ \E u \in Threads : Closes(u, f)'
    BY <1>2, <1>3, <2>1, <2>2, <2>4 DEF Streams, QuietEffect
  <2>5. \A f \in Conns' : f \in TableFds /\ fd_table'[f].desock = 1 /\ fd_table'[f].listening = 0
    BY <1>2, <1>3 DEF Streams, QuietEffect
  <2>6. pc'[m] # "unlisten"
    BY DEF QuietEffect
  <2>7. Filled(m)' => fd_table'[new'[m]].desock = 1 /\ fd_table'[new'[m]].listening = 0
    BY <1>2, <2>3 DEF Streams, QuietEffect
  <2>8. QED
    BY <2>4, <2>5, <2>6, <2>7 DEF Streams
<1>9. QED
  BY <1>4, <1>5, <1>6, <1>7, <1>8 DEF LoopInv

\* A thread that may wait has nothing reported to it, and its flag is up.
LEMMA NothingReported ==
  ASSUME NEW m \in Threads, LoopApp(m), TypeInv, LoopInv(m), NEW kind, MayWait(m, kind)
  PROVE  /\ ready[m] = {} /\ accept_block = 1 /\ pc[m] = "idle" /\ call[m] = "none"
         /\ \A f \in Held : origin[f] # "socket"
         /\ \A f \in Conns : OwnRegistration(f)
         /\ \A f \in Fds : LISTENING_FD(fd_table, f) <=> f \in Listeners
<1>1. pc[m] = "idle" /\ call[m] = "none"
  BY DEF MayWait, MayCall, LoopInv, Places, LoopAt, AcceptLabels, MuxLabels
<1>2. \A f \in Fds : LISTENING_FD(fd_table, f) <=> f \in Listeners
  BY <1>1 DEF LoopInv, Marks
<1>3. ready[m] \subseteq Listeners /\ (accept_block = 0 <=> ready[m] # {})
  BY <1>1 DEF LoopInv, Flag, MuxCalls
<1>4. ready[m] = {}
  BY <1>2, <1>3 DEF MayWait, LoopApp, Listeners
<1>5. QED
  BY <1>1, <1>2, <1>3, <1>4 DEF MayWait, LoopApp, TypeInv, WorldOK

\* After its scan the call has returned and reported no listener, or it goes on with the
\* listener as its server.
LEMMA ScannedKeeps ==
  ASSUME NEW m \in Threads, LoopApp(m), TypeInv, OwnInv, LoopInv(m), Moves(m),
         NEW fn \in MuxCalls, MayWait(m, fn),
         NEW found \in SUBSET Fds, found \cap Listeners = {},
         NEW servers \in SUBSET Listeners, Scanned(m, fn, found, servers),
         UNCHANGED <<origin, opened, accept_block>>,
         \A f \in TableFds : /\ fd_table'[f].desock = fd_table[f].desock
                             /\ fd_table'[f].listening = fd_table[f].listening
                             /\ OwnRegistration(f) => OwnRegistration(f)',
         fn = "epoll_wait" => \A f \in servers : fd_table'[f].data = f
  PROVE  LoopInv(m)'
<1>0. /\ pc \in [Threads -> Labels] /\ call \in [Threads -> CallNames]
      /\ arg \in [Threads -> Fds \cup {NoFd}] /\ new \in [Threads -> Fds \cup {NoFd}]
      /\ ready \in [Threads -> SUBSET Fds]
  BY DEF TypeInv, CpuOK, WorldOK
<1>1. /\ ready[m] = {} /\ accept_block = 1 /\ pc[m] = "idle" /\ call[m] = "none"
      /\ \A f \in Fds : LISTENING_FD(fd_table, f) <=> f \in Listeners
  BY NothingReported
<1>2. Listeners' = Listeners
  BY DEF Listeners
<1>3. CASE Report(m, found) /\ UNCHANGED cpu
  <2>1. ready' = [ready EXCEPT ![m] = {}]
    BY <1>1, <1>3 DEF Report
  <2>2. Flag(m)'
    BY <1>0, <1>1, <1>3, <2>1 DEF Flag, cpu, MuxCalls
  <2>3. QuietEffect(m)
    BY <1>0, <1>1, <1>3, <2>1 DEF QuietEffect, cpu, LoopAt, MuxCalls, NewLabels, Filled
  <2>4. QED
    BY <2>2, <2>3, QuietKeeps
<1>4. ASSUME NEW s \in servers, Enter(m, fn, s, NoFd, "arm"), ready' = [ready EXCEPT ![m] = found]
      PROVE  LoopInv(m)'
  <2>1. /\ pc'[m] = "arm" /\ call'[m] = fn /\ arg'[m] = s /\ new'[m] = NoFd /\ ready'[m] = found
        /\ \A t \in Threads \ {m} : ready'[t] = ready[t]
    BY <1>0, <1>4 DEF Enter
  <2>2. Flag(m)'
    BY <1>1, <1>2, <2>1 DEF Flag, MuxCalls
  <2>3. QuietEffect(m)
    BY <1>1, <2>1 DEF QuietEffect, LoopAt, MuxCalls, MuxLabels, NewLabels, Filled
  <2>4. QED
    BY <2>2, <2>3, QuietKeeps
<1>5. QED
  BY <1>3, <1>4 DEF Scanned
\* Dropping registrations leaves no foreign ones behind.
LEMMA DisarmKeeps ==
  ASSUME TypeInv, NEW fs, fd_table' = disarm_oneshot(fd_table, fs)
  PROVE  \A f \in TableFds : /\ fd_table'[f].desock = fd_table[f].desock
                             /\ fd_table'[f].listening = fd_table[f].listening
                             /\ fd_table'[f].data = fd_table[f].data
                             /\ OwnRegistration(f) => OwnRegistration(f)'
<1> TAKE f \in TableFds
<1>1. fd_table[f] \in Entry
  BY DEF TypeInv, TableOK, Table
<1>2. fd_table'[f] = IF f \in fs /\ fd_table[f].oneshot
                     THEN [fd_table[f] EXCEPT !.epfd = -1] ELSE fd_table[f]
  BY DEF disarm_oneshot
<1>3. LET e == [fd_table[f] EXCEPT !.epfd = -1]
      IN  /\ e.desock = fd_table[f].desock /\ e.listening = fd_table[f].listening
          /\ e.data = fd_table[f].data /\ e.epfd = -1
  BY <1>1 DEF Entry
<1>4. -1 \notin Epolls
  BY FdTableAssumption
<1>5. QED
  BY <1>2, <1>3, <1>4 DEF OwnRegistration

LEMMA PollKeeps ==
  ASSUME NEW m \in Threads, LoopApp(m), TypeInv, OwnInv, LoopInv(m), Moves(m),
         PollCall(m) \/ SelectCall(m)
  PROVE  LoopInv(m)'
<1>1. UNCHANGED <<fd_table, origin, opened, accept_block>>
  BY DEF PollCall, SelectCall, lib, app
<1>2. \A f \in TableFds : OwnRegistration(f)' <=> OwnRegistration(f)
  BY <1>1 DEF OwnRegistration
<1>3. \A f, g \in Listeners : f = g
  BY DEF LoopInv, OneSocket, IsSock, Listeners
<1>s. ASSUME NEW fn \in {"poll", "select"}, MayWait(m, fn),
             NEW found \in SUBSET Fds, found \cap Listeners = {},
             NEW servers \in SUBSET Listeners, Scanned(m, fn, found, servers)
      PROVE  LoopInv(m)'
  <2>1. fn \in MuxCalls /\ fn # "epoll_wait"
    BY DEF MuxCalls
  <2>2. QED
    BY <1>1, <1>2, <1>s, <2>1, ScannedKeeps
<1>4. CASE PollCall(m)
  <2>1. PICK polled \in SUBSET HeldDesocked :
          LET servers == {f \in polled : LISTENING_FD(fd_table, f)}
          IN  \/ servers = {} /\ Scanned(m, "poll", polled, {})
              \/ \E s \in servers : Scanned(m, "poll", polled \ {s}, {s})
    BY <1>4 DEF PollCall
  <2>2. MayWait(m, "poll") /\ polled \subseteq Fds
    BY <1>4, <2>1 DEF PollCall, HeldDesocked, Held
  <2>3. \A f \in polled : LISTENING_FD(fd_table, f) <=> f \in Listeners
    BY <2>2, NothingReported
  <2>4. CASE {f \in polled : LISTENING_FD(fd_table, f)} = {} /\ Scanned(m, "poll", polled, {})
    <3>1. polled \cap Listeners = {}
      BY <2>3, <2>4
    <3>2. QED
      BY <1>s, <2>2, <2>4, <3>1
  <2>5. ASSUME NEW s \in polled, LISTENING_FD(fd_table, s), Scanned(m, "poll", polled \ {s}, {s})
        PROVE  LoopInv(m)'
    <3>1. (polled \ {s}) \cap Listeners = {} /\ {s} \subseteq Listeners
      BY <1>3, <2>3, <2>5
    <3>2. QED
      BY <1>s, <2>2, <2>5, <3>1
  <2>6. QED
    BY <2>1, <2>4, <2>5
<1>5. CASE SelectCall(m)
  <2>1. PICK rfds \in SUBSET HeldDesocked, wfds \in SUBSET HeldDesocked :
          LET servers == {f \in rfds : LISTENING_FD(fd_table, f)}
              server  == {f \in servers : \A g \in servers : g <= f}
              streams == {f \in wfds : ~LISTENING_FD(fd_table, f)}
          IN  Scanned(m, "select", (rfds \cup streams) \ server, server)
    BY <1>5 DEF SelectCall
  <2>2. MayWait(m, "select") /\ rfds \subseteq Fds /\ wfds \subseteq Fds
    BY <1>5, <2>1 DEF SelectCall, HeldDesocked, Held
  <2>3. \A f \in Fds : LISTENING_FD(fd_table, f) <=> f \in Listeners
    BY <2>2, NothingReported
  <2> DEFINE servers == {f \in rfds : LISTENING_FD(fd_table, f)}
             server  == {f \in servers : \A g \in servers : g <= f}
             streams == {f \in wfds : ~LISTENING_FD(fd_table, f)}
             found   == (rfds \cup streams) \ server
  <2>4. servers \subseteq Listeners /\ \A f \in rfds \cap Listeners : f \in servers
    BY <2>2, <2>3
  <2>5. server = servers
    <3> SUFFICES ASSUME NEW f \in servers PROVE f \in server
      OBVIOUS
    <3>1. \A g \in servers : g = f
      BY <1>3, <2>4
    <3>2. \A g \in servers : g <= f
      BY <2>2, <3>1 DEF Fds
    <3>3. QED
      BY <3>2
  <2>6. found \cap Listeners = {}
    BY <2>2, <2>3, <2>4, <2>5
  <2>7. found \in SUBSET Fds /\ server \in SUBSET Listeners
    BY <2>2, <2>4
  <2>8. Scanned(m, "select", found, server)
    BY <2>1
  <2> HIDE DEF found, server
  <2>9. QED
    BY <1>s, <2>2, <2>6, <2>7, <2>8
<1>6. QED
  BY <1>4, <1>5

LEMMA EpollWaitKeeps ==
  ASSUME NEW m \in Threads, LoopApp(m), TypeInv, OwnInv, LoopInv(m), Moves(m), EpollWaitCall(m)
  PROVE  LoopInv(m)'
<1>0. /\ fd_table \in Table /\ \A f \in TableFds : fd_table[f].desock = 1 => f \in Fds
  BY DEF TypeInv, TableOK
<1>1. UNCHANGED <<origin, opened, accept_block>> /\ MayWait(m, "epoll_wait")
  BY DEF EpollWaitCall, app
<1>2. PICK e \in Epolls, cnt \in 1 .. MaxEvents :
        LET hits   == Hits(fd_table, e, max_fd, cnt)
            server == WaitServer(fd_table, e, max_fd, cnt)
        IN  /\ fd_table' = disarm_oneshot(fd_table, hits)
            /\ Scanned(m, "epoll_wait", {fd_table[f].data : f \in hits}, server)
  BY DEF EpollWaitCall
<1> DEFINE hits   == Hits(fd_table, e, max_fd, cnt)
           server == WaitServer(fd_table, e, max_fd, cnt)
           found  == {fd_table[f].data : f \in hits}
<1>3. /\ \A f \in hits : f \in TableFds /\ fd_table[f].desock = 1 /\ fd_table[f].epfd = e
                         /\ fd_table[f].listening = 0
      /\ \A f \in server : f \in TableFds /\ fd_table[f].desock = 1 /\ fd_table[f].epfd = e
                           /\ fd_table[f].listening = 1
  BY DEF Hits, WaitServer, Registered
<1>4. /\ pc[m] = "idle" /\ \A f \in Conns : OwnRegistration(f)
      /\ \A f \in Fds : LISTENING_FD(fd_table, f) <=> f \in Listeners
  BY <1>1, NothingReported
<1>5. \A f \in TableFds \cap Fds : OwnRegistration(f)
  BY <1>4 DEF LoopInv, Registrations, Creates, NewLabels
<1>6. /\ \A f \in hits : fd_table[f].data = f /\ f \in Fds
      /\ \A f \in server : fd_table[f].data = f /\ f \in Fds
  BY <1>0, <1>3, <1>5 DEF OwnRegistration
<1>7. found = hits
  BY <1>6
<1>8. found \in SUBSET Fds /\ found \cap Listeners = {}
  BY <1>3, <1>4, <1>6, <1>7 DEF LISTENING_FD
<1>9. server \in SUBSET Listeners
  BY <1>3, <1>4, <1>6 DEF LISTENING_FD, DESOCK_FD, VALID_FD
<1>10. /\ fd_table' = disarm_oneshot(fd_table, hits)
       /\ Scanned(m, "epoll_wait", found, server)
  BY <1>2
<1>11. \A f \in TableFds : /\ fd_table'[f].desock = fd_table[f].desock
                           /\ fd_table'[f].listening = fd_table[f].listening
                           /\ fd_table'[f].data = fd_table[f].data
                           /\ OwnRegistration(f) => OwnRegistration(f)'
  <2> HIDE DEF hits
  <2>1. QED
    BY <1>10, DisarmKeeps
<1>12. \A f \in server : fd_table'[f].data = f
  BY <1>3, <1>6, <1>11
<1>13. "epoll_wait" \in MuxCalls
  BY DEF MuxCalls
<1> HIDE DEF found, server, hits
<1>14. QED
  BY <1>1, <1>8, <1>9, <1>10, <1>11, <1>12, <1>13, ScannedKeeps

\* Going on inside a call.
LEMMA GotoKeeps ==
  ASSUME NEW m \in Threads, TypeInv, OwnInv, LoopInv(m), NEW l, Goto(m, l),
         UNCHANGED <<fd_table, origin, opened>>,
         \A t \in Threads \ {m} : ready'[t] = ready[t],
         LoopAt(l, call[m]), pc[m] # "unlisten", l # "unlisten", l # "fill",
         pc[m] \in NewLabels => l \in NewLabels,
         call[m] = "accept" /\ l \in {"check_max", "write_max"} => Filled(m),
         Flag(m)'
  PROVE  LoopInv(m)'
<1>1. pc'[m] = l /\ UNCHANGED <<call, arg, new>>
  BY DEF TypeInv, CpuOK, Goto
<1>2. Moves(m)
  BY DEF Moves
<1>3. LoopAt(pc[m], call[m]) /\ Marks(m) /\ Registrations(m)
  BY DEF LoopInv, Places
<1>4. call[m] = "socket" => pc[m] \in NewLabels
  BY <1>3 DEF LoopAt, MuxCalls, NewLabels
<1>5. Filled(m)' => Filled(m)
  BY <1>1 DEF Filled
<1>6. QuietEffect(m)
  BY <1>1, <1>3, <1>4, <1>5 DEF QuietEffect, Marks, Registrations, OwnRegistration
<1>7. QED
  BY <1>2, <1>6, QuietKeeps

\* Returning without a descriptor.
LEMMA ReturnKeeps ==
  ASSUME NEW m \in Threads, TypeInv, OwnInv, LoopInv(m), Return(m), UNCHANGED <<origin, opened>>,
         \A f \in TableFds : /\ fd_table'[f].desock = fd_table[f].desock
                             /\ fd_table'[f].listening = fd_table[f].listening
                             /\ OwnRegistration(f) => OwnRegistration(f)',
         \A t \in Threads \ {m} : ready'[t] = ready[t],
         pc[m] \notin NewLabels,
         ready'[m] \subseteq Listeners, accept_block' = 0 <=> ready'[m] # {}
  PROVE  LoopInv(m)'
<1>1. pc'[m] = "idle" /\ call'[m] = "none"
  BY DEF TypeInv, CpuOK, Return, Enter
<1>2. Moves(m)
  BY DEF Moves, Return
<1>3. Listeners' = Listeners
  BY DEF Listeners
<1>4. Flag(m)'
  BY <1>1, <1>3 DEF Flag, MuxCalls
<1>5. QuietEffect(m)
  BY <1>1 DEF QuietEffect, LoopAt, MuxCalls, NewLabels, Filled
<1>6. QED
  BY <1>2, <1>4, <1>5, QuietKeeps

LEMMA MuxKeeps ==
  ASSUME NEW m \in Threads, LoopApp(m), TypeInv, OwnInv, LoopInv(m),
         MuxArm(m) \/ MuxTry(m) \/ SemWait(m) \/ MuxUnblock(m) \/ MuxReport(m)
  PROVE  LoopInv(m)'
<1>0. /\ ready \in [Threads -> SUBSET Fds] /\ pc \in [Threads -> Labels]
      /\ fd_table \in Table /\ accept_block \in {0, 1}
  BY DEF TypeInv, WorldOK, CpuOK, TableOK
<1>1. /\ LoopAt(pc[m], call[m]) /\ Flag(m) /\ Marks(m) /\ Registrations(m)
      /\ pc[m] # "unlisten" /\ pc[m] \notin NewLabels
  BY DEF LoopInv, Places, MuxArm, MuxTry, SemWait, MuxUnblock, MuxReport, NewLabels
<1>2. \A f \in Fds : LISTENING_FD(fd_table, f) <=> f \in Listeners
  BY <1>1 DEF Marks
<1>3. CASE MuxArm(m) \/ MuxTry(m)
  <2>1. call[m] \in MuxCalls
    BY <1>1, <1>3 DEF LoopAt, MuxArm, MuxTry, AcceptLabels
  <2>2. PICK l \in MuxLabels \ {"arm"} : Goto(m, l)
    BY <1>3 DEF MuxArm, MuxTry, MuxLabels
  <2>3. UNCHANGED <<fd_table, origin, opened, ready>> /\ pc'[m] = l /\ UNCHANGED call
    BY <1>0, <1>3, <2>2 DEF MuxArm, MuxTry, app, Goto
  <2>4. accept_block' = 0
    BY <1>1, <1>3, <2>1 DEF MuxArm, MuxTry, Flag
  <2>5. Flag(m)'
    <3>1. ready'[m] \cap Listeners' = {}
      BY <1>1, <2>1, <2>3 DEF Flag, Listeners
    <3>2. call'[m] \in MuxCalls /\ call'[m] # "accept" /\ pc'[m] # "arm"
      BY <2>1, <2>2, <2>3 DEF MuxCalls
    <3>3. QED
      BY <2>4, <3>1, <3>2 DEF Flag
  <2>6. LoopAt(l, call[m])
    BY <2>1, <2>2 DEF LoopAt
  <2>7. l # "unlisten" /\ l # "fill" /\ l \notin {"check_max", "write_max"}
    BY <2>2 DEF MuxLabels
  <2>8. QED
    BY <1>1, <2>2, <2>3, <2>5, <2>6, <2>7, GotoKeeps
<1>4. CASE SemWait(m)
  <2>1. UNCHANGED <<fd_table, accept_block, origin, opened, ready>> /\ pc[m] = "sem_wait"
    BY <1>4 DEF SemWait, app
  <2>2. call[m] = "accept" \/ call[m] \in MuxCalls
    BY <1>1, <2>1 DEF LoopAt, AcceptLabels
  <2>3. CASE call[m] = "accept"
    <3>1. Goto(m, "set_block")
      BY <1>4, <2>3 DEF SemWait
    <3>2. pc'[m] = "set_block" /\ UNCHANGED call
      BY <1>0, <3>1 DEF Goto
    <3>3. Flag(m)'
      BY <1>1, <2>1, <2>3, <3>2 DEF Flag, Listeners, MuxCalls
    <3>4. LoopAt("set_block", call[m])
      BY <2>3 DEF LoopAt, AcceptLabels
    <3>5. QED
      BY <1>1, <2>1, <3>1, <3>3, <3>4, GotoKeeps
  <2>4. CASE call[m] \in MuxCalls
    <3>1. Goto(m, "report")
      BY <1>4, <2>4 DEF SemWait, MuxCalls
    <3>2. pc'[m] = "report" /\ UNCHANGED call
      BY <1>0, <3>1 DEF Goto
    <3>3. Flag(m)'
      BY <1>1, <2>1, <2>4, <3>2 DEF Flag, Listeners, MuxCalls
    <3>4. LoopAt("report", call[m])
      BY <2>4 DEF LoopAt, MuxLabels
    <3>5. QED
      BY <1>1, <2>1, <3>1, <3>3, <3>4, GotoKeeps
  <2>5. QED
    BY <2>2, <2>3, <2>4
<1>5. CASE MuxUnblock(m)
  <2>1. call[m] \in MuxCalls
    BY <1>1, <1>5 DEF LoopAt, MuxUnblock, AcceptLabels
  <2>2. /\ UNCHANGED <<fd_table, origin, opened>> /\ accept_block' = 1 /\ Return(m)
        /\ ready' = [ready EXCEPT ![m] = {f \in ready[m] : LISTENING_FD(fd_table, f)}]
    BY <1>5 DEF MuxUnblock, Report, app
  <2>3. ready[m] \subseteq Fds /\ ready[m] \cap Listeners = {}
    BY <1>0, <1>1, <2>1 DEF Flag
  <2>4. ready'[m] = {} /\ \A t \in Threads \ {m} : ready'[t] = ready[t]
    BY <1>0, <1>2, <2>2, <2>3
  <2>5. \A f \in TableFds : OwnRegistration(f) => OwnRegistration(f)'
    BY <2>2 DEF OwnRegistration
  <2>6. QED
    BY <1>1, <2>2, <2>4, <2>5, ReturnKeeps
<1>6. CASE MuxReport(m)
  <2>1. call[m] \in MuxCalls /\ pc[m] # "arm"
    BY <1>1, <1>6 DEF LoopAt, MuxReport, AcceptLabels
  <2>2. arg[m] \in Listeners /\ accept_block = 0 /\ ready[m] \cap Listeners = {}
    BY <1>1, <2>1 DEF Marks, Flag
  <2>3. call[m] = "epoll_wait" => fd_table[arg[m]].data = arg[m]
    BY <1>1 DEF Registrations
  <2>4. ready' = [ready EXCEPT ![m] = {f \in ready[m] \cup {arg[m]} : LISTENING_FD(fd_table, f)}]
    BY <1>6, <2>3 DEF MuxReport, Report
  <2>5. ready[m] \subseteq Fds /\ arg[m] \in Fds
    BY <1>0, <2>2 DEF Listeners
  <2>6. ready'[m] = {arg[m]} /\ \A t \in Threads \ {m} : ready'[t] = ready[t]
    BY <1>0, <1>2, <2>2, <2>4, <2>5
  <2>7. UNCHANGED <<accept_block, origin, opened>> /\ Return(m)
    BY <1>6 DEF MuxReport, app
  <2>8. \A f \in TableFds : /\ fd_table'[f].desock = fd_table[f].desock
                            /\ fd_table'[f].listening = fd_table[f].listening
                            /\ OwnRegistration(f) => OwnRegistration(f)'
    <3>1. UNCHANGED fd_table \/ \E fs : fd_table' = disarm_oneshot(fd_table, fs)
      BY <1>6 DEF MuxReport
    <3>2. CASE UNCHANGED fd_table
      BY <3>2 DEF OwnRegistration
    <3>3. QED
      BY <3>1, <3>2, DisarmKeeps
  <2>9. QED
    BY <1>1, <2>2, <2>6, <2>7, <2>8, ReturnKeeps
<1>7. QED
  BY <1>3, <1>4, <1>5, <1>6

LEMMA AcceptKeeps ==
  ASSUME NEW m \in Threads, LoopApp(m), TypeInv, OwnInv, LoopInv(m),
         \/ AcceptCall(m) \/ GetNameCall(m) \/ AcceptBlock(m) \/ AcceptSetBlock(m)
         \/ AcceptDupFails(m) \/ AcceptDup(m) \/ FillSockaddr(m)
         \/ CheckMax(m) /\ ~Finish(m)
  PROVE  LoopInv(m)'
<1>0. /\ ready \in [Threads -> SUBSET Fds] /\ pc \in [Threads -> Labels]
      /\ call \in [Threads -> CallNames] /\ new \in [Threads -> Fds \cup {NoFd}]
      /\ arg \in [Threads -> Fds \cup {NoFd}] /\ accept_block \in {0, 1}
  BY DEF TypeInv, WorldOK, CpuOK
<1>1. /\ LoopAt(pc[m], call[m]) /\ Flag(m) /\ Marks(m) /\ Registrations(m)
      /\ \A f, g \in Listeners : f = g
  BY DEF LoopInv, Places, OneSocket, IsSock, Listeners
<1>2. UNCHANGED <<fd_table, origin, opened>>
  BY DEF AcceptCall, GetNameCall, AcceptBlock, AcceptSetBlock, AcceptDupFails, AcceptDup,
         FillSockaddr, CheckMax, lib, app
<1>3. /\ Listeners' = Listeners
      /\ \A f \in TableFds : OwnRegistration(f)' <=> OwnRegistration(f)
  BY <1>2 DEF Listeners, OwnRegistration
<1>4. /\ pc[m] # "unlisten"
      /\ pc[m] \in {"block", "set_block", "dup", "fill"} => call[m] = "accept"
  BY <1>1 DEF AcceptCall, GetNameCall, AcceptBlock, AcceptSetBlock, AcceptDupFails, AcceptDup,
              FillSockaddr, CheckMax, MayCall, LoopAt, MuxLabels, AcceptLabels
<1>5. CASE AcceptCall(m) \/ GetNameCall(m)
  <2>1. /\ pc[m] = "idle" /\ UNCHANGED <<ready, accept_block>>
        /\ \A f \in Fds : LISTENING_FD(fd_table, f) <=> f \in Listeners
    BY <1>1, <1>5 DEF AcceptCall, GetNameCall, MayCall, lib, Marks
  <2>2. call[m] = "none"
    BY <1>1, <2>1 DEF LoopAt, AcceptLabels, MuxLabels
  <2>3. \/ \E f \in Listeners : Enter(m, "accept", f, NoFd, "block")
        \/ \E f : Enter(m, "getname", f, NoFd, "name")
    BY <1>5, <2>1 DEF AcceptCall, GetNameCall, HeldDesocked, Held
  <2>4. /\ pc'[m] \in {"block", "name"} /\ call'[m] \in {"accept", "getname"}
        /\ LoopAt(pc'[m], call'[m])
        /\ call'[m] = "accept" => pc'[m] = "block" /\ arg'[m] \in Listeners
    BY <1>0, <2>3 DEF Enter, LoopAt, AcceptLabels
  <2>5. Flag(m)'
    BY <1>1, <1>3, <2>1, <2>2, <2>4 DEF Flag, MuxCalls
  <2>6. QuietEffect(m)
    BY <1>2, <1>3, <2>1, <2>2, <2>4 DEF QuietEffect, MuxCalls, NewLabels, Filled
  <2>7. Moves(m)
    BY <2>3 DEF Moves
  <2>8. QED
    BY <2>5, <2>6, <2>7, QuietKeeps
<1>6. CASE AcceptBlock(m)
  <2>1. call[m] = "accept" /\ UNCHANGED <<accept_block, ready>>
    BY <1>4, <1>6 DEF AcceptBlock, lib
  <2>2. PICK l \in {"sem_wait", "set_block"} :
          Goto(m, l) /\ (l = "sem_wait" => accept_block = 1)
    BY <1>6 DEF AcceptBlock
  <2>3. pc'[m] = l /\ UNCHANGED call
    BY <1>0, <2>2 DEF Goto
  <2>4. LoopAt(l, call[m])
    BY <2>1, <2>2 DEF LoopAt, AcceptLabels
  <2>5. Flag(m)'
    BY <1>1, <1>3, <2>1, <2>2, <2>3 DEF Flag, MuxCalls
  <2>6. pc[m] \notin NewLabels
    BY <1>6 DEF AcceptBlock, NewLabels
  <2>7. QED
    BY <1>2, <1>4, <2>1, <2>2, <2>4, <2>5, <2>6, GotoKeeps
<1>7. CASE AcceptSetBlock(m)
  <2>1. call[m] = "accept" /\ Goto(m, "dup") /\ accept_block' = 1
    BY <1>4, <1>7 DEF AcceptSetBlock
  <2>2. ready' = [ready EXCEPT ![m] = ready[m] \ {arg[m]}]
    BY <1>7 DEF AcceptSetBlock
  <2>3. ready[m] \subseteq Listeners /\ arg[m] \in Listeners
    BY <1>1, <2>1 DEF Flag, Marks, MuxCalls
  <2>4. ready[m] \ {arg[m]} = {}
    BY <1>1, <2>3
  <2>5. ready'[m] = {} /\ \A t \in Threads \ {m} : ready'[t] = ready[t]
    BY <1>0, <2>2, <2>4
  <2>6. pc'[m] = "dup" /\ UNCHANGED call
    BY <1>0, <2>1 DEF Goto
  <2>7. Flag(m)'
    BY <2>1, <2>5, <2>6 DEF Flag, MuxCalls
  <2>8. LoopAt("dup", call[m]) /\ pc[m] \notin NewLabels
    BY <1>7, <2>1 DEF LoopAt, AcceptLabels, AcceptSetBlock, NewLabels
  <2>9. QED
    BY <1>2, <1>4, <2>1, <2>5, <2>7, <2>8, GotoKeeps
<1>8. CASE AcceptDupFails(m)
  <2>1. call[m] = "accept" /\ pc[m] = "dup" /\ Return(m) /\ UNCHANGED <<accept_block, ready>>
    BY <1>4, <1>8 DEF AcceptDupFails, lib
  <2>2. ready[m] \subseteq Listeners /\ (accept_block = 0 <=> ready[m] # {})
    BY <1>1, <2>1 DEF Flag, MuxCalls
  <2>3. QED
    BY <1>2, <1>3, <2>1, <2>2, ReturnKeeps DEF NewLabels
<1>9. CASE AcceptDup(m)
  <2>1. call[m] = "accept" /\ pc[m] = "dup" /\ UNCHANGED <<accept_block, ready>>
    BY <1>4, <1>9 DEF AcceptDup, lib
  <2>2. PICK f : Enter(m, "accept", arg[m], f, "clone")
    BY <1>9, <2>1 DEF AcceptDup
  <2>3. pc'[m] = "clone" /\ call'[m] = "accept" /\ arg'[m] = arg[m]
    BY <1>0, <2>2 DEF Enter
  <2>4. Flag(m)'
    BY <1>1, <1>3, <2>1, <2>3 DEF Flag, MuxCalls
  <2>5. LoopAt(pc'[m], call'[m])
    BY <2>3 DEF LoopAt, AcceptLabels
  <2>6. QuietEffect(m)
    BY <1>1, <1>2, <1>3, <2>1, <2>3, <2>5 DEF QuietEffect, Marks, MuxCalls, NewLabels, Filled
  <2>7. Moves(m)
    BY <2>2 DEF Moves
  <2>8. QED
    BY <2>4, <2>6, <2>7, QuietKeeps
<1>10. CASE FillSockaddr(m)
  <2>1. UNCHANGED <<accept_block, ready>>
    BY <1>10 DEF FillSockaddr, lib
  <2>2. CASE pc[m] = "name" /\ Return(m)
    <3>1. call[m] \notin MuxCalls
      BY <1>1, <2>2 DEF LoopAt, AcceptLabels, MuxLabels, MuxCalls
    <3>2. ready[m] \subseteq Listeners /\ (accept_block = 0 <=> ready[m] # {})
      BY <1>1, <3>1 DEF Flag
    <3>3. QED
      BY <1>2, <1>3, <2>1, <2>2, <3>2, ReturnKeeps DEF NewLabels
  <2>3. CASE pc[m] = "fill" /\ Goto(m, "check_max")
    <3>1. call[m] = "accept" /\ Filled(m) /\ LoopAt("check_max", call[m])
      BY <1>4, <2>3 DEF Filled, LoopAt
    <3>2. pc'[m] = "check_max" /\ UNCHANGED call
      BY <1>0, <2>3 DEF Goto
    <3>3. Flag(m)'
      BY <1>1, <1>3, <2>1, <2>3, <3>1, <3>2 DEF Flag, MuxCalls
    <3>4. QED
      BY <1>2, <1>4, <2>1, <2>3, <3>1, <3>3, GotoKeeps DEF NewLabels
  <2>4. QED
    BY <1>10, <2>2, <2>3 DEF FillSockaddr
<1>11. CASE CheckMax(m) /\ ~Finish(m)
  <2>1. pc[m] = "check_max" /\ Goto(m, "write_max") /\ UNCHANGED <<accept_block, ready>>
    BY <1>11 DEF CheckMax, lib
  <2>2. LoopAt("write_max", call[m]) /\ (call[m] = "accept" => Filled(m))
    BY <1>1, <2>1 DEF LoopAt, AcceptLabels, MuxLabels, Filled
  <2>3. pc'[m] = "write_max" /\ UNCHANGED call
    BY <1>0, <2>1 DEF Goto
  <2>4. Flag(m)'
    BY <1>1, <1>3, <2>1, <2>3 DEF Flag, MuxCalls
  <2>5. QED
    BY <1>2, <2>1, <2>2, <2>4, GotoKeeps DEF NewLabels
<1>12. QED
  BY <1>5, <1>6, <1>7, <1>8, <1>9, <1>10, <1>11

LEMMA EpollCtlKeeps ==
  ASSUME NEW m \in Threads, TypeInv, OwnInv, LoopInv(m), EpollCtlCall(m)
  PROVE  LoopInv(m)'
<1>0. fd_table \in Table /\ \A f \in TableFds : fd_table[f] \in Entry
  BY DEF TypeInv, TableOK, Table
<1>1. PICK f \in Held, e \in Epolls :
        /\ VALID_FD(f)
        /\ \/ \E once \in Oneshot :
                fd_table' = [fd_table EXCEPT ![f] =
                               [@ EXCEPT !.epfd = e, !.oneshot = once, !.data = f]]
           \/ fd_table' = [fd_table EXCEPT ![f].epfd = -1]
  BY DEF EpollCtlCall
<1>2. f \in TableFds \cap Fds
  BY <1>1 DEF VALID_FD, Held
<1>3. \E x : /\ fd_table' = [fd_table EXCEPT ![f] = x]
             /\ x.desock = fd_table[f].desock /\ x.listening = fd_table[f].listening
             /\ x.epfd \in Epolls => x.data = f
  <2>1. ASSUME NEW once \in Oneshot,
               fd_table' = [fd_table EXCEPT ![f] =
                              [fd_table[f] EXCEPT !.epfd = e, !.oneshot = once, !.data = f]]
        PROVE  \E x : /\ fd_table' = [fd_table EXCEPT ![f] = x]
                      /\ x.desock = fd_table[f].desock /\ x.listening = fd_table[f].listening
                      /\ x.epfd \in Epolls => x.data = f
    <3> DEFINE x == [fd_table[f] EXCEPT !.epfd = e, !.oneshot = once, !.data = f]
    <3>1. x.desock = fd_table[f].desock /\ x.listening = fd_table[f].listening /\ x.data = f
      BY <1>0, <1>2 DEF Entry
    <3>2. fd_table' = [fd_table EXCEPT ![f] = x]
      BY <2>1
    <3> HIDE DEF x
    <3>3. QED
      BY <3>1, <3>2
  <2>2. ASSUME fd_table' = [fd_table EXCEPT ![f] = [fd_table[f] EXCEPT !.epfd = -1]]
        PROVE  \E x : /\ fd_table' = [fd_table EXCEPT ![f] = x]
                      /\ x.desock = fd_table[f].desock /\ x.listening = fd_table[f].listening
                      /\ x.epfd \in Epolls => x.data = f
    <3> DEFINE x == [fd_table[f] EXCEPT !.epfd = -1]
    <3>1. x.desock = fd_table[f].desock /\ x.listening = fd_table[f].listening /\ x.epfd \notin Epolls
      BY <1>0, <1>2, FdTableAssumption DEF Entry
    <3>2. fd_table' = [fd_table EXCEPT ![f] = x]
      BY <2>2
    <3> HIDE DEF x
    <3>3. QED
      BY <3>1, <3>2
  <2>3. QED
    BY <1>1, <2>1, <2>2
<1>4. \A g \in TableFds : /\ fd_table'[g].desock = fd_table[g].desock
                          /\ fd_table'[g].listening = fd_table[g].listening
                          /\ OwnRegistration(g) => OwnRegistration(g)'
  BY <1>0, <1>2, <1>3 DEF Table, OwnRegistration
<1>5. UNCHANGED <<origin, opened, accept_block, ready, pc, call, arg, new>> /\ pc[m] = "idle"
  BY DEF EpollCtlCall, MayCall, app, cpu
<1>6. LoopAt(pc[m], call[m]) /\ Flag(m)
  BY DEF LoopInv, Places
<1>7. call[m] = "none"
  BY <1>5, <1>6 DEF LoopAt, AcceptLabels, MuxLabels
<1>8. Flag(m)'
  BY <1>5, <1>6 DEF Flag, Listeners
<1>9. QuietEffect(m)
  BY <1>4, <1>5, <1>6, <1>7 DEF QuietEffect, MuxCalls, NewLabels, Filled
<1>10. Moves(m)
  BY DEF EpollCtlCall, Moves
<1>11. QED
  BY <1>8, <1>9, <1>10, QuietKeeps

\* The other threads are where they were.
LEMMA OthersPlaced ==
  ASSUME NEW m \in Threads, TypeInv, Places(m), Moves(m), UNCHANGED ready,
         LoopAt(pc'[m], call'[m])
  PROVE  /\ Places(m)'
         /\ \A f \in Fds : (\E t \in Threads : Closes(t, f)) => \E t \in Threads : Closes(t, f)'
<1>1. \A u \in Threads \ {m} : pc'[u] = pc[u] /\ call'[u] = call[u] /\ arg'[u] = arg[u]
  BY DEF TypeInv, CpuOK, Moves, Enter, Goto, cpu
<1>2. pc[m] \notin CloseLabels
  BY DEF Places, LoopAt, CloseLabels, AcceptLabels, MuxLabels
<1>3. \A f \in Fds : (\E t \in Threads : Closes(t, f)) => \E t \in Threads : Closes(t, f)'
  BY <1>1, <1>2 DEF Closes
<1>4. QED
  BY <1>1, <1>3 DEF Places

LEMMA SocketKeeps ==
  ASSUME NEW m \in Threads, LoopApp(m), TypeInv, OwnInv, LoopInv(m), SocketCall(m)
  PROVE  LoopInv(m)'
<1>0. /\ fd_table \in Table /\ (\A f \in TableFds : fd_table[f] \in Entry)
      /\ origin \in [Fds -> Origins] /\ opened \in Nat
      /\ pc \in [Threads -> Labels] /\ call \in [Threads -> CallNames]
      /\ arg \in [Threads -> Fds \cup {NoFd}] /\ new \in [Threads -> Fds \cup {NoFd}]
  BY DEF TypeInv, WorldOK, TableOK, Table, CpuOK
<1>1. /\ LoopAt(pc[m], call[m]) /\ Places(m) /\ OneSocket(m) /\ Marks(m) /\ Flag(m)
      /\ Registrations(m) /\ Streams(m)
  BY DEF LoopInv, Places
<1>2. pc[m] = "idle" /\ opened = 0 /\ opened' = 1 /\ UNCHANGED <<accept_block, ready>>
  BY <1>0, ConnPoolAssumption DEF SocketCall, MayCall, LoopApp
<1>3. call[m] = "none" /\ \A f \in Fds : ~IsSock(m, f)
  BY <1>1, <1>2 DEF LoopAt, AcceptLabels, MuxLabels, OneSocket
<1>4. Listeners = {} /\ ready[m] = {} /\ (accept_block = 0 <=> ready[m] # {})
  BY <1>1, <1>3 DEF Listeners, IsSock, Flag, MuxCalls
<1>m. Moves(m)
  BY EveryStepMoves DEF AppCall
<1>5. PICK f \in Fds, d \in SockDomains :
        /\ kernel[f] = "closed"
        /\ \/ /\ VALID_FD(f)
              /\ fd_table' = [fd_table EXCEPT ![f] = [clear_fd_table_entry(@) EXCEPT !.domain = d]]
              /\ Enter(m, "socket", NoFd, f, "check_max")
              /\ UNCHANGED origin
           \/ /\ ~VALID_FD(f)
              /\ HandOver(f, "socket")
              /\ UNCHANGED <<fd_table, cpu>>
  BY DEF SocketCall, LowestFree
<1>6. origin[f] = "none" /\ f \notin Conns
  BY <1>5 DEF OwnInv, OwnersOpen, Held, Conns
<1>7. CASE /\ VALID_FD(f)
           /\ fd_table' = [fd_table EXCEPT ![f] = [clear_fd_table_entry(@) EXCEPT !.domain = d]]
           /\ Enter(m, "socket", NoFd, f, "check_max")
           /\ UNCHANGED origin
  <2>1. pc'[m] = "check_max" /\ call'[m] = "socket" /\ new'[m] = f
    BY <1>0, <1>7 DEF Enter
  <2>2. f \in TableFds
    BY <1>7 DEF VALID_FD
  <2> DEFINE x == [clear_fd_table_entry(fd_table[f]) EXCEPT !.domain = d]
  <2>3. x.desock = 0 /\ x.listening = 0 /\ x.epfd = -1
    BY <1>0, <2>2 DEF clear_fd_table_entry, Entry
  <2>4. \A g \in TableFds : fd_table'[g] = IF g = f THEN x ELSE fd_table[g]
    <3>1. fd_table' = [fd_table EXCEPT ![f] = x]
      BY <1>7
    <3> HIDE DEF x
    <3>2. QED
      BY <1>0, <3>1 DEF Table
  <2> HIDE DEF x
  <2>5. Listeners' = {} /\ Conns' = Conns
    BY <1>4, <1>7 DEF Listeners, Conns
  <2>6. LoopAt(pc'[m], call'[m])
    BY <2>1 DEF LoopAt
  <2>7. /\ Places(m)'
        /\ \A g \in Fds : (\E t \in Threads : Closes(t, g)) => \E t \in Threads : Closes(t, g)'
    BY <1>1, <1>2, <1>m, <2>6, OthersPlaced
  <2>8. OneSocket(m)'
    <3>1. \A g \in Fds : IsSock(m, g)' => g = f
      BY <1>3, <1>7, <2>1 DEF IsSock, Creates
    <3>2. QED
      BY <1>1, <1>2, <1>7, <3>1 DEF OneSocket
  <2>9. Marks(m)'
    <3>1. \A g \in Fds : ~LISTENING_FD(fd_table, g)
      BY <1>1, <1>2, <1>4 DEF Marks
    <3>2. \A g \in Fds : ~LISTENING_FD(fd_table', g)
      BY <2>3, <2>4, <3>1 DEF LISTENING_FD, DESOCK_FD, VALID_FD
    <3>3. QED
      BY <2>1, <2>5, <3>2 DEF Marks, MuxCalls
  <2>10. Flag(m)'
    BY <1>2, <1>4, <2>1 DEF Flag, MuxCalls
  <2>11. Registrations(m)'
    <3>1. \A g \in TableFds \cap Fds : OwnRegistration(g) \/ g \in Conns
      BY <1>1, <1>3 DEF Registrations
    <3>2. \A g \in TableFds : OwnRegistration(g) => OwnRegistration(g)'
      BY <2>3, <2>4, FdTableAssumption DEF OwnRegistration
    <3>3. QED
      BY <2>1, <2>5, <3>1, <3>2 DEF Registrations
  <2>12. Streams(m)'
    <3>1. \A g \in TableFds \cap Fds : fd_table'[g].desock = 1 /\ fd_table'[g].listening = 0 =>
            g \in Conns' \/ origin'[g] = "socket" \/ \E t \in Threads : Closes(t, g)'
      <4> SUFFICES ASSUME NEW g \in TableFds \cap Fds,
                          fd_table'[g].desock = 1, fd_table'[g].listening = 0
                   PROVE  g \in Conns' \/ origin'[g] = "socket" \/ \E t \in Threads : Closes(t, g)'
        OBVIOUS
      <4>1. g # f /\ fd_table'[g] = fd_table[g]
        BY <2>3, <2>4
      <4>2. g \in Conns \/ origin[g] = "socket" \/ \E t \in Threads : Closes(t, g)
        BY <1>1, <1>3, <4>1 DEF Streams
      <4>3. (\E t \in Threads : Closes(t, g)) => \E t \in Threads : Closes(t, g)'
        BY <2>7
      <4>4. QED
        BY <1>7, <2>5, <4>2, <4>3
    <3>2. \A g \in Conns' : g \in TableFds /\ fd_table'[g].desock = 1 /\ fd_table'[g].listening = 0
      BY <1>1, <1>6, <2>4, <2>5 DEF Streams
    <3>3. QED
      BY <2>1, <3>1, <3>2 DEF Streams, Filled
  <2>13. QED
    BY <2>7, <2>8, <2>9, <2>10, <2>11, <2>12 DEF LoopInv
<1>8. CASE /\ ~VALID_FD(f)
           /\ HandOver(f, "socket")
           /\ UNCHANGED <<fd_table, cpu>>
  <2>1. \A g \in Fds : origin'[g] = IF g = f THEN "socket" ELSE origin[g]
    BY <1>0, <1>8 DEF HandOver
  <2>2. UNCHANGED <<fd_table, pc, call, arg, new>> /\ f \notin TableFds
    BY <1>8 DEF cpu, VALID_FD
  <2>3. Listeners' = Listeners /\ Conns' = Conns
    BY <1>6, <2>1 DEF Listeners, Conns
  <2>4. Places(m)' /\ Flag(m)'
    BY <1>1, <1>2, <2>2, <2>3 DEF Places, Flag
  <2>5. OneSocket(m)'
    <3>1. \A g \in Fds : IsSock(m, g)' => g = f
      BY <1>3, <2>1, <2>2 DEF IsSock, Creates
    <3>2. QED
      BY <1>1, <1>2, <2>1, <3>1 DEF OneSocket
  <2>6. Marks(m)'
    BY <1>1, <2>2, <2>3 DEF Marks
  <2>7. Registrations(m)'
    BY <1>1, <2>2, <2>3 DEF Registrations, OwnRegistration, Creates
  <2>8. Streams(m)'
    <3>1. \A g \in TableFds \cap Fds : origin'[g] = origin[g]
      BY <2>1, <2>2
    <3>2. QED
      BY <1>1, <2>2, <2>3, <3>1 DEF Streams, Creates, Closes, Filled
  <2>9. QED
    BY <2>4, <2>5, <2>6, <2>7, <2>8 DEF LoopInv
<1>9. QED
  BY <1>5, <1>7, <1>8

LEMMA SetUpKeeps ==
  ASSUME NEW m \in Threads, TypeInv, OwnInv, DesockedIsInet, LoopInv(m),
         BindCall(m) \/ ConnectCall(m) \/ ListenCall(m)
  PROVE  LoopInv(m)'
<1>0. /\ fd_table \in Table /\ \A f \in TableFds : fd_table[f] \in Entry
      /\ origin \in [Fds -> Origins]
  BY DEF TypeInv, WorldOK, TableOK, Table
<1>1. /\ LoopAt(pc[m], call[m]) /\ Places(m) /\ OneSocket(m) /\ Marks(m) /\ Flag(m)
      /\ Registrations(m) /\ Streams(m)
  BY DEF LoopInv, Places
<1>2. pc[m] = "idle" /\ UNCHANGED <<accept_block, ready, opened, pc, call, arg, new>>
  BY DEF BindCall, ConnectCall, MarkDesock, ListenCall, MayCall, app, cpu
<1>3. call[m] = "none"
  BY <1>1, <1>2 DEF LoopAt, AcceptLabels, MuxLabels
<1>4. PICK f \in TableFds \cap Fds :
        /\ origin[f] = "socket"
        /\ \/ fd_table' = [fd_table EXCEPT ![f].desock = 1] /\ UNCHANGED origin
           \/ /\ fd_table[f].desock = 1
              /\ fd_table' = [fd_table EXCEPT ![f].listening = 1]
              /\ origin' = [origin EXCEPT ![f] = "listener"]
  BY DEF BindCall, ConnectCall, MarkDesock, ListenCall, HandOver, Held, HeldDesocked,
         has_supported_domain, DESOCK_FD, VALID_FD, app
<1>5. \A g \in TableFds : /\ g # f => fd_table'[g] = fd_table[g]
                          /\ fd_table'[g].epfd = fd_table[g].epfd
                          /\ fd_table'[g].data = fd_table[g].data
  BY <1>0, <1>4 DEF Table, Entry
<1>6. /\ fd_table'[f].desock = 1
      /\ fd_table'[f].listening = 1 <=> origin'[f] = "listener"
      /\ origin'[f] \in {"socket", "listener"}
      /\ \A g \in Fds : g # f => origin'[g] = origin[g]
  <2>1. fd_table[f].listening = 0
    <3>1. ~LISTENING_FD(fd_table, f)
      BY <1>1, <1>2, <1>4 DEF Marks, Listeners
    <3>2. QED
      BY <1>0, <3>1 DEF DesockedIsInet, LISTENING_FD, DESOCK_FD, VALID_FD, Entry
  <2>2. QED
    BY <1>0, <1>4, <2>1 DEF Table, Entry
<1>7. Conns' = Conns /\ f \notin Conns /\ Listeners \subseteq Listeners'
  BY <1>4, <1>6 DEF Conns, Listeners
<1>8. Places(m)'
  BY <1>1, <1>2 DEF Places
<1>9. OneSocket(m)'
  <2>1. \A g \in Fds : IsSock(m, g)' <=> IsSock(m, g)
    BY <1>2, <1>4, <1>6 DEF IsSock, Creates
  <2>2. QED
    BY <1>1, <1>2, <1>6, <2>1 DEF OneSocket
<1>10. Marks(m)'
  <2>1. \A g \in Fds : LISTENING_FD(fd_table, g) <=> g \in Listeners
    BY <1>1, <1>2 DEF Marks
  <2>2. \A g \in Fds \ {f} : /\ LISTENING_FD(fd_table', g) <=> LISTENING_FD(fd_table, g)
                             /\ g \in Listeners' <=> g \in Listeners
    BY <1>5, <1>6 DEF LISTENING_FD, DESOCK_FD, VALID_FD, Listeners
  <2>3. LISTENING_FD(fd_table', f) <=> f \in Listeners'
    BY <1>6 DEF LISTENING_FD, DESOCK_FD, VALID_FD, Listeners
  <2>4. \A g \in Fds : LISTENING_FD(fd_table', g) <=> g \in Listeners'
    BY <2>1, <2>2, <2>3
  <2>5. call'[m] = "none" /\ Listeners' \subseteq Fds
    BY <1>2, <1>3 DEF Listeners
  <2>6. QED
    BY <2>4, <2>5 DEF Marks, MuxCalls
<1>11. Flag(m)'
  BY <1>1, <1>2, <1>3, <1>7 DEF Flag, MuxCalls
<1>12. Registrations(m)'
  <2>1. \A g \in TableFds \cap Fds : OwnRegistration(g) \/ g \in Conns
    BY <1>1, <1>3 DEF Registrations
  <2>2. \A g \in TableFds : OwnRegistration(g) => OwnRegistration(g)'
    BY <1>5 DEF OwnRegistration
  <2>3. QED
    BY <1>2, <1>3, <1>7, <2>1, <2>2 DEF Registrations
<1>13. Streams(m)'
  <2>1. \A g \in TableFds \cap Fds : fd_table'[g].desock = 1 /\ fd_table'[g].listening = 0 =>
          g \in Conns' \/ origin'[g] = "socket" \/ \E t \in Threads : Closes(t, g)'
    <3>1. \A g \in TableFds \cap Fds : fd_table[g].desock = 1 /\ fd_table[g].listening = 0 =>
            g \in Conns \/ origin[g] = "socket" \/ \E t \in Threads : Closes(t, g)
      BY <1>1, <1>3 DEF Streams
    <3>2. \A g : (\E t \in Threads : Closes(t, g)) => \E t \in Threads : Closes(t, g)'
      BY <1>2 DEF Closes
    <3>3. QED
      BY <1>5, <1>6, <1>7, <3>1, <3>2
  <2>2. \A g \in Conns' : g \in TableFds /\ fd_table'[g].desock = 1 /\ fd_table'[g].listening = 0
    BY <1>1, <1>5, <1>7 DEF Streams
  <2>3. QED
    BY <1>2, <2>1, <2>2 DEF Streams, Filled
<1>14. QED
  BY <1>8, <1>9, <1>10, <1>11, <1>12, <1>13 DEF LoopInv

LEMMA CloneKeeps ==
  ASSUME NEW m \in Threads, TypeInv, OwnInv, LoopInv(m), AcceptClone(m)
  PROVE  LoopInv(m)'
<1>0. /\ fd_table \in Table /\ (\A f \in TableFds : fd_table[f] \in Entry)
      /\ pc \in [Threads -> Labels] /\ FrameOK(pc[m], arg[m], new[m])
      /\ \A f \in TableFds : fd_table[f].desock = 1 => f \in Fds
  BY DEF TypeInv, WorldOK, TableOK, Table, CpuOK
<1>1. /\ LoopAt(pc[m], call[m]) /\ Places(m) /\ OneSocket(m) /\ Marks(m) /\ Flag(m)
      /\ Registrations(m) /\ Streams(m)
  BY DEF LoopInv, Places
<1>2. /\ pc[m] = "clone" /\ Goto(m, "unlisten")
      /\ UNCHANGED <<accept_block, origin, opened, ready, call, arg, new>>
      /\ fd_table' = clone_fd_table_entry(fd_table, new[m], arg[m])
  BY DEF AcceptClone, Goto, app
<1>3. call[m] = "accept" /\ pc'[m] = "unlisten"
  BY <1>0, <1>1, <1>2 DEF LoopAt, MuxLabels, Goto
<1>4. /\ new[m] \in TableFds \cap Fds /\ Creates(m, new[m]) /\ Creates(m, new[m])'
      /\ origin[new[m]] = "none"
  BY <1>0, <1>2, <1>3 DEF FrameOK, NewLabels, Creates, OwnInv, OwnersOpen, Owns
<1>5. arg[m] \in Listeners /\ LISTENING_FD(fd_table, arg[m])
  BY <1>1, <1>3 DEF Marks
<1>6. /\ arg[m] \in TableFds /\ fd_table[arg[m]].desock = 1 /\ fd_table[arg[m]].listening = 1
  BY <1>5 DEF LISTENING_FD, DESOCK_FD, VALID_FD
<1>7. \A f \in TableFds : fd_table'[f] = IF f = new[m] THEN fd_table[arg[m]] ELSE fd_table[f]
  BY <1>0, <1>2, <1>4 DEF clone_fd_table_entry, Table
<1>8. /\ Listeners' = Listeners /\ Conns' = Conns
      /\ new[m] \notin Listeners /\ new[m] \notin Conns
  BY <1>2, <1>4 DEF Listeners, Conns
<1>m. Moves(m)
  BY <1>2 DEF Moves
<1>9. /\ Places(m)'
      /\ \A f \in Fds : (\E t \in Threads : Closes(t, f)) => \E t \in Threads : Closes(t, f)'
  <2>1. LoopAt(pc'[m], call'[m])
    BY <1>2, <1>3 DEF LoopAt, AcceptLabels
  <2>2. QED
    BY <1>1, <1>2, <1>m, <2>1, OthersPlaced
<1>10. OneSocket(m)'
  <2>1. \A f \in Fds : IsSock(m, f)' => IsSock(m, f)
    BY <1>2, <1>3 DEF IsSock
  <2>2. QED
    BY <1>1, <1>2, <2>1 DEF OneSocket
<1>11. Marks(m)'
  <2>1. \A f \in Fds : f # new[m] => (LISTENING_FD(fd_table', f) <=> LISTENING_FD(fd_table, f))
    BY <1>7 DEF LISTENING_FD, DESOCK_FD, VALID_FD
  <2>2. /\ \A f \in Listeners : LISTENING_FD(fd_table', f)
        /\ \A f \in Fds : LISTENING_FD(fd_table', f) => f \in Listeners \/ f = new[m]
    BY <1>1, <1>2, <1>8, <2>1 DEF Marks, Listeners
  <2>3. QED
    BY <1>1, <1>2, <1>3, <1>8, <2>2 DEF Marks
<1>12. Flag(m)'
  BY <1>1, <1>2, <1>3, <1>8 DEF Flag, MuxCalls
<1>13. Registrations(m)'
  <2>1. \A f \in TableFds \cap Fds : f # new[m] => (OwnRegistration(f)' <=> OwnRegistration(f))
    BY <1>7 DEF OwnRegistration
  <2>2. \A f \in TableFds \cap Fds : f # new[m] => ~Creates(m, f)
    BY DEF Creates
  <2>3. QED
    BY <1>1, <1>2, <1>3, <1>4, <1>8, <2>1, <2>2 DEF Registrations
<1>14. Streams(m)'
  <2>1. ASSUME NEW f \in TableFds \cap Fds, fd_table'[f].desock = 1, fd_table'[f].listening = 0
        PROVE  \/ f \in Conns' \/ origin'[f] = "socket"
               \/ call'[m] = "accept" /\ Creates(m, f)'
               \/ \E t \in Threads : Closes(t, f)'
    <3>1. f # new[m] /\ fd_table'[f] = fd_table[f]
      BY <1>6, <1>7, <2>1
    <3>2. \/ f \in Conns \/ origin[f] = "socket" \/ \E t \in Threads : Closes(t, f)
      BY <1>1, <2>1, <3>1 DEF Streams, Creates
    <3>3. (\E t \in Threads : Closes(t, f)) => \E t \in Threads : Closes(t, f)'
      BY <1>9
    <3>4. QED
      BY <1>2, <1>8, <3>2, <3>3
  <2>2. \A f \in Conns' : f \in TableFds /\ fd_table'[f].desock = 1 /\ fd_table'[f].listening = 0
    BY <1>1, <1>7, <1>8 DEF Streams
  <2>3. fd_table'[new'[m]].desock = 1
    BY <1>2, <1>4, <1>6, <1>7
  <2>4. ~Filled(m)'
    BY <1>3 DEF Filled
  <2>5. QED
    BY <2>1, <2>2, <2>3, <2>4 DEF Streams
<1>15. QED
  BY <1>9, <1>10, <1>11, <1>12, <1>13, <1>14 DEF LoopInv

LEMMA UnlistenKeeps ==
  ASSUME NEW m \in Threads, TypeInv, OwnInv, LoopInv(m), AcceptUnlisten(m)
  PROVE  LoopInv(m)'
<1>0. /\ fd_table \in Table /\ (\A f \in TableFds : fd_table[f] \in Entry)
      /\ pc \in [Threads -> Labels] /\ FrameOK(pc[m], arg[m], new[m])
  BY DEF TypeInv, WorldOK, TableOK, Table, CpuOK
<1>1. /\ LoopAt(pc[m], call[m]) /\ Places(m) /\ OneSocket(m) /\ Marks(m) /\ Flag(m)
      /\ Registrations(m) /\ Streams(m)
  BY DEF LoopInv, Places
<1>2. /\ pc[m] = "unlisten" /\ Goto(m, "fill")
      /\ UNCHANGED <<accept_block, origin, opened, ready, call, arg, new>>
      /\ fd_table' = [fd_table EXCEPT ![new[m]].listening = 0]
  BY DEF AcceptUnlisten, Goto, app
<1>3. call[m] = "accept" /\ pc'[m] = "fill"
  BY <1>0, <1>1, <1>2 DEF LoopAt, MuxLabels, Goto
<1>4. /\ new[m] \in TableFds \cap Fds /\ Creates(m, new[m]) /\ Creates(m, new[m])'
      /\ origin[new[m]] = "none"
  BY <1>0, <1>2, <1>3 DEF FrameOK, NewLabels, Creates, OwnInv, OwnersOpen, Owns
<1>5. fd_table[new[m]].desock = 1
  BY <1>1, <1>2 DEF Streams
<1>7. /\ \A f \in TableFds : f # new[m] => fd_table'[f] = fd_table[f]
      /\ fd_table'[new[m]].listening = 0 /\ fd_table'[new[m]].desock = 1
  BY <1>0, <1>2, <1>4, <1>5 DEF Table, Entry
<1>8. /\ Listeners' = Listeners /\ Conns' = Conns
      /\ new[m] \notin Listeners /\ new[m] \notin Conns
  BY <1>2, <1>4 DEF Listeners, Conns
<1>m. Moves(m)
  BY <1>2 DEF Moves
<1>9. /\ Places(m)'
      /\ \A f \in Fds : (\E t \in Threads : Closes(t, f)) => \E t \in Threads : Closes(t, f)'
  <2>1. LoopAt(pc'[m], call'[m])
    BY <1>2, <1>3 DEF LoopAt, AcceptLabels
  <2>2. QED
    BY <1>1, <1>2, <1>m, <2>1, OthersPlaced
<1>10. OneSocket(m)'
  <2>1. \A f \in Fds : IsSock(m, f)' => IsSock(m, f)
    BY <1>2, <1>3 DEF IsSock
  <2>2. QED
    BY <1>1, <1>2, <2>1 DEF OneSocket
<1>11. Marks(m)'
  <2>1. \A f \in Fds : f # new[m] => (LISTENING_FD(fd_table', f) <=> LISTENING_FD(fd_table, f))
    BY <1>7 DEF LISTENING_FD, DESOCK_FD, VALID_FD
  <2>2. ~LISTENING_FD(fd_table', new[m])
    BY <1>7 DEF LISTENING_FD
  <2>3. /\ \A f \in Listeners : LISTENING_FD(fd_table', f)
        /\ \A f \in Fds : LISTENING_FD(fd_table', f) => f \in Listeners
    BY <1>1, <1>2, <1>8, <2>1, <2>2 DEF Marks, Listeners
  <2>4. QED
    BY <1>1, <1>2, <1>3, <1>8, <2>3 DEF Marks
<1>12. Flag(m)'
  BY <1>1, <1>2, <1>3, <1>8 DEF Flag, MuxCalls
<1>13. Registrations(m)'
  <2>1. \A f \in TableFds \cap Fds : f # new[m] => (OwnRegistration(f)' <=> OwnRegistration(f))
    BY <1>7 DEF OwnRegistration
  <2>2. \A f \in TableFds \cap Fds : f # new[m] => ~Creates(m, f)
    BY DEF Creates
  <2>3. QED
    BY <1>1, <1>2, <1>3, <1>4, <1>8, <2>1, <2>2 DEF Registrations
<1>14. Streams(m)'
  <2>1. ASSUME NEW f \in TableFds \cap Fds, fd_table'[f].desock = 1, fd_table'[f].listening = 0,
               f # new[m]
        PROVE  \/ f \in Conns' \/ origin'[f] = "socket" \/ \E t \in Threads : Closes(t, f)'
    <3>1. fd_table'[f] = fd_table[f]
      BY <1>7, <2>1
    <3>2. \/ f \in Conns \/ origin[f] = "socket" \/ \E t \in Threads : Closes(t, f)
      BY <1>1, <2>1, <3>1 DEF Streams, Creates
    <3>3. (\E t \in Threads : Closes(t, f)) => \E t \in Threads : Closes(t, f)'
      BY <1>9
    <3>4. QED
      BY <1>2, <1>8, <3>2, <3>3
  <2>2. \A f \in Conns' : f \in TableFds /\ fd_table'[f].desock = 1 /\ fd_table'[f].listening = 0
    BY <1>1, <1>7, <1>8 DEF Streams
  <2>3. fd_table'[new'[m]].desock = 1 /\ fd_table'[new'[m]].listening = 0
    BY <1>2, <1>7
  <2>4. pc'[m] # "unlisten" /\ call'[m] = "accept"
    BY <1>2, <1>3
  <2>5. ASSUME NEW f \in TableFds \cap Fds, fd_table'[f].desock = 1, fd_table'[f].listening = 0
        PROVE  \/ f \in Conns' \/ origin'[f] = "socket"
               \/ call'[m] = "accept" /\ Creates(m, f)'
               \/ \E t \in Threads : Closes(t, f)'
    <3>1. CASE f = new[m]
      BY <1>2, <1>4, <2>4, <3>1 DEF Creates
    <3>2. CASE f # new[m]
      BY <2>1, <2>5, <3>2
    <3>3. QED
      BY <3>1, <3>2
  <2>6. QED
    BY <2>2, <2>3, <2>4, <2>5 DEF Streams
<1>15. QED
  BY <1>9, <1>10, <1>11, <1>12, <1>13, <1>14 DEF LoopInv

LEMMA FinishKeeps ==
  ASSUME NEW m \in Threads, LoopApp(m), TypeInv, OwnInv, LoopInv(m), Finish(m),
         pc[m] \in {"check_max", "write_max"}, UNCHANGED <<accept_block, fd_table, opened, ready>>
  PROVE  LoopInv(m)'
<1>0. /\ origin \in [Fds -> Origins] /\ FrameOK(pc[m], arg[m], new[m])
  BY DEF TypeInv, WorldOK, CpuOK
<1>1. /\ LoopAt(pc[m], call[m]) /\ Places(m) /\ OneSocket(m) /\ Marks(m) /\ Flag(m)
      /\ Registrations(m) /\ Streams(m)
  BY DEF LoopInv, Places
<1>2. call[m] \in {"accept", "socket"} /\ call[m] \notin MuxCalls
  BY <1>1 DEF LoopAt, AcceptLabels, MuxLabels, MuxCalls
<1>3. Return(m) /\ Moves(m)
  BY DEF Finish, Return, Moves
<1>4. pc'[m] = "idle" /\ call'[m] = "none"
  BY <1>3 DEF TypeInv, CpuOK, Return, Enter
<1>5. /\ new[m] \in TableFds \cap Fds /\ Creates(m, new[m]) /\ origin[new[m]] = "none"
  BY <1>0 DEF FrameOK, NewLabels, Creates, OwnInv, OwnersOpen, Owns
<1>6. \A f \in Fds : origin'[f] = IF f # new[m] THEN origin[f]
                                  ELSE IF call[m] = "accept" THEN "conn" ELSE "socket"
  BY <1>0, <1>2 DEF Finish, HandOver
<1>7. Listeners' = Listeners
  BY <1>5, <1>6 DEF Listeners
<1>8. /\ \A f \in Conns : f \in Conns'
      /\ \A f \in Conns' : f \in Conns \/ (f = new[m] /\ call[m] = "accept")
      /\ call[m] = "accept" => new[m] \in Conns'
      /\ call[m] = "socket" => origin'[new[m]] = "socket"
  BY <1>2, <1>5, <1>6 DEF Conns
<1>9. /\ Places(m)'
      /\ \A f \in Fds : (\E t \in Threads : Closes(t, f)) => \E t \in Threads : Closes(t, f)'
  <2>1. LoopAt(pc'[m], call'[m])
    BY <1>4 DEF LoopAt
  <2>2. QED
    BY <1>1, <1>3, <2>1, OthersPlaced
<1>10. OneSocket(m)'
  <2>1. \A f \in Fds : IsSock(m, f)' => IsSock(m, f)
    BY <1>2, <1>4, <1>5, <1>6 DEF IsSock
  <2>2. \A f \in Fds : origin'[f] \in {"none", "socket", "listener", "conn"}
    BY <1>1, <1>6 DEF OneSocket
  <2>3. QED
    BY <1>1, <2>1, <2>2 DEF OneSocket
<1>11. Marks(m)'
  BY <1>1, <1>4, <1>7 DEF Marks, MuxCalls
<1>12. Flag(m)'
  BY <1>1, <1>2, <1>4, <1>7 DEF Flag, MuxCalls
<1>13. Registrations(m)'
  <2>1. \A f \in TableFds \cap Fds : OwnRegistration(f)' <=> OwnRegistration(f)
    BY DEF OwnRegistration
  <2>2. \A f \in TableFds \cap Fds : OwnRegistration(f) \/ f \in Conns'
    BY <1>1, <1>8 DEF Registrations, Creates
  <2>3. QED
    BY <1>4, <2>1, <2>2 DEF Registrations
<1>14. Streams(m)'
  <2>1. ASSUME NEW f \in TableFds \cap Fds, fd_table'[f].desock = 1, fd_table'[f].listening = 0
        PROVE  f \in Conns' \/ origin'[f] = "socket" \/ \E t \in Threads : Closes(t, f)'
    <3>1. \/ f \in Conns \/ origin[f] = "socket"
          \/ call[m] = "accept" /\ Creates(m, f)
          \/ \E t \in Threads : Closes(t, f)
      BY <1>1, <2>1 DEF Streams
    <3>2. (\E t \in Threads : Closes(t, f)) => \E t \in Threads : Closes(t, f)'
      BY <1>9
    <3>3. origin[f] = "socket" => origin'[f] = "socket"
      BY <1>5, <1>6
    <3>4. QED
      BY <1>8, <3>1, <3>2, <3>3 DEF Creates
  <2>2. \A f \in Conns' : f \in TableFds /\ fd_table'[f].desock = 1 /\ fd_table'[f].listening = 0
    <3>1. call[m] = "accept" => Filled(m)
      BY DEF Filled
    <3>2. QED
      BY <1>1, <1>5, <1>8, <3>1 DEF Streams
  <2>3. QED
    BY <1>4, <2>1, <2>2 DEF Streams, Filled
<1>15. QED
  BY <1>9, <1>10, <1>11, <1>12, <1>13, <1>14 DEF LoopInv

\* What the event loop does.
LoopStep(m) ==
  \/ SocketCall(m)
  \/ BindCall(m) \/ ConnectCall(m) \/ ListenCall(m)
  \/ EpollCtlCall(m)
  \/ PollCall(m) \/ SelectCall(m)
  \/ EpollWaitCall(m)
  \/ MuxArm(m) \/ MuxTry(m) \/ SemWait(m) \/ MuxUnblock(m) \/ MuxReport(m)
  \/ AcceptCall(m) \/ GetNameCall(m) \/ AcceptBlock(m) \/ AcceptSetBlock(m)
  \/ AcceptDupFails(m) \/ AcceptDup(m) \/ FillSockaddr(m)
  \/ AcceptClone(m)
  \/ AcceptUnlisten(m)
  \/ CheckMax(m) \/ WriteMax(m)

LEMMA OnlyLoopSteps ==
  ASSUME NEW m \in Threads, LoopApp(m), LoopInv(m), AppCall(m) \/ LibStep(m)
  PROVE  LoopStep(m)
<1>1. LoopAt(pc[m], call[m]) /\ Calls[m] \subseteq LoopCalls /\ m \notin Signals
  BY DEF LoopInv, Places, LoopApp
<1>2. CASE AppCall(m)
  <2>1. ~OpenCall(m) /\ ~CloseCall(m) /\ ~DupCall(m) /\ ~Dup2Call(m)
    BY <1>1 DEF OpenCall, CloseCall, DupCall, Dup2Call, MayCall, LoopCalls
  <2>2. QED
    BY <1>2, <2>1 DEF AppCall, LoopStep
<1>3. CASE LibStep(m)
  <2>1. /\ ~SemWaitInterrupted(m) /\ ~CopyEntry(m)
        /\ ~CloseGetValue(m) /\ ~ClosePost(m) /\ ~CloseClear(m) /\ ~CloseSysClose(m)
    BY <1>1 DEF SemWaitInterrupted, CopyEntry, CloseGetValue, ClosePost, CloseClear, CloseSysClose,
                LoopAt, AcceptLabels, MuxLabels
  <2>2. QED
    BY <1>3, <2>1 DEF LibStep, LoopStep
<1>4. QED
  BY <1>2, <1>3

LEMMA LoopStepKeeps ==
  ASSUME NEW m \in Threads, LoopApp(m), TypeInv, OwnInv, LoopInv(m), DesockedIsInet, LoopStep(m)
  PROVE  LoopInv(m)'
<1>1. CASE SocketCall(m)
  BY <1>1, SocketKeeps
<1>2. CASE BindCall(m) \/ ConnectCall(m) \/ ListenCall(m)
  BY <1>2, SetUpKeeps
<1>3. CASE EpollCtlCall(m)
  BY <1>3, EpollCtlKeeps
<1>4. CASE PollCall(m) \/ SelectCall(m)
  <2>1. Moves(m)
    BY <1>4, EveryStepMoves DEF AppCall
  <2>2. QED
    BY <1>4, <2>1, PollKeeps
<1>5. CASE EpollWaitCall(m)
  <2>1. Moves(m)
    BY <1>5, EveryStepMoves DEF AppCall
  <2>2. QED
    BY <1>5, <2>1, EpollWaitKeeps
<1>6. CASE MuxArm(m) \/ MuxTry(m) \/ SemWait(m) \/ MuxUnblock(m) \/ MuxReport(m)
  BY <1>6, MuxKeeps
<1>7. CASE \/ AcceptCall(m) \/ GetNameCall(m) \/ AcceptBlock(m) \/ AcceptSetBlock(m)
           \/ AcceptDupFails(m) \/ AcceptDup(m) \/ FillSockaddr(m)
           \/ CheckMax(m) /\ ~Finish(m)
  BY <1>7, AcceptKeeps
<1>8. CASE AcceptClone(m)
  BY <1>8, CloneKeeps
<1>9. CASE AcceptUnlisten(m)
  BY <1>9, UnlistenKeeps
<1>10. CASE CheckMax(m) /\ Finish(m)
  <2>1. pc[m] = "check_max" /\ UNCHANGED <<accept_block, fd_table, opened, ready>>
    BY <1>10 DEF CheckMax, lib
  <2>2. QED
    BY <1>10, <2>1, FinishKeeps
<1>11. CASE WriteMax(m)
  <2>1. pc[m] = "write_max" /\ Finish(m) /\ UNCHANGED <<accept_block, fd_table, opened, ready>>
    BY <1>11 DEF WriteMax
  <2>2. QED
    BY <2>1, FinishKeeps
<1>12. QED
  BY <1>1, <1>2, <1>3, <1>4, <1>5, <1>6, <1>7, <1>8, <1>9, <1>10, <1>11 DEF LoopStep

LEMMA LoopInductive ==
  ASSUME NEW m \in Threads, LoopApp(m), TypeInv, OwnInv, LoopInv(m), DesockedIsInet, [Next]_vars
  PROVE  LoopInv(m)'
<1>1. CASE UNCHANGED vars
  BY <1>1 DEF vars, lib, app, cpu, LoopInv, Places, OneSocket, IsSock, Creates, Closes, Filled, Marks,
              Flag, Registrations, OwnRegistration, Streams, Listeners, Conns
<1>2. ASSUME NEW t \in Threads, AppCall(t) \/ LibStep(t)
      PROVE  LoopInv(m)'
  <2>1. CASE t = m
    BY <1>2, <2>1, OnlyLoopSteps, LoopStepKeeps
  <2>2. CASE t # m
    <3>1. CloserEffect(t)
      BY <1>2, <2>2, CloserSteps
    <3>2. Moves(t)
      BY <1>2, EveryStepMoves
    <3>3. QED
      BY <2>2, <3>1, <3>2, ClosersKeep
  <2>3. QED
    BY <2>1, <2>2
<1>3. QED
  BY <1>1, <1>2 DEF Next

LEMMA LoopInvariant ==
  ASSUME NEW m \in Threads, LoopApp(m)
  PROVE  Spec => [](TypeInv /\ OwnInv /\ LoopInv(m))
<1> DEFINE Inv == TypeInv /\ OwnInv /\ LoopInv(m)
<1>1. Init => Inv
  BY InitType, OwnInit, LoopInit
<1>2. TypeInv /\ OwnInv /\ [Next]_vars => TypeInv' /\ OwnInv'
  BY TypeStep, OwnStep
<1>3. Inv /\ DesockedIsInet /\ [Next]_vars => Inv'
  BY <1>2, LoopInductive
<1>4. Spec => []DesockedIsInet
  BY DesockedInet
<1> HIDE DEF Inv
<1>5. Spec => []Inv
  BY <1>1, <1>3, <1>4, PTL DEF Spec
<1>6. QED
  BY <1>5 DEF Inv

-----------------------------------------------------------------------------
\* desock.c:33, for poll, select and epoll_wait: an event loop that accepts on a listener
\* just reported to it does not sleep, as long as no other thread takes the flag down.
THEOREM ReportedDoesNotBlock ==
  ASSUME NEW m \in Threads, LoopApp(m)
  PROVE  Spec => []ReportedAcceptDoesNotBlock
<1>1. TypeInv /\ LoopInv(m) => ReportedAcceptDoesNotBlock
  <2> SUFFICES ASSUME TypeInv, LoopInv(m), NEW t \in Threads, pc[t] = "sem_wait", call[t] = "accept"
               PROVE  arg[t] \notin ready[t]
    BY DEF ReportedAcceptDoesNotBlock
  <2>1. t = m
    BY DEF LoopInv, Places, CloserAt, CloseLabels
  <2>2. Flag(m)
    BY DEF LoopInv
  <2>3. QED
    BY <2>1, <2>2 DEF Flag, MuxCalls
<1>2. Spec => [](TypeInv /\ OwnInv /\ LoopInv(m))
  BY LoopInvariant
<1>3. QED
  BY <1>1, <1>2, PTL

-----------------------------------------------------------------------------
(* The tokens of an event loop *)

\* m owes a token from the wait to the return of accept, and, outside of the
\* multiplexers, as long as the flag is down; the others from the test of close to its post.
LoopOwes(m, t) ==
  \/ t = m /\ \/ Accepting(m) \/ pc[m] = "report"
              \/ call[m] \notin MuxCalls /\ accept_block = 0
  \/ t # m /\ Posting(t)

LoopOwingChar ==
  \A m \in Threads : TypeInv /\ LoopInv(m) => \A t \in Threads : t \in Owing <=> LoopOwes(m, t)

LEMMA LoopOwing == LoopOwingChar
<1> SUFFICES ASSUME NEW m \in Threads, TypeInv, LoopInv(m), NEW t \in Threads
             PROVE  t \in Owing <=> LoopOwes(m, t)
  BY DEF LoopOwingChar
<1>1. /\ Places(m) /\ LoopAt(pc[m], call[m]) /\ Marks(m) /\ Flag(m)
      /\ ready[m] \subseteq Fds
  BY DEF LoopInv, Places, TypeInv, WorldOK
<1>2. CASE t # m
  <2>1. CloserAt(pc[t], call[t]) /\ ready[t] = {}
    BY <1>1, <1>2 DEF Places
  <2>2. ~Accepting(t) /\ ~Reserving(t)
    BY <2>1 DEF CloserAt, Accepting, Reserving, CloseLabels
  <2>3. QED
    BY <1>2, <2>2 DEF Owing, LoopOwes
<1>3. CASE t = m
  <2>1. ~Posting(m)
    BY <1>1 DEF LoopAt, Posting, AcceptLabels, MuxLabels
  <2>2. CASE call[m] \in MuxCalls
    <3>1. pc[m] \in MuxLabels
      BY <1>1, <2>2 DEF LoopAt, MuxCalls
    <3>2. \A f \in ready[m] : ~LISTENING_FD(fd_table, f)
      BY <1>1, <2>2, <3>1 DEF Marks, Flag, MuxLabels
    <3>3. QED
      BY <1>3, <2>1, <2>2, <3>2 DEF Owing, LoopOwes, Reserving
  <2>3. CASE call[m] \notin MuxCalls
    <3>1. \A f \in ready[m] : LISTENING_FD(fd_table, f)
      BY <1>1, <2>3 DEF Marks, Flag
    <3>2. accept_block = 0 <=> ready[m] # {}
      BY <1>1, <2>3 DEF Flag
    <3>3. QED
      BY <1>3, <2>1, <2>3, <3>1, <3>2 DEF Owing, LoopOwes, Reserving
  <2>4. QED
    BY <2>2, <2>3
<1>4. QED
  BY <1>2, <1>3

\* When t moves, what the others owe stays.
LEMMA LoopOwingMove ==
  ASSUME NEW m \in Threads, TypeInv, TypeInv', LoopInv(m), LoopInv(m)', NEW t \in Threads, Moves(t),
         t # m => UNCHANGED accept_block
  PROVE  /\ t \in Owing <=> LoopOwes(m, t)
         /\ t \in Owing' <=> LoopOwes(m, t)'
         /\ LoopOwes(m, t)' => Owing' = Owing \cup {t}
         /\ ~LoopOwes(m, t)' => Owing' = Owing \ {t}
<1>1. \A u \in Threads \ {t} : pc'[u] = pc[u] /\ call'[u] = call[u]
  BY DEF TypeInv, CpuOK, Moves, Enter, Goto, cpu
<1>2. LoopOwingChar /\ LoopOwingChar'
  BY LoopOwing, PTL
<1>3. /\ \A u \in Threads : u \in Owing <=> LoopOwes(m, u)
      /\ \A u \in Threads : u \in Owing' <=> LoopOwes(m, u)'
  BY <1>2 DEF LoopOwingChar
<1>4. \A u \in Threads \ {t} : LoopOwes(m, u)' <=> LoopOwes(m, u)
  BY <1>1 DEF LoopOwes, Accepting, Posting
<1>5. Owing \subseteq Threads /\ Owing' \subseteq Threads
  BY DEF Owing
<1>6. QED
  BY <1>3, <1>4, <1>5

\* The ways in which a step of t moves tokens; the last is a loss.
LoopTokens(t) ==
  \/ sem' = sem /\ Conns' = Conns /\ Owing' = Owing
  \/ /\ sem > 0 /\ sem' = sem - 1 /\ Conns' = Conns
     /\ t \notin Owing /\ Owing' = Owing \cup {t}
  \/ /\ sem' = sem /\ t \in Owing /\ Owing' = Owing \ {t}
     /\ \E f \in Fds \ Conns : Conns' = Conns \cup {f}
  \/ /\ sem' = sem /\ t \notin Owing /\ Owing' = Owing \cup {t}
     /\ \E f \in Conns : Conns' = Conns \ {f}
  \/ sem' = sem + 1 /\ Conns' = Conns /\ t \in Owing /\ Owing' = Owing \ {t}
  \/ /\ AcceptDupFails(t) \/ (CloseGetValue(t) /\ sem >= MAX_CONNS)
     /\ sem' = sem /\ Conns' = Conns /\ Owing' \subseteq Owing

LEMMA LoopTokensMove ==
  ASSUME NEW t \in Threads, LoopTokens(t)
  PROVE  /\ TokenMove(t)
         /\ \/ TokenKeep(t)
            \/ AcceptDupFails(t)
            \/ CloseGetValue(t) /\ sem >= MAX_CONNS
BY DEF LoopTokens, TokenMove, TokenKeep

LEMMA CloserTokens ==
  ASSUME NEW m \in Threads, LoopApp(m), TypeInv, TypeInv', OwnInv, LoopInv(m), LoopInv(m)',
         NEW t \in Threads \ {m}, AppCall(t) \/ LibStep(t)
  PROVE  LoopTokens(t)
<1>0. /\ sem \in Nat /\ origin \in [Fds -> Origins] /\ MAX_CONNS \in Nat
      /\ FrameOK(pc[t], arg[t], new[t]) /\ pc \in [Threads -> Labels]
      /\ \A f \in TableFds : fd_table[f].desock = 1 => f \in Fds
  BY ConnPoolAssumption DEF TypeInv, WorldOK, CpuOK, TableOK
<1>1. CloserAt(pc[t], call[t]) /\ Calls[t] \subseteq {"close", "getname"}
  BY DEF LoopApp, LoopInv, Places
<1>2. UNCHANGED accept_block /\ Moves(t)
  BY CloserSteps, EveryStepMoves DEF CloserEffect
<1>3. /\ t \in Owing <=> Posting(t)
      /\ Posting(t)' => Owing' = Owing \cup {t}
      /\ ~Posting(t)' => Owing' = Owing \ {t}
  <2>1. /\ t \in Owing <=> LoopOwes(m, t)
        /\ LoopOwes(m, t)' => Owing' = Owing \cup {t}
        /\ ~LoopOwes(m, t)' => Owing' = Owing \ {t}
    BY <1>2, LoopOwingMove
  <2>2. (LoopOwes(m, t) <=> Posting(t)) /\ (LoopOwes(m, t)' <=> Posting(t)')
    BY DEF LoopOwes
  <2>3. QED
    BY <2>1, <2>2
<1>4. /\ Posting(t)' /\ Posting(t) => Owing' = Owing
      /\ ~Posting(t)' /\ ~Posting(t) => Owing' = Owing
  BY <1>3
<1>5. CloserStep(t)
  BY OnlyCloserSteps
\* these leave the semaphore and the connections alone
<1>6. CASE GetNameCall(t) \/ FillSockaddr(t) \/ CloseClear(t) \/ CloseSysClose(t)
  <2>1. sem' = sem /\ UNCHANGED origin /\ ~Posting(t)
    BY <1>1, <1>6 DEF GetNameCall, FillSockaddr, CloseClear, CloseSysClose, MayCall, lib, app, Posting
  <2>2. ~Posting(t)'
    <3>1. ASSUME NEW fn, NEW f, NEW g, NEW l, Enter(t, fn, f, g, l) \/ Goto(t, l)
          PROVE  pc'[t] = l
      BY <1>0, <3>1 DEF Enter, Goto
    <3>2. pc'[t] \in {"name", "idle", "check_max", "sysclose"}
      BY <1>6, <3>1 DEF GetNameCall, FillSockaddr, CloseClear, CloseSysClose, Return
    <3>3. QED
      BY <3>2 DEF Posting
  <2>3. QED
    BY <1>4, <2>1, <2>2 DEF LoopTokens, Conns
<1>7. CASE CloseCall(t)
  <2>1. PICK f \in Fds : /\ f \in Held /\ origin[f] \in {"conn", "copy", "file"}
                         /\ HandOver(f, "none")
                         /\ Enter(t, "close", f, NoFd, CloseLabel(f))
    BY <1>1, <1>7 DEF CloseCall, Held, MayCall
  <2>2. origin[f] = "conn" /\ f \in Conns
    BY <2>1 DEF LoopInv, OneSocket, Conns
  <2>3. CloseLabel(f) = "getvalue"
    BY <2>2 DEF LoopInv, Streams, CloseLabel, VALID_FD
  <2>4. Posting(t)'
    BY <1>0, <2>1, <2>3 DEF Enter, Posting
  <2>5. ~Posting(t) /\ sem' = sem
    BY <1>7 DEF CloseCall, MayCall, Posting, lib
  <2>6. Conns' = Conns \ {f}
    BY <2>1, ConnsMove
  <2>7. QED
    BY <1>3, <2>2, <2>4, <2>5, <2>6 DEF LoopTokens
<1>8. CASE CloseGetValue(t)
  <2>1. /\ sem' = sem /\ UNCHANGED origin /\ Posting(t)
        /\ Goto(t, IF sem < MAX_CONNS THEN "post" ELSE "clear")
    BY <1>8 DEF CloseGetValue, lib, app, Posting
  <2>2. Conns' = Conns
    BY <2>1 DEF Conns
  <2>3. CASE sem < MAX_CONNS
    <3>1. Posting(t)'
      BY <1>0, <2>1, <2>3 DEF Goto, Posting
    <3>2. QED
      BY <1>4, <2>1, <2>2, <3>1 DEF LoopTokens
  <2>4. CASE sem >= MAX_CONNS
    <3>1. Owing' \subseteq Owing
      BY <1>3, <2>1
    <3>2. QED
      BY <1>8, <2>1, <2>2, <2>4, <3>1 DEF LoopTokens
  <2>5. QED
    BY <1>0, <2>3, <2>4
<1>9. CASE ClosePost(t)
  <2>1. sem' = sem + 1 /\ UNCHANGED origin /\ Posting(t) /\ Goto(t, "clear")
    BY <1>9 DEF ClosePost, app, Posting
  <2>2. ~Posting(t)'
    BY <1>0, <2>1 DEF Goto, Posting
  <2>3. QED
    BY <1>3, <2>1, <2>2 DEF LoopTokens, Conns
<1>10. QED
  BY <1>5, <1>6, <1>7, <1>8, <1>9 DEF CloserStep

LEMMA LoopStepTokens ==
  ASSUME NEW m \in Threads, LoopApp(m), TypeInv, TypeInv', OwnInv, LoopInv(m), LoopInv(m)',
         LoopStep(m)
  PROVE  LoopTokens(m)
<1>0. /\ sem \in Nat /\ origin \in [Fds -> Origins] /\ accept_block \in {0, 1}
      /\ FrameOK(pc[m], arg[m], new[m])
      /\ pc \in [Threads -> Labels] /\ call \in [Threads -> CallNames]
  BY DEF TypeInv, WorldOK, CpuOK
<1>1. LoopAt(pc[m], call[m]) /\ Flag(m)
  BY DEF LoopInv, Places
<1>2. Moves(m)
  BY EveryStepMoves DEF LoopStep, AppCall, LibStep
<1>3. /\ m \in Owing <=> LoopOwes(m, m)
      /\ LoopOwes(m, m)' => Owing' = Owing \cup {m}
      /\ ~LoopOwes(m, m)' => Owing' = Owing \ {m}
  BY <1>2, LoopOwingMove
<1>4. (LoopOwes(m, m)' <=> LoopOwes(m, m)) => Owing' = Owing
  BY <1>3
<1>5. LoopOwes(m, m) <=> \/ Accepting(m) \/ pc[m] = "report"
                         \/ call[m] \notin MuxCalls /\ accept_block = 0
  BY DEF LoopOwes
<1>6. LoopOwes(m, m)' <=> \/ Accepting(m)' \/ pc'[m] = "report"
                          \/ call'[m] \notin MuxCalls /\ accept_block' = 0
  BY DEF LoopOwes
<1>q. ASSUME sem' = sem, UNCHANGED origin, LoopOwes(m, m)' <=> LoopOwes(m, m)
      PROVE  LoopTokens(m)
  BY <1>4, <1>q DEF LoopTokens, Conns
<1>e. ASSUME NEW fn, NEW f, NEW g, NEW l, Enter(m, fn, f, g, l)
      PROVE  pc'[m] = l /\ call'[m] = fn
  BY <1>0, <1>e DEF Enter
<1>g. ASSUME NEW l, Goto(m, l)
      PROVE  pc'[m] = l /\ call'[m] = call[m]
  BY <1>0, <1>g DEF Goto
\* a call that has not waited yet
<1>i. ASSUME pc[m] = "idle", sem' = sem, UNCHANGED <<origin, accept_block>>,
             pc'[m] \in {"idle", "check_max", "block", "name"}, call'[m] \notin MuxCalls,
             pc'[m] = "check_max" => call'[m] # "accept"
      PROVE  LoopTokens(m)
  <2>1. call[m] = "none"
    BY <1>1, <1>i DEF LoopAt, AcceptLabels, MuxLabels
  <2>2. ~Accepting(m) /\ ~Accepting(m)'
    BY <1>i DEF Accepting
  <2>3. QED
    BY <1>5, <1>6, <1>i, <1>q, <2>1, <2>2 DEF MuxCalls
<1>7. CASE SocketCall(m)
  <2>1. pc[m] = "idle" /\ call[m] = "none" /\ sem' = sem /\ accept_block' = accept_block
    BY <1>1, <1>7 DEF SocketCall, MayCall, LoopAt, AcceptLabels, MuxLabels
  <2>2. \/ UNCHANGED origin /\ \E f : Enter(m, "socket", NoFd, f, "check_max")
        \/ UNCHANGED cpu /\ \E f \in Fds : origin[f] = "none" /\ HandOver(f, "socket")
    BY <1>7 DEF SocketCall, LowestFree, OwnInv, OwnersOpen, Held
  <2>3. CASE UNCHANGED origin /\ \E f : Enter(m, "socket", NoFd, f, "check_max")
    BY <1>e, <1>i, <2>1, <2>3 DEF MuxCalls
  <2>4. ASSUME UNCHANGED cpu, NEW f \in Fds, origin[f] = "none", HandOver(f, "socket")
        PROVE  LoopTokens(m)
    <3>1. Conns' = Conns
      BY <2>4, ConnsMove DEF Conns
    <3>2. Owing' = Owing
      BY <1>4, <1>5, <1>6, <2>1, <2>4 DEF cpu, Accepting
    <3>3. QED
      BY <2>1, <3>1, <3>2 DEF LoopTokens
  <2>5. QED
    BY <2>2, <2>3, <2>4
<1>8. CASE BindCall(m) \/ ConnectCall(m) \/ ListenCall(m)
  <2>1. pc[m] = "idle" /\ sem' = sem /\ accept_block' = accept_block /\ UNCHANGED cpu
    BY <1>8 DEF BindCall, ConnectCall, MarkDesock, ListenCall, MayCall
  <2>2. UNCHANGED origin \/ \E f \in Fds : origin[f] = "socket" /\ HandOver(f, "listener")
    BY <1>8 DEF BindCall, ConnectCall, MarkDesock, ListenCall, HeldDesocked, Held, app
  <2>3. Conns' = Conns
    BY <2>2, ConnsMove DEF Conns
  <2>4. Owing' = Owing
    BY <1>4, <1>5, <1>6, <2>1 DEF cpu, Accepting
  <2>5. QED
    BY <2>1, <2>3, <2>4 DEF LoopTokens
<1>9. CASE EpollCtlCall(m)
  <2>1. call[m] = "none" /\ pc[m] = "idle"
    BY <1>1, <1>9 DEF EpollCtlCall, MayCall, LoopAt, AcceptLabels, MuxLabels
  <2>2. QED
    BY <1>9, <1>i, <2>1 DEF EpollCtlCall, cpu, app, MuxCalls
<1>10. CASE PollCall(m) \/ SelectCall(m) \/ EpollWaitCall(m)
  <2>1. /\ sem' = sem /\ accept_block' = accept_block /\ UNCHANGED origin
        /\ \E kind : MayWait(m, kind)
        /\ \E fn, found, servers : Scanned(m, fn, found, servers)
    BY <1>10 DEF PollCall, SelectCall, EpollWaitCall, lib, app
  <2>2. accept_block = 1 /\ pc[m] = "idle" /\ call[m] = "none"
    BY <2>1, NothingReported
  <2>3. \/ UNCHANGED cpu
        \/ \E fn, s : Enter(m, fn, s, NoFd, "arm")
    BY <2>1 DEF Scanned
  <2>4. pc'[m] \in {"idle", "arm"}
    BY <1>e, <2>2, <2>3 DEF cpu
  <2>5. ~LoopOwes(m, m) /\ ~LoopOwes(m, m)'
    BY <1>5, <1>6, <2>1, <2>2, <2>4 DEF Accepting
  <2>6. QED
    BY <1>q, <2>1, <2>5
<1>11. CASE MuxArm(m) \/ MuxTry(m) \/ MuxUnblock(m) \/ MuxReport(m)
  <2>1. call[m] \in MuxCalls /\ UNCHANGED origin
    BY <1>1, <1>11 DEF LoopAt, MuxArm, MuxTry, MuxUnblock, MuxReport, AcceptLabels, app
  <2>2. CASE MuxArm(m)
    <3>1. pc[m] = "arm" /\ pc'[m] = "try" /\ call'[m] = call[m] /\ sem' = sem
      BY <1>g, <2>2 DEF MuxArm
    <3>2. ~LoopOwes(m, m) /\ ~LoopOwes(m, m)'
      BY <1>5, <1>6, <2>1, <3>1 DEF Accepting
    <3>3. QED
      BY <1>q, <2>1, <3>1, <3>2
  <2>3. CASE MuxTry(m)
    <3>1. pc[m] = "try" /\ ~LoopOwes(m, m)
      BY <1>5, <2>1, <2>3 DEF MuxTry, Accepting
    <3>2. CASE sem > 0 /\ sem' = sem - 1 /\ Goto(m, "report")
      <4>1. LoopOwes(m, m)'
        BY <1>6, <1>g, <3>2
      <4>2. QED
        BY <1>3, <2>1, <3>1, <3>2, <4>1 DEF LoopTokens, Conns
    <3>3. ASSUME NEW l \in {"sem_wait", "unblock"}, Goto(m, l), UNCHANGED sem
          PROVE  LoopTokens(m)
      <4>1. ~LoopOwes(m, m)'
        BY <1>6, <1>g, <2>1, <3>3 DEF Accepting
      <4>2. QED
        BY <1>q, <2>1, <3>1, <3>3, <4>1
    <3>4. QED
      BY <2>3, <3>2, <3>3 DEF MuxTry
  <2>4. CASE MuxUnblock(m)
    <3>1. pc[m] = "unblock" /\ pc'[m] = "idle" /\ accept_block' = 1 /\ sem' = sem
      BY <1>e, <2>4 DEF MuxUnblock, Return
    <3>2. ~LoopOwes(m, m) /\ ~LoopOwes(m, m)'
      BY <1>5, <1>6, <2>1, <3>1 DEF Accepting
    <3>3. QED
      BY <1>q, <2>1, <3>1, <3>2
  <2>5. CASE MuxReport(m)
    <3>1. /\ pc[m] = "report" /\ pc'[m] = "idle" /\ call'[m] = "none" /\ sem' = sem
          /\ accept_block' = accept_block
      BY <1>e, <2>5 DEF MuxReport, Return
    <3>2. accept_block = 0
      BY <1>1, <2>1, <3>1 DEF Flag
    <3>3. LoopOwes(m, m) /\ LoopOwes(m, m)'
      BY <1>5, <1>6, <3>1, <3>2 DEF MuxCalls
    <3>4. QED
      BY <1>q, <2>1, <3>1, <3>3
  <2>6. QED
    BY <1>11, <2>2, <2>3, <2>4, <2>5
<1>12. CASE SemWait(m)
  <2>1. pc[m] = "sem_wait" /\ sem > 0 /\ sem' = sem - 1 /\ UNCHANGED origin
    BY <1>12 DEF SemWait, app
  <2>2. call[m] = "accept" \/ call[m] \in MuxCalls
    BY <1>1, <2>1 DEF LoopAt, AcceptLabels
  <2>3. ~LoopOwes(m, m)
    <3>1. call[m] \in MuxCalls \/ accept_block = 1
      BY <1>1, <2>1, <2>2 DEF Flag
    <3>2. QED
      BY <1>5, <2>1, <3>1 DEF Accepting
  <2>4. pc'[m] \in {"set_block", "report"}
    BY <1>12, <1>g DEF SemWait
  <2>5. LoopOwes(m, m)'
    BY <1>6, <2>4 DEF Accepting
  <2>6. QED
    BY <1>3, <2>1, <2>3, <2>5 DEF LoopTokens, Conns
<1>13. CASE AcceptCall(m) \/ GetNameCall(m)
  <2>1. /\ pc[m] = "idle" /\ sem' = sem /\ UNCHANGED <<origin, accept_block>>
        /\ \E f : Enter(m, "accept", f, NoFd, "block") \/ Enter(m, "getname", f, NoFd, "name")
    BY <1>13 DEF AcceptCall, GetNameCall, MayCall, lib, app
  <2>2. pc'[m] \in {"block", "name"} /\ call'[m] \in {"accept", "getname"}
    BY <1>e, <2>1
  <2>3. QED
    BY <1>i, <2>1, <2>2 DEF MuxCalls
<1>14. CASE AcceptBlock(m)
  <2>1. /\ pc[m] = "block" /\ sem' = sem /\ UNCHANGED <<origin, accept_block>>
        /\ Goto(m, IF accept_block = 1 THEN "sem_wait" ELSE "set_block")
    BY <1>14 DEF AcceptBlock, lib, app
  <2>2. call[m] = "accept" /\ call'[m] = "accept"
    BY <1>1, <1>g, <2>1 DEF LoopAt, MuxLabels
  <2>3. LoopOwes(m, m) <=> accept_block = 0
    BY <1>5, <2>1, <2>2 DEF Accepting, MuxCalls
  <2>4. pc'[m] = IF accept_block = 1 THEN "sem_wait" ELSE "set_block"
    BY <1>g, <2>1
  <2>5. LoopOwes(m, m)' <=> accept_block = 0
    BY <1>0, <1>6, <2>1, <2>2, <2>4 DEF Accepting, MuxCalls
  <2>6. QED
    BY <1>q, <2>1, <2>3, <2>5
\* on the way from the wait to the return
<1>a. ASSUME Accepting(m), Accepting(m)', sem' = sem, UNCHANGED origin
      PROVE  LoopTokens(m)
  BY <1>5, <1>6, <1>a, <1>q
<1>15. CASE AcceptSetBlock(m) \/ AcceptDup(m) \/ AcceptClone(m) \/ AcceptUnlisten(m)
  <2>1. /\ pc[m] \in {"set_block", "dup", "clone", "unlisten"} /\ sem' = sem /\ UNCHANGED origin
        /\ \E l \in {"dup", "clone", "unlisten", "fill"} :
             Goto(m, l) \/ \E fn, f, g : Enter(m, fn, f, g, l)
    BY <1>15 DEF AcceptSetBlock, AcceptDup, AcceptClone, AcceptUnlisten, lib, app
  <2>2. pc'[m] \in {"dup", "clone", "unlisten", "fill"}
    BY <1>e, <1>g, <2>1
  <2>3. QED
    BY <1>a, <2>1, <2>2 DEF Accepting
<1>16. CASE AcceptDupFails(m)
  <2>1. pc[m] = "dup" /\ sem' = sem /\ UNCHANGED origin
    BY <1>16 DEF AcceptDupFails, lib, app
  <2>2. Owing' \subseteq Owing
    BY <1>3, <1>5, <2>1 DEF Accepting
  <2>3. QED
    BY <1>16, <2>1, <2>2 DEF LoopTokens, Conns
<1>17. CASE FillSockaddr(m)
  <2>1. sem' = sem /\ UNCHANGED <<origin, accept_block>>
    BY <1>17 DEF FillSockaddr, lib, app
  <2>2. CASE pc[m] = "fill" /\ Goto(m, "check_max")
    <3>1. call[m] = "accept" /\ pc'[m] = "check_max" /\ call'[m] = "accept"
      BY <1>1, <1>g, <2>2 DEF LoopAt, MuxLabels
    <3>2. QED
      BY <1>a, <2>1, <2>2, <3>1 DEF Accepting
  <2>3. CASE pc[m] = "name" /\ Return(m)
    <3>1. call[m] = "getname" /\ pc'[m] = "idle" /\ call'[m] = "none"
      BY <1>1, <1>e, <2>3 DEF LoopAt, AcceptLabels, MuxLabels, Return
    <3>2. LoopOwes(m, m) <=> LoopOwes(m, m)'
      BY <1>5, <1>6, <2>1, <2>3, <3>1 DEF Accepting, MuxCalls
    <3>3. QED
      BY <1>q, <2>1, <3>2
  <2>4. QED
    BY <1>17, <2>2, <2>3 DEF FillSockaddr
<1>f. ASSUME pc[m] \in {"check_max", "write_max"}, Finish(m), sem' = sem,
             accept_block' = accept_block
      PROVE  LoopTokens(m)
  <2>1. new[m] \in Fds \ Conns
    BY <1>0, <1>f DEF FrameOK, NewLabels, OwnInv, OwnersOpen, Owns, Creates, Conns
  <2>2. pc'[m] = "idle" /\ call'[m] = "none"
    BY <1>e, <1>f DEF Finish, Return
  <2>3. CASE call[m] = "accept"
    <3>1. accept_block = 1
      BY <1>1, <1>f, <2>3 DEF Flag
    <3>2. LoopOwes(m, m) /\ ~LoopOwes(m, m)'
      BY <1>5, <1>6, <1>f, <2>2, <2>3, <3>1 DEF Accepting
    <3>3. Conns' = Conns \cup {new[m]}
      BY <1>f, <2>1, <2>3, ConnsMove DEF Finish
    <3>4. QED
      BY <1>3, <1>f, <2>1, <3>2, <3>3 DEF LoopTokens
  <2>4. CASE call[m] = "socket"
    <3>1. LoopOwes(m, m) <=> LoopOwes(m, m)'
      BY <1>5, <1>6, <1>f, <2>2, <2>4 DEF Accepting, MuxCalls
    <3>2. Conns' = Conns
      <4>1. HandOver(new[m], "socket")
        BY <1>f, <2>4 DEF Finish
      <4>2. QED
        BY <2>1, <4>1, ConnsMove
    <3>3. QED
      BY <1>4, <1>f, <3>1, <3>2 DEF LoopTokens
  <2>5. QED
    BY <1>1, <1>f, <2>3, <2>4 DEF LoopAt, AcceptLabels, MuxLabels
<1>18. CASE CheckMax(m)
  <2>1. pc[m] = "check_max" /\ sem' = sem /\ UNCHANGED accept_block
    BY <1>18 DEF CheckMax, lib
  <2>2. CASE Finish(m)
    BY <1>f, <2>1, <2>2
  <2>3. CASE Goto(m, "write_max") /\ UNCHANGED origin
    <3>1. pc'[m] = "write_max" /\ call'[m] = call[m]
      BY <1>g, <2>3
    <3>2. LoopOwes(m, m) <=> LoopOwes(m, m)'
      BY <1>5, <1>6, <2>1, <3>1 DEF Accepting
    <3>3. QED
      BY <1>q, <2>1, <2>3, <3>2
  <2>4. QED
    BY <1>18, <2>2, <2>3 DEF CheckMax
<1>19. CASE WriteMax(m)
  BY <1>19, <1>f DEF WriteMax
<1>20. QED
  BY <1>7, <1>8, <1>9, <1>10, <1>11, <1>12, <1>13, <1>14, <1>15, <1>16, <1>17, <1>18, <1>19
     DEF LoopStep

-----------------------------------------------------------------------------
(* An event loop's accept gets its descriptor. *)

\* Every open descriptor is one of the first three, the application's, or a thread's.
OpenIsOwned ==
  /\ \A f \in Fds : kernel[f] # "closed" =>
       f <= 2 \/ f \in Held \/ \E t \in Threads : Owns(t, f)
  /\ \A t \in Threads : pc[t] \in CloseLabels => t \in Closers
  /\ opened <= MaxSockets

\* What a step of t must do to keep that.
Keeps(t) ==
  /\ \A f \in Fds : kernel'[f] # "closed" =>
       kernel[f] # "closed" \/ origin'[f] # "none" \/ Owns(t, f)'
  /\ \A f \in Fds : origin[f] # "none" => origin'[f] # "none" \/ Owns(t, f)'
  /\ \A f \in Fds : Owns(t, f) =>
       Owns(t, f)' \/ origin'[f] # "none" \/ f <= 2 \/ kernel'[f] = "closed"
  /\ opened' <= MaxSockets
  /\ pc'[t] \in CloseLabels => t \in Closers

LEMMA OpenIsOwnedKept ==
  ASSUME OpenIsOwned, NEW t \in Threads, OthersStay(t), Keeps(t)
  PROVE  OpenIsOwned'
<1>1. \A f \in Fds : kernel'[f] # "closed" =>
        f <= 2 \/ f \in Held' \/ \E u \in Threads : Owns(u, f)'
  BY DEF OpenIsOwned, Keeps, OthersStay, Held
<1>2. \A u \in Threads : pc'[u] \in CloseLabels => u \in Closers
  BY DEF OpenIsOwned, Keeps, OthersStay
<1>3. QED
  BY <1>1, <1>2 DEF OpenIsOwned, Keeps

LEMMA CloserKeepsOpen ==
  ASSUME NEW m \in Threads, LoopApp(m), TypeInv, OwnInv, LoopInv(m), OpenIsOwned,
         NEW t \in Threads \ {m}, CloserStep(t)
  PROVE  Keeps(t)
<1>0. /\ kernel \in [Fds -> {"closed", "file", "sock"}] /\ origin \in [Fds -> Origins]
      /\ pc \in [Threads -> Labels] /\ arg \in [Threads -> Fds \cup {NoFd}]
      /\ FrameOK(pc[t], arg[t], new[t]) /\ opened <= MaxSockets
  BY DEF TypeInv, WorldOK, CpuOK, OpenIsOwned
<1>1. CloserAt(pc[t], call[t])
  BY DEF LoopInv, Places
<1>2. \A f \in Fds : ~Creates(t, f)
  BY <1>1 DEF Creates, CloserAt, CloseLabels, NewLabels
<1>c. pc[t] \in CloseLabels => t \in Closers
  BY DEF OpenIsOwned
<1>g. ASSUME NEW l \in CloseLabels, pc[t] \in CloseLabels, Goto(t, l),
             UNCHANGED <<kernel, origin, opened>>
      PROVE  Keeps(t)
  <2>1. pc'[t] = l /\ arg'[t] = arg[t]
    BY <1>0, <1>g DEF Goto
  <2>2. \A f \in Fds : Owns(t, f) => Owns(t, f)'
    BY <1>2, <1>g, <2>1 DEF Owns, Closes
  <2>3. QED
    BY <1>0, <1>c, <1>g, <2>2 DEF Keeps
<1>q. ASSUME pc[t] \notin CloseLabels, pc'[t] \notin CloseLabels, UNCHANGED <<kernel, origin, opened>>
      PROVE  Keeps(t)
  BY <1>0, <1>2, <1>q DEF Keeps, Owns, Closes
<1>3. CASE GetNameCall(t) \/ FillSockaddr(t)
  <2>1. UNCHANGED <<kernel, origin, opened>> /\ pc[t] \notin CloseLabels
    BY <1>3 DEF GetNameCall, FillSockaddr, MayCall, app, CloseLabels
  <2>2. \E l \in {"name", "check_max", "idle"} : Goto(t, l) \/ \E fn, f, g : Enter(t, fn, f, g, l)
    BY <1>3 DEF GetNameCall, FillSockaddr, Return
  <2>3. pc'[t] \notin CloseLabels
    BY <1>0, <2>2 DEF Goto, Enter, CloseLabels
  <2>4. QED
    BY <1>q, <2>1, <2>3
<1>4. CASE CloseCall(t)
  <2>1. PICK f \in Fds : HandOver(f, "none") /\ Enter(t, "close", f, NoFd, CloseLabel(f))
    BY <1>4 DEF CloseCall, Held
  <2>2. /\ UNCHANGED <<kernel, opened>> /\ pc[t] = "idle"
        /\ "close" \in Calls[t] \/ "close_socket" \in Calls[t]
    BY <1>4 DEF CloseCall, MayCall
  <2>3. pc'[t] = CloseLabel(f) /\ arg'[t] = f /\ CloseLabel(f) \in CloseLabels
    BY <1>0, <2>1 DEF Enter, CloseLabel, CloseLabels
  <2>4. \A g \in Fds : origin'[g] = IF g = f THEN "none" ELSE origin[g]
    BY <1>0, <2>1 DEF HandOver
  <2>5. Owns(t, f)' /\ \A g \in Fds : ~Owns(t, g)
    BY <1>2, <2>2, <2>3 DEF Owns, Closes, CloseLabels
  <2>6. t \in Closers
    BY <2>2 DEF LoopApp, Closers
  <2>7. QED
    BY <1>0, <2>2, <2>4, <2>5, <2>6 DEF Keeps
<1>5. CASE CloseGetValue(t) \/ ClosePost(t) \/ CloseClear(t)
  <2>1. UNCHANGED <<kernel, origin, opened>> /\ pc[t] \in CloseLabels
    BY <1>5 DEF CloseGetValue, ClosePost, CloseClear, CloseLabels, app
  <2>2. \E l \in CloseLabels : Goto(t, l)
    BY <1>5 DEF CloseGetValue, ClosePost, CloseClear, CloseLabels
  <2>3. QED
    BY <1>g, <2>1, <2>2
<1>6. CASE CloseSysClose(t)
  <2>1. /\ pc[t] = "sysclose" /\ UNCHANGED <<origin, opened>> /\ Return(t)
        /\ kernel' = IF arg[t] > 2 THEN [kernel EXCEPT ![arg[t]] = "closed"] ELSE kernel
    BY <1>6 DEF CloseSysClose, app
  <2>2. arg[t] \in Fds /\ pc'[t] = "idle"
    BY <1>0, <2>1 DEF FrameOK, Return, Enter
  <2>3. \A f \in Fds : Owns(t, f) => f = arg[t]
    BY <1>2 DEF Owns, Closes
  <2>4. /\ \A h \in Fds : kernel'[h] # "closed" => kernel[h] # "closed"
        /\ arg[t] > 2 => kernel'[arg[t]] = "closed"
    BY <1>0, <2>1, <2>2
  <2>5. arg[t] > 2 \/ arg[t] <= 2
    BY <2>2, FdTableAssumption DEF Fds
  <2>6. QED
    BY <1>0, <2>1, <2>2, <2>3, <2>4, <2>5 DEF Keeps, CloseLabels
<1>7. QED
  BY <1>3, <1>4, <1>5, <1>6 DEF CloserStep

LEMMA LoopKeepsOpen ==
  ASSUME NEW m \in Threads, TypeInv, OwnInv, LoopInv(m), LoopInv(m)', OpenIsOwned,
         LoopStep(m), ~AcceptDupFails(m)
  PROVE  Keeps(m)
<1>0. /\ kernel \in [Fds -> {"closed", "file", "sock"}] /\ origin \in [Fds -> Origins]
      /\ pc \in [Threads -> Labels] /\ arg \in [Threads -> Fds \cup {NoFd}]
      /\ new \in [Threads -> Fds \cup {NoFd}]
      /\ FrameOK(pc[m], arg[m], new[m]) /\ opened <= MaxSockets
      /\ opened \in Nat /\ MaxSockets \in Nat
  BY ConnPoolAssumption DEF TypeInv, WorldOK, CpuOK, OpenIsOwned
<1>1. LoopAt(pc[m], call[m]) /\ LoopAt(pc'[m], call'[m])
  BY DEF LoopInv, Places
<1>2. /\ \A f \in Fds : Owns(m, f) <=> Creates(m, f)
      /\ \A f \in Fds : Owns(m, f)' <=> Creates(m, f)'
      /\ pc'[m] \notin CloseLabels
  BY <1>1 DEF LoopAt, Owns, Closes, CloseLabels, AcceptLabels, MuxLabels
<1>e. ASSUME NEW fn, NEW f, NEW g, NEW l, Enter(m, fn, f, g, l)
      PROVE  pc'[m] = l /\ new'[m] = g
  BY <1>0, <1>e DEF TypeInv, CpuOK, Enter
<1>g. ASSUME NEW l, Goto(m, l)
      PROVE  pc'[m] = l /\ new'[m] = new[m]
  BY <1>0, <1>g DEF Goto
\* a step that opens, closes and hands over nothing
<1>q. ASSUME UNCHANGED <<kernel, opened>>,
             \A f \in Fds : origin[f] # "none" => origin'[f] # "none",
             pc[m] \in NewLabels => pc'[m] \in NewLabels /\ new'[m] = new[m]
      PROVE  Keeps(m)
  BY <1>0, <1>2, <1>q DEF Keeps, Creates
<1>3. CASE SocketCall(m)
  <2>1. /\ pc[m] = "idle" /\ opened < MaxSockets /\ opened' = opened + 1
        /\ \A g \in Fds : ~Creates(m, g)
    BY <1>3 DEF SocketCall, MayCall, Creates, NewLabels
  <2>2. PICK f \in Fds : /\ kernel' = [kernel EXCEPT ![f] = "sock"]
                         /\ \/ UNCHANGED origin /\ Enter(m, "socket", NoFd, f, "check_max")
                            \/ HandOver(f, "socket")
    BY <1>3 DEF SocketCall, LowestFree
  <2>3. \A g \in Fds : g # f => kernel'[g] = kernel[g]
    BY <1>0, <2>2
  <2>4. /\ \A g \in Fds : origin[g] # "none" => origin'[g] # "none"
        /\ origin'[f] # "none" \/ Creates(m, f)'
    BY <1>0, <1>e, <2>2 DEF HandOver, Creates, NewLabels
  <2>5. opened' <= MaxSockets
    BY <1>0, <2>1
  <2>6. QED
    BY <1>2, <2>1, <2>3, <2>4, <2>5 DEF Keeps
<1>4. CASE BindCall(m) \/ ConnectCall(m) \/ ListenCall(m) \/ EpollCtlCall(m)
  <2>1. UNCHANGED <<kernel, opened>> /\ pc[m] = "idle"
    BY <1>4 DEF BindCall, ConnectCall, MarkDesock, ListenCall, EpollCtlCall, MayCall, app
  <2>2. UNCHANGED origin \/ \E f : HandOver(f, "listener")
    BY <1>4 DEF BindCall, ConnectCall, MarkDesock, ListenCall, EpollCtlCall, app
  <2>3. \A f \in Fds : origin[f] # "none" => origin'[f] # "none"
    BY <1>0, <2>2 DEF HandOver
  <2>4. QED
    BY <1>q, <2>1, <2>3 DEF NewLabels
<1>5. CASE \/ PollCall(m) \/ SelectCall(m) \/ EpollWaitCall(m) \/ AcceptCall(m) \/ GetNameCall(m)
           \/ MuxArm(m) \/ MuxTry(m) \/ SemWait(m) \/ MuxUnblock(m) \/ MuxReport(m)
           \/ AcceptBlock(m) \/ AcceptSetBlock(m)
  <2>1. UNCHANGED <<kernel, origin, opened>> /\ pc[m] \notin NewLabels
    BY <1>5 DEF PollCall, SelectCall, EpollWaitCall, MayWait, MayCall, AcceptCall, GetNameCall,
                MuxArm, MuxTry, SemWait, MuxUnblock, MuxReport, AcceptBlock, AcceptSetBlock,
                NewLabels, app
  <2>2. QED
    BY <1>q, <2>1
<1>6. CASE AcceptDup(m)
  <2>1. PICK f \in Fds : /\ kernel' = [kernel EXCEPT ![f] = kernel[arg[m]]]
                         /\ Enter(m, call[m], arg[m], f, "clone")
    BY <1>6 DEF AcceptDup, LowestFree
  <2>2. UNCHANGED <<origin, opened>> /\ pc[m] = "dup"
    BY <1>6 DEF AcceptDup, app
  <2>3. \A g \in Fds : g # f => kernel'[g] = kernel[g]
    BY <1>0, <2>1
  <2>4. Creates(m, f)' /\ \A g \in Fds : ~Creates(m, g)
    BY <1>e, <2>1, <2>2 DEF Creates, NewLabels
  <2>5. QED
    BY <1>0, <1>2, <2>2, <2>3, <2>4 DEF Keeps
<1>7. CASE AcceptClone(m) \/ AcceptUnlisten(m) \/ FillSockaddr(m)
  <2>1. UNCHANGED <<kernel, origin, opened>>
    BY <1>7 DEF AcceptClone, AcceptUnlisten, FillSockaddr, app
  <2>2. \/ \E l \in NewLabels : Goto(m, l)
        \/ pc[m] = "name"
    BY <1>7 DEF AcceptClone, AcceptUnlisten, FillSockaddr, NewLabels
  <2>3. QED
    BY <1>g, <1>q, <2>1, <2>2 DEF NewLabels
<1>f. ASSUME pc[m] \in {"check_max", "write_max"}, Finish(m), UNCHANGED <<kernel, opened>>
      PROVE  Keeps(m)
  <2>1. new[m] \in Fds
    BY <1>0, <1>f DEF FrameOK, NewLabels
  <2>2. \E kind \in {"conn", "socket", "copy"} : HandOver(new[m], kind)
    BY <1>f DEF Finish
  <2>3. /\ origin'[new[m]] # "none"
        /\ \A f \in Fds : origin[f] # "none" => origin'[f] # "none"
    BY <1>0, <2>1, <2>2 DEF HandOver
  <2>4. QED
    BY <1>0, <1>2, <1>f, <2>3 DEF Keeps, Creates
<1>8. CASE CheckMax(m)
  <2>1. pc[m] = "check_max" /\ UNCHANGED <<kernel, opened>>
    BY <1>8 DEF CheckMax
  <2>2. CASE Goto(m, "write_max") /\ UNCHANGED origin
    BY <1>g, <1>q, <2>1, <2>2 DEF NewLabels
  <2>3. QED
    BY <1>8, <1>f, <2>1, <2>2 DEF CheckMax
<1>9. CASE WriteMax(m)
  BY <1>9, <1>f DEF WriteMax
<1>10. QED
  BY <1>3, <1>4, <1>5, <1>6, <1>7, <1>8, <1>9 DEF LoopStep

\* So its accept does not fail.
LEMMA LoopDupSucceeds ==
  ASSUME NEW m \in Threads, LoopApp(m), EnoughDescriptors, TypeInv, OwnInv, LoopInv(m),
         TokensBounded, OpenIsOwned
  PROVE  ~AcceptDupFails(m)
<1> SUFFICES ASSUME pc[m] = "dup" PROVE ~AcceptDupFails(m)
  BY DEF AcceptDupFails
<1>1. /\ LoopAt(pc[m], call[m]) /\ OneSocket(m) /\ Marks(m)
      /\ \A t \in Threads \ {m} : CloserAt(pc[t], call[t])
  BY DEF LoopInv, Places
<1>2. arg[m] \in Listeners
  BY <1>1 DEF LoopAt, MuxLabels, Marks
<1>3. kernel[arg[m]] # "closed"
  BY <1>2 DEF Listeners, OwnInv, OwnersOpen, Held
<1> DEFINE Socks == {f \in Fds : IsSock(m, f)}
           Busy  == {arg[t] : t \in Closers}
           Open  == {f \in Fds : kernel[f] # "closed"}
<1>4. IsFiniteSet(Socks) /\ Cardinality(Socks) <= MaxSockets
  <2>1. arg[m] \in Socks /\ Socks = {arg[m]}
    BY <1>1, <1>2 DEF Listeners, IsSock, OneSocket
  <2>2. opened # 0 /\ opened \in Nat /\ MaxSockets \in Nat /\ opened <= MaxSockets
    BY <1>1, <1>2, ConnPoolAssumption DEF Listeners, IsSock, OneSocket, OpenIsOwned, TypeInv, WorldOK
  <2>3. IsFiniteSet({arg[m]}) /\ Cardinality({arg[m]}) = 1
    BY FS_Singleton
  <2>4. 1 <= MaxSockets
    BY <2>2
  <2>5. QED
    <3> HIDE DEF Socks
    <3>1. QED
      BY <2>1, <2>3, <2>4
<1>5. /\ IsFiniteSet(Busy) /\ Cardinality(Busy) <= Cardinality(Closers)
      /\ Cardinality(Closers) \in Nat /\ Cardinality(Busy) \in Nat
  <2>1. IsFiniteSet(Closers)
    BY ConnPoolAssumption, FS_Subset DEF Closers
  <2> DEFINE at == [t \in Closers |-> arg[t]]
  <2>2. Busy = {at[t] : t \in Closers} /\ DOMAIN at = Closers
    OBVIOUS
  <2>3. IsFiniteSet(Busy) /\ Cardinality(Busy) <= Cardinality(Closers)
    <3> HIDE DEF at
    <3>1. QED
      BY <2>1, <2>2, ImageCardinality
  <2>4. QED
    <3> HIDE DEF Busy
    <3>1. QED
      BY <2>1, <2>3, FS_CardinalityType
<1>6. Cardinality(Conns) < MAX_CONNS /\ Cardinality(Conns) \in Nat
  <2>1. /\ IsFiniteSet(Owing) /\ Cardinality(Conns) \in Nat /\ Cardinality(Owing) \in Nat
        /\ Cardinality(Holders) = Cardinality(Conns) + Cardinality(Owing)
    BY HoldersCount DEF HoldersAdd
  <2>2. m \in Owing
    BY DEF Owing, Accepting
  <2>3. Cardinality(Owing) # 0
    BY <2>1, <2>2, FS_EmptySet
  <2>4. QED
    BY <2>1, <2>3, ConnPoolAssumption DEF TokensBounded, TypeInv, WorldOK
<1>7. Open \subseteq 0 .. 2 \cup (Socks \cup (Conns \cup Busy))
  <2> SUFFICES ASSUME NEW f \in Open PROVE f \in 0 .. 2 \cup (Socks \cup (Conns \cup Busy))
    OBVIOUS
  <2>1. f \in Fds /\ kernel[f] # "closed"
    OBVIOUS
  <2>2. CASE f <= 2
    BY <2>1, <2>2, FdTableAssumption DEF Fds
  <2>3. CASE f \in Held
    BY <1>1, <2>1, <2>3 DEF OneSocket, Held, IsSock, Conns
  <2>4. ASSUME NEW t \in Threads, Owns(t, f) PROVE f \in Busy
    <3>1. Closes(t, f)
      BY <1>1, <2>4 DEF Owns, Creates, NewLabels, CloserAt, CloseLabels
    <3>2. QED
      BY <3>1 DEF Closes, OpenIsOwned
  <2>5. QED
    BY <2>1, <2>2, <2>3, <2>4 DEF OpenIsOwned
<1>8. Cardinality(Conns) + Cardinality(Busy) < MAX_CONNS + Cardinality(Closers)
  <2> HIDE DEF Busy
  <2>1. QED
    BY <1>5, <1>6, ConnPoolAssumption
<1>9. \E f \in Fds : LowestFree = {f} /\ VALID_FD(f)
  <2> HIDE DEF Socks, Busy
  <2>1. QED
    BY <1>4, <1>5, <1>7, <1>8, OpenBound, LowestHasEntry
<1>10. QED
  BY <1>3, <1>9 DEF AcceptDupFails

LoopTypes(m) == TypeInv /\ OwnInv /\ LoopInv(m)

LEMMA LoopHolders ==
  ASSUME Init
  PROVE  TokensBounded /\ NoTokenLost /\ OpenIsOwned
<1>1. Conns = {} /\ Owing = {}
  BY DEF Init, Conns, Owing, Accepting, Posting, Reserving
<1>2. TokensBounded /\ NoTokenLost
  BY <1>1, HoldersCount, FS_EmptySet, ConnPoolAssumption DEF Init, HoldersAdd, TokensBounded, NoTokenLost
<1>3. OpenIsOwned
  BY FdTableAssumption, ConnPoolAssumption DEF Init, OpenIsOwned, CloseLabels, Fds
<1>4. QED
  BY <1>2, <1>3

LEMMA LoopStepMovesTokens ==
  ASSUME NEW m \in Threads, LoopApp(m), LoopTypes(m), LoopTypes(m)',
         NEW t \in Threads, AppCall(t) \/ LibStep(t)
  PROVE  LoopTokens(t)
<1>1. CASE t = m
  BY <1>1, OnlyLoopSteps, LoopStepTokens DEF LoopTypes
<1>2. CASE t # m
  BY <1>2, CloserTokens DEF LoopTypes
<1>3. QED
  BY <1>1, <1>2

LEMMA LoopTokensInvariant ==
  ASSUME NEW m \in Threads, LoopApp(m)
  PROVE  Spec => [](LoopTypes(m) /\ TokensBounded)
<1>1. Init => TokensBounded
  BY LoopHolders
<1>2. LoopTypes(m) /\ LoopTypes(m)' /\ TokensBounded /\ [Next]_vars => TokensBounded'
  <2> SUFFICES ASSUME LoopTypes(m), LoopTypes(m)', TokensBounded, [Next]_vars PROVE TokensBounded'
    OBVIOUS
  <2>1. CASE UNCHANGED vars
    BY <2>1 DEF vars, lib, app, cpu, TokensBounded, Holders, Conns, Owing, Accepting, Posting,
                Reserving
  <2>2. ASSUME NEW t \in Threads, AppCall(t) \/ LibStep(t) PROVE TokensBounded'
    BY <2>2, LoopStepMovesTokens, LoopTokensMove, TokenArithmetic DEF LoopTypes
  <2>3. QED
    BY <2>1, <2>2 DEF Next
<1>3. Spec => []LoopTypes(m)
  BY LoopInvariant DEF LoopTypes
<1>4. QED
  BY <1>1, <1>2, <1>3, PTL DEF Spec

\* With one event loop, whatever mix of poll, select and epoll_wait it waits in, sem, the
\* open connections, the one on its way in or reserved, and the closes before their post
\* stay within MAX_CONNS (src/poll.c:30-44, src/accept.c:17-25, src/close.c:14-21).
THEOREM LoopTokensBounded ==
  ASSUME NEW m \in Threads, LoopApp(m)
  PROVE  Spec => []TokensBounded
BY LoopTokensInvariant, PTL

LEMMA LoopKeeps ==
  ASSUME NEW m \in Threads, LoopApp(m), EnoughDescriptors, LoopTypes(m), LoopTypes(m)',
         TokensBounded, OpenIsOwned, NoTokenLost, NEW t \in Threads, AppCall(t) \/ LibStep(t)
  PROVE  OpenIsOwned' /\ NoTokenLost'
<1>1. ~AcceptDupFails(t)
  <2>1. CASE t = m
    BY <2>1, LoopDupSucceeds DEF LoopTypes
  <2>2. CASE t # m
    BY <2>2 DEF LoopTypes, LoopInv, Places, CloserAt, CloseLabels, AcceptDupFails
  <2>3. QED
    BY <2>1, <2>2
<1>2. Keeps(t)
  <2>1. CASE t = m
    BY <1>1, <2>1, OnlyLoopSteps, LoopKeepsOpen DEF LoopTypes
  <2>2. CASE t # m
    BY <2>2, OnlyCloserSteps, CloserKeepsOpen DEF LoopTypes
  <2>3. QED
    BY <2>1, <2>2
<1>3. OpenIsOwned'
  BY <1>2, EveryStepMoves, OthersStayPut, OpenIsOwnedKept DEF LoopTypes
<1>4. ~(CloseGetValue(t) /\ sem >= MAX_CONNS)
  <2>1. CloseGetValue(t) => t \in Owing
    BY DEF CloseGetValue, Owing, Posting
  <2>2. t \in Owing => sem < MAX_CONNS
    BY OwingLeavesRoom DEF LoopTypes
  <2>3. QED
    BY <2>1, <2>2, ConnPoolAssumption DEF LoopTypes, TypeInv, WorldOK
<1>5. TokenKeep(t)
  BY <1>1, <1>4, LoopStepMovesTokens, LoopTokensMove
<1>6. sem' + Cardinality(Holders') >= sem + Cardinality(Holders)
  BY <1>5, KeepArithmetic DEF LoopTypes
<1>7. /\ sem \in Nat /\ sem' \in Nat /\ MAX_CONNS \in Nat
      /\ Cardinality(Holders) \in Nat /\ Cardinality(Holders') \in Nat
  <2>1. HoldersAdd /\ HoldersAdd'
    BY HoldersCount, PTL
  <2>2. QED
    BY <2>1, ConnPoolAssumption DEF HoldersAdd, LoopTypes, TypeInv, WorldOK
<1>8. NoTokenLost'
  BY <1>6, <1>7 DEF NoTokenLost
<1>9. QED
  BY <1>3, <1>8

\* ... nor does the pool ever shrink: the event loop loses no token, if the descriptor
\* table and the kernel have room for all the application opens.
THEOREM LoopKeepsTokens ==
  ASSUME NEW m \in Threads, LoopApp(m), EnoughDescriptors
  PROVE  Spec => []NoTokenLost
<1> DEFINE Inv == OpenIsOwned /\ NoTokenLost
           Ctx == LoopTypes(m) /\ TokensBounded
<1>1. Init => Inv
  BY LoopHolders
<1>2. Inv /\ Ctx /\ Ctx' /\ [Next]_vars => Inv'
  <2> SUFFICES ASSUME Inv, Ctx, Ctx', [Next]_vars PROVE Inv'
    OBVIOUS
  <2>1. CASE UNCHANGED vars
    BY <2>1 DEF vars, lib, app, cpu, OpenIsOwned, NoTokenLost, Holders, Conns, Owing, Accepting,
                Posting, Reserving, Held, Owns, Creates, Closes
  <2>2. ASSUME NEW t \in Threads, AppCall(t) \/ LibStep(t) PROVE Inv'
    BY <2>2, LoopKeeps
  <2>3. QED
    BY <2>1, <2>2 DEF Next
<1>3. Spec => []Ctx
  BY LoopTokensInvariant
<1>4. Inv => NoTokenLost
  OBVIOUS
<1> HIDE DEF Inv, Ctx
<1>5. QED
  BY <1>1, <1>2, <1>3, <1>4, PTL DEF Spec

-----------------------------------------------------------------------------
(* Module Pool is implemented by these applications, too. *)

\* What a step of t does to the acceptors and the connections.
LEMMA LoopWaiting ==
  ASSUME TypeInv, NEW t \in Threads, Moves(t)
  PROVE  /\ call'[t] = "accept" => Waiting' = Waiting \cup {t}
         /\ call'[t] # "accept" => Waiting' = Waiting \ {t}
<1>1. \A u \in Threads \ {t} : call'[u] = call[u]
  BY DEF TypeInv, CpuOK, Moves, Enter, Goto, cpu
<1>2. QED
  BY <1>1 DEF Waiting

LEMMA LoopStepRefines ==
  ASSUME NEW m \in Threads, LoopApp(m), LoopTypes(m), LoopTypes(m)', TokensBounded,
         NEW t \in Threads, AppCall(t) \/ LibStep(t)
  PROVE  \/ Silent
         \/ Abstract!Request(t)
         \/ Abstract!Refuse(t)
         \/ \E f \in Fds : Abstract!Grant(t, f)
         \/ \E f \in Fds : Abstract!Release(f)
<1>0. /\ TypeInv /\ OwnInv /\ LoopInv(m) /\ Moves(t) /\ FrameOK(pc[t], arg[t], new[t])
      /\ call \in [Threads -> CallNames] /\ pc \in [Threads -> Labels]
  BY EveryStepMoves DEF LoopTypes, TypeInv, CpuOK
<1>w. /\ call'[t] = "accept" => Waiting' = Waiting \cup {t}
      /\ call'[t] # "accept" => Waiting' = Waiting \ {t}
      /\ call[t] = "accept" <=> t \in Waiting
  BY <1>0, LoopWaiting DEF Waiting
<1>s. ASSUME Conns' = Conns, call'[t] = "accept" <=> call[t] = "accept"
      PROVE  Silent
  BY <1>s, <1>w DEF Silent
<1>e. ASSUME NEW fn, NEW f, NEW g, NEW l, Enter(t, fn, f, g, l)
      PROVE  pc'[t] = l /\ call'[t] = fn
  BY <1>0, <1>e DEF Enter
<1>g. ASSUME NEW l, Goto(t, l)
      PROVE  pc'[t] = l /\ call'[t] = call[t]
  BY <1>0, <1>g DEF Goto
\* the step of an accept that is granted its connection
<1>f. ASSUME pc[t] \in {"check_max", "write_max"}, Finish(t)
      PROVE  Silent \/ \E f \in Fds : Abstract!Grant(t, f)
  <2>1. new[t] \in Fds /\ new[t] \notin Conns
    BY <1>0, <1>f DEF OwnInv, OwnersOpen, Owns, Creates, NewLabels, FrameOK, Conns
  <2>2. call'[t] = "none"
    BY <1>e, <1>f DEF Finish, Return
  <2>3. CASE call[t] = "accept"
    <3>1. t \in Owing
      BY <1>f, <2>3 DEF Owing, Accepting
    <3>2. Cardinality(Conns) < MAX_CONNS
      <4>1. /\ IsFiniteSet(Owing) /\ Cardinality(Conns) \in Nat /\ Cardinality(Owing) \in Nat
            /\ Cardinality(Holders) = Cardinality(Conns) + Cardinality(Owing)
        BY HoldersCount DEF HoldersAdd
      <4>2. Cardinality(Owing) # 0
        BY <3>1, <4>1, FS_EmptySet
      <4>3. QED
        BY <1>0, <4>1, <4>2, ConnPoolAssumption DEF TokensBounded, TypeInv, WorldOK
    <3>3. Conns' = Conns \cup {new[t]}
      BY <1>0, <1>f, <2>1, <2>3, ConnsMove DEF Finish
    <3>4. Waiting' = Waiting \ {t} /\ t \in Waiting
      BY <1>w, <2>2, <2>3
    <3>5. Abstract!Cardinality(Conns) = Cardinality(Conns)
      BY DEF Abstract!Cardinality, Cardinality
    <3>6. QED
      BY <2>1, <3>2, <3>3, <3>4, <3>5 DEF Abstract!Grant, Waiting
  <2>4. CASE call[t] # "accept"
    <3>1. PICK kind \in {"socket", "copy"} : HandOver(new[t], kind)
      BY <1>f, <2>4 DEF Finish
    <3>2. Conns' = Conns
      BY <1>0, <2>1, <3>1, ConnsMove
    <3>3. QED
      BY <1>s, <2>2, <2>4, <3>2
  <2>5. QED
    BY <2>3, <2>4
<1>1. CASE t # m
  <2>1. CloserStep(t)
    BY <1>0, <1>1, OnlyCloserSteps
  <2>2. call[t] # "accept" /\ call'[t] # "accept"
    BY <1>0, <1>1 DEF LoopTypes, LoopInv, Places, CloserAt
  <2>3. CASE CloseCall(t)
    <3>1. PICK f \in Fds : HandOver(f, "none")
      BY <2>3 DEF CloseCall, Held
    <3>2. Conns' = Conns \ {f}
      BY <1>0, <3>1, ConnsMove
    <3>3. Waiting' = Waiting
      BY <1>w, <2>2
    <3>4. CASE f \in Conns
      BY <3>2, <3>3, <3>4 DEF Abstract!Release, Waiting
    <3>5. CASE f \notin Conns
      BY <3>2, <3>3, <3>5 DEF Silent
    <3>6. QED
      BY <3>4, <3>5
  <2>4. CASE \/ GetNameCall(t) \/ FillSockaddr(t)
             \/ CloseGetValue(t) \/ ClosePost(t) \/ CloseClear(t) \/ CloseSysClose(t)
    <3>1. UNCHANGED origin
      BY <2>4 DEF GetNameCall, FillSockaddr, CloseGetValue, ClosePost, CloseClear, CloseSysClose, app
    <3>2. QED
      BY <1>s, <2>2, <3>1 DEF Conns
  <2>5. QED
    BY <2>1, <2>3, <2>4 DEF CloserStep
<1>2. CASE t = m
  <2>1. LoopStep(t) /\ LoopAt(pc[t], call[t])
    BY <1>0, <1>2, OnlyLoopSteps DEF LoopInv, Places
  <2>2. CASE SocketCall(t)
    <3>1. call[t] = "none"
      BY <2>1, <2>2 DEF SocketCall, MayCall, LoopAt, AcceptLabels, MuxLabels
    <3>2. \/ UNCHANGED origin /\ \E f : Enter(t, "socket", NoFd, f, "check_max")
          \/ UNCHANGED cpu /\ \E f \in Fds : f \notin Conns /\ HandOver(f, "socket")
      BY <1>0, <2>2 DEF SocketCall, LowestFree, OwnInv, OwnersOpen, Held, Conns
    <3>3. Conns' = Conns
      BY <1>0, <3>2, ConnsMove DEF Conns
    <3>4. call'[t] # "accept"
      BY <1>e, <3>1, <3>2 DEF cpu
    <3>5. QED
      BY <1>s, <3>1, <3>3, <3>4
  <2>3. CASE BindCall(t) \/ ConnectCall(t) \/ ListenCall(t) \/ EpollCtlCall(t)
    <3>1. UNCHANGED call
      BY <2>3 DEF BindCall, ConnectCall, MarkDesock, ListenCall, EpollCtlCall, cpu
    <3>2. UNCHANGED origin \/ \E f \in Fds : f \notin Conns /\ HandOver(f, "listener")
      BY <2>3 DEF BindCall, ConnectCall, MarkDesock, ListenCall, EpollCtlCall, app, HeldDesocked,
                  Held, Conns
    <3>3. Conns' = Conns
      BY <1>0, <3>2, ConnsMove DEF Conns
    <3>4. QED
      BY <1>s, <3>1, <3>3
  <2>4. CASE PollCall(t) \/ SelectCall(t) \/ EpollWaitCall(t)
    <3>1. UNCHANGED origin /\ \E kind : MayWait(t, kind)
      BY <2>4 DEF PollCall, SelectCall, EpollWaitCall, app
    <3>2. call[t] = "none"
      BY <2>1, <3>1 DEF MayWait, MayCall, LoopAt, AcceptLabels, MuxLabels
    <3>3. UNCHANGED cpu \/ \E fn \in MuxCalls : \E s : Enter(t, fn, s, NoFd, "arm")
      BY <2>4 DEF PollCall, SelectCall, EpollWaitCall, Scanned, MuxCalls
    <3>4. call'[t] # "accept"
      BY <1>e, <3>2, <3>3 DEF cpu, MuxCalls
    <3>5. QED
      BY <1>s, <3>1, <3>2, <3>4 DEF Conns
  <2>5. CASE AcceptCall(t)
    <3>1. call[t] = "none" /\ call'[t] = "accept" /\ UNCHANGED origin
      BY <1>e, <2>1, <2>5 DEF AcceptCall, MayCall, LoopAt, AcceptLabels, MuxLabels, app
    <3>2. QED
      BY <1>w, <3>1 DEF Abstract!Request, Waiting, Conns
  <2>6. CASE AcceptDupFails(t)
    <3>1. call[t] = "accept" /\ call'[t] = "none" /\ UNCHANGED origin
      BY <1>e, <2>1, <2>6 DEF AcceptDupFails, Return, LoopAt, MuxLabels, app
    <3>2. QED
      BY <1>w, <3>1 DEF Abstract!Refuse, Waiting, Conns
  <2>7. CASE \/ MuxUnblock(t) \/ MuxReport(t) \/ GetNameCall(t)
             \/ FillSockaddr(t) /\ pc[t] = "name" /\ Return(t)
    <3>1. UNCHANGED origin /\ \E fn \in {"none", "getname"} : \E f, l : Enter(t, fn, f, NoFd, l)
      BY <2>7 DEF MuxUnblock, MuxReport, GetNameCall, FillSockaddr, Return, app
    <3>2. call[t] # "accept"
      BY <2>1, <2>7 DEF MuxUnblock, MuxReport, GetNameCall, MayCall, LoopAt, AcceptLabels, MuxCalls
    <3>3. call'[t] # "accept"
      BY <1>e, <3>1
    <3>4. QED
      BY <1>s, <3>1, <3>2, <3>3 DEF Conns
  <2>8. CASE \/ MuxArm(t) \/ MuxTry(t) \/ SemWait(t) \/ AcceptBlock(t) \/ AcceptSetBlock(t)
             \/ AcceptClone(t) \/ AcceptUnlisten(t)
             \/ FillSockaddr(t) /\ Goto(t, "check_max")
             \/ CheckMax(t) /\ Goto(t, "write_max") /\ UNCHANGED origin
    <3>1. UNCHANGED <<origin, call>>
      BY <2>8 DEF MuxArm, MuxTry, SemWait, AcceptBlock, AcceptSetBlock, AcceptClone, AcceptUnlisten,
                  FillSockaddr, Goto, app
    <3>2. QED
      BY <1>s, <3>1 DEF Conns
  <2>9. CASE AcceptDup(t)
    <3>1. UNCHANGED origin /\ \E f : Enter(t, call[t], arg[t], f, "clone")
      BY <2>9 DEF AcceptDup, app
    <3>2. call'[t] = call[t]
      BY <1>e, <3>1
    <3>3. QED
      BY <1>s, <3>1, <3>2 DEF Conns
  <2>10. CASE CheckMax(t) \/ WriteMax(t)
    <3>1. CASE Finish(t)
      BY <1>f, <2>10, <3>1 DEF CheckMax, WriteMax
    <3>2. CASE ~Finish(t)
      BY <2>8, <2>10, <3>2 DEF CheckMax, WriteMax
    <3>3. QED
      BY <3>1, <3>2
  <2>11. CASE FillSockaddr(t)
    BY <2>7, <2>8, <2>11 DEF FillSockaddr
  <2>12. CASE GetNameCall(t) \/ MuxUnblock(t) \/ MuxReport(t)
    BY <2>7, <2>12
  <2>13. CASE \/ MuxArm(t) \/ MuxTry(t) \/ SemWait(t) \/ AcceptBlock(t) \/ AcceptSetBlock(t)
              \/ AcceptClone(t) \/ AcceptUnlisten(t)
    BY <2>8, <2>13
  <2>14. QED
    BY <2>1, <2>2, <2>3, <2>4, <2>5, <2>6, <2>9, <2>10, <2>11, <2>12, <2>13 DEF LoopStep
<1>3. QED
  BY <1>1, <1>2

\* For an event loop, too, libdesock's accept and close implement the abstract pool: it is
\* granted a connection only while fewer than MAX_CONNS are open.
THEOREM LoopPoolRefined ==
  ASSUME NEW m \in Threads, LoopApp(m)
  PROVE  Spec => RefinesPool
<1> DEFINE Inv == LoopTypes(m) /\ TokensBounded
<1>1. Init => Abstract!Init
  BY DEF Init, Abstract!Init, Conns
<1>2. Inv /\ Inv' /\ [Next]_vars => [Abstract!Next]_(Abstract!vars)
  <2> SUFFICES ASSUME Inv, Inv', [Next]_vars PROVE [Abstract!Next]_(Abstract!vars)
    OBVIOUS
  <2>1. ASSUME Silent PROVE UNCHANGED Abstract!vars
    BY <2>1 DEF Silent, Abstract!vars, Waiting
  <2>2. CASE UNCHANGED vars
    BY <2>1, <2>2 DEF vars, app, cpu, Silent, Conns, Waiting
  <2>3. ASSUME NEW t \in Threads, AppCall(t) \/ LibStep(t)
        PROVE  [Abstract!Next]_(Abstract!vars)
    BY <2>1, <2>3, LoopStepRefines DEF Abstract!Next
  <2>4. QED
    BY <2>2, <2>3 DEF Next
<1>3. Spec => []Inv
  BY LoopTokensInvariant
<1> HIDE DEF Inv
<1>4. QED
  BY <1>1, <1>2, <1>3, PTL DEF Spec, RefinesPool, Abstract!Spec

\* So an event loop never holds more than MAX_CONNS connections.
THEOREM LoopConnectionLimit ==
  ASSUME NEW m \in Threads, LoopApp(m)
  PROVE  Spec => []ConnLimit
<1>1. LoopTypes(m) /\ TokensBounded => ConnLimit
  BY HoldersCount, ConnPoolAssumption
     DEF LoopTypes, HoldersAdd, TokensBounded, ConnLimit, TypeInv, WorldOK
<1>2. QED
  BY <1>1, LoopTokensInvariant, PTL

-----------------------------------------------------------------------------
(* The listener that epoll_wait leaves out *)

\* While a listener is open and no close is under way, what epoll_wait may report as a
\* connection holds a token.
LEMMA StreamsHoldTokens ==
  ASSUME NEW m \in Threads, TypeInv, LoopInv(m), \A t \in Threads : call[t] # "close",
         NEW s \in TableFds, fd_table[s].desock = 1, fd_table[s].listening = 1,
         NEW f \in TableFds, fd_table[f].desock = 1, fd_table[f].listening = 0
  PROVE  \/ f \in Conns
         \/ m \in Owing /\ f = new[m]
<1>1. s \in Fds /\ f \in Fds
  BY DEF TypeInv, TableOK
<1>2. /\ LoopAt(pc[m], call[m]) /\ \A t \in Threads \ {m} : CloserAt(pc[t], call[t])
      /\ OneSocket(m) /\ Marks(m) /\ Streams(m)
  BY DEF LoopInv, Places
<1>3. \E g \in Listeners : TRUE
  <2>1. s \in Listeners \/ pc[m] = "unlisten"
    BY <1>1, <1>2 DEF Marks, LISTENING_FD, DESOCK_FD, VALID_FD
  <2>2. pc[m] = "unlisten" => call[m] = "accept"
    BY <1>2 DEF LoopAt, MuxLabels
  <2>3. QED
    BY <1>2, <2>1, <2>2 DEF Marks
<1>4. origin[f] # "socket"
  BY <1>1, <1>2, <1>3 DEF OneSocket, IsSock, Listeners
<1>5. \A t \in Threads : ~Closes(t, f)
  BY <1>2 DEF Closes, LoopAt, CloserAt, CloseLabels, AcceptLabels, MuxLabels
<1>6. f \in Conns \/ (call[m] = "accept" /\ Creates(m, f))
  BY <1>1, <1>2, <1>4, <1>5 DEF Streams
<1>7. call[m] = "accept" /\ Creates(m, f) => m \in Owing /\ f = new[m]
  BY <1>2 DEF LoopAt, AcceptLabels, MuxLabels, MuxCalls, Creates, NewLabels, Owing, Accepting
<1>8. QED
  BY <1>6, <1>7

\* An array of MAX_CONNS events hides the listener from epoll_wait only while there is no
\* token to admit anyone with, or a close is about to give one back
\* (src/epoll.c:49-95).
THEOREM HiddenListenerIsIdle ==
  ASSUME NEW m \in Threads, LoopApp(m)
  PROVE  Spec => []HiddenListenerHasNoToken
<1>1. LoopTypes(m) /\ TokensBounded => HiddenListenerHasNoToken
  <2> DEFINE Hidden(e) == /\ WaitServer(fd_table, e, max_fd, FD_TABLE_SIZE + 1) # {}
                          /\ WaitServer(fd_table, e, max_fd, MAX_CONNS) = {}
                          /\ \A t \in Threads : call[t] # "close"
  <2> SUFFICES ASSUME TypeInv, LoopInv(m), TokensBounded, NEW e \in Epolls, Hidden(e)
               PROVE  sem = 0
    BY DEF HiddenListenerHasNoToken, LoopTypes
  <2> DEFINE servers == {f \in Registered(fd_table, e, max_fd) : fd_table[f].listening = 1}
             hits    == Hits(fd_table, e, max_fd, MAX_CONNS)
  <2>1. PICK s \in servers : \A g \in servers : g <= s
    BY DEF WaitServer
  <2>2. Cardinality(hits) = MAX_CONNS
    BY <2>1 DEF WaitServer
  <2>3. /\ s \in TableFds /\ fd_table[s].desock = 1 /\ fd_table[s].listening = 1
        /\ \A f \in hits : f \in TableFds /\ fd_table[f].desock = 1 /\ fd_table[f].listening = 0
    BY DEF Registered, Hits
  <2> HIDE DEF servers, hits
  <2>4. \A f \in hits : f \in Conns \/ (m \in Owing /\ f = new[m])
    BY <2>3, StreamsHoldTokens
  <2>5. /\ IsFiniteSet(Conns) /\ Cardinality(Conns) \in Nat
        /\ IsFiniteSet(Owing) /\ Cardinality(Owing) \in Nat
        /\ sem + Cardinality(Conns) + Cardinality(Owing) <= MAX_CONNS
        /\ sem \in Nat /\ MAX_CONNS \in Nat
    BY HoldersCount, ConnPoolAssumption DEF HoldersAdd, TokensBounded, TypeInv, WorldOK
  <2>6. MAX_CONNS <= Cardinality(Conns) + Cardinality(Owing)
    <3>1. CASE m \in Owing
      <4>1. hits \subseteq Conns \cup {new[m]}
        BY <2>4
      <4>2. /\ IsFiniteSet(Conns \cup {new[m]})
            /\ Cardinality(Conns \cup {new[m]}) <= Cardinality(Conns) + 1
        <5>1. IsFiniteSet({new[m]}) /\ Cardinality({new[m]}) = 1
          BY FS_Singleton
        <5>2. QED
          BY <2>5, <5>1, UnionBound
      <4>3. Cardinality(hits) <= Cardinality(Conns \cup {new[m]})
        BY <4>1, <4>2, FS_Subset
      <4>4. Cardinality(Conns \cup {new[m]}) \in Nat
        BY <4>2, FS_CardinalityType
      <4>5. Cardinality(Owing) # 0
        BY <2>5, <3>1, FS_EmptySet
      <4>6. QED
        <5>1. PICK c \in Nat, u \in Nat, o \in Nat :
                c = Cardinality(Conns) /\ u = Cardinality(Conns \cup {new[m]})
                /\ o = Cardinality(Owing)
          BY <2>5, <4>4
        <5>2. MAX_CONNS <= u /\ u <= c + 1 /\ o # 0
          BY <2>2, <4>2, <4>3, <4>5, <5>1
        <5>3. MAX_CONNS \in Nat
          BY <2>5
        <5>4. QED
          BY <5>1, <5>2, <5>3
    <3>2. CASE m \notin Owing
      <4>1. hits \subseteq Conns
        BY <2>4, <3>2
      <4>2. Cardinality(hits) <= Cardinality(Conns)
        BY <2>5, <4>1, FS_Subset
      <4>3. QED
        BY <2>2, <2>5, <4>2
    <3>3. QED
      BY <3>1, <3>2
  <2>7. QED
    BY <2>5, <2>6
<1>2. QED
  BY <1>1, LoopTokensInvariant, PTL
=============================================================================
