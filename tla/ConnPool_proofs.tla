-------------------------- MODULE ConnPool_proofs --------------------------
(***************************************************************************)
(* Theorems about ConnPool, for every application, number of threads and   *)
(* size of the table unless a theorem says otherwise: the types, the bound *)
(* on the semaphore, who owns which descriptor, and, with one thread that  *)
(* creates descriptors, max_fd.                                            *)
(***************************************************************************)
EXTENDS ConnPool, FiniteSetTheorems, TLAPS

-----------------------------------------------------------------------------
(* Entries and the table *)

\* What the code does to an entry leaves an entry.
LEMMA EntryUpdates ==
  ASSUME NEW e \in Entry
  PROVE  /\ clear_fd_table_entry(e) \in Entry
         /\ clear_fd_table_entry(e).desock = 0
         /\ clear_fd_table_entry(e).listening = 0
         /\ \A d \in Domains :
              LET s == [clear_fd_table_entry(e) EXCEPT !.domain = d]
              IN  s \in Entry /\ s.desock = 0 /\ s.listening = 0
         /\ [e EXCEPT !.desock = 1] \in Entry
         /\ [e EXCEPT !.listening = 1] \in Entry
         /\ [e EXCEPT !.listening = 0] \in Entry
         /\ [e EXCEPT !.epfd = -1] \in Entry
         /\ \A p \in Epolls, o \in BOOLEAN, f \in Fds :
              [e EXCEPT !.epfd = p, !.oneshot = o, !.data = f] \in Entry
<1> DEFINE c == clear_fd_table_entry(e)
<1>1. c \in Entry /\ c.desock = 0 /\ c.listening = 0
  BY DEF Entry, Domains, clear_fd_table_entry
<1>2. ASSUME NEW d \in Domains
      PROVE  LET s == [c EXCEPT !.domain = d]
             IN  s \in Entry /\ s.desock = 0 /\ s.listening = 0
  <2> HIDE DEF c
  <2>1. QED
    BY <1>1 DEF Entry
<1>3. /\ [e EXCEPT !.desock = 1] \in Entry
      /\ [e EXCEPT !.listening = 1] \in Entry
      /\ [e EXCEPT !.listening = 0] \in Entry
      /\ [e EXCEPT !.epfd = -1] \in Entry
  BY DEF Entry
<1>4. ASSUME NEW p \in Epolls, NEW o \in BOOLEAN, NEW f \in Fds
      PROVE  [e EXCEPT !.epfd = p, !.oneshot = o, !.data = f] \in Entry
  BY DEF Entry
<1>5. QED
  BY <1>1, <1>2, <1>3, <1>4

\* A table in which every desocketed entry belongs to a descriptor of the kernel.
TableOK(table) ==
  table \in Table /\ \A f \in TableFds : table[f].desock = 1 => f \in Fds

\* Writing the entry of such a descriptor, or one that is not desocketed.
LEMMA TableUpdate ==
  ASSUME NEW table, TableOK(table), NEW f \in TableFds, NEW e \in Entry,
         e.desock = 1 => f \in Fds
  PROVE  TableOK([table EXCEPT ![f] = e])
<1> DEFINE new_table == [table EXCEPT ![f] = e]
<1>1. new_table \in [TableFds -> Entry]
  BY DEF TableOK, Table
<1>2. \A g \in TableFds : new_table[g] = IF g = f THEN e ELSE table[g]
  BY DEF TableOK, Table
<1>3. QED
  BY <1>1, <1>2 DEF TableOK, Table

\* Dropping registrations changes nothing else.
LEMMA TableDisarm ==
  ASSUME NEW table, TableOK(table), NEW fs
  PROVE  /\ TableOK(disarm_oneshot(table, fs))
         /\ \A f \in TableFds :
              /\ disarm_oneshot(table, fs)[f].domain = table[f].domain
              /\ disarm_oneshot(table, fs)[f].desock = table[f].desock
              /\ disarm_oneshot(table, fs)[f].listening = table[f].listening
<1> DEFINE new_table == disarm_oneshot(table, fs)
<1>1. ASSUME NEW f \in TableFds
      PROVE  /\ new_table[f] \in Entry
             /\ new_table[f].domain = table[f].domain
             /\ new_table[f].desock = table[f].desock
             /\ new_table[f].listening = table[f].listening
  <2>1. table[f] \in Entry
    BY DEF TableOK, Table
  <2>2. new_table[f] = IF f \in fs /\ table[f].oneshot
                     THEN [table[f] EXCEPT !.epfd = -1] ELSE table[f]
    BY DEF disarm_oneshot
  <2>3. [table[f] EXCEPT !.epfd = -1] \in Entry
    BY <2>1, EntryUpdates
  <2>4. QED
    BY <2>1, <2>2, <2>3 DEF Entry
<1>2. new_table \in Table
  BY <1>1 DEF Table, disarm_oneshot
<1>3. QED
  BY <1>1, <1>2 DEF TableOK

-----------------------------------------------------------------------------
(* Type correctness.  The types alone are not inductive: a step that writes   *)
(* an entry needs the descriptor the thread brought to it to be in the table, *)
(* and a reported event is a descriptor only if epoll scans real ones.        *)

\* the labels at which a thread is about to use its argument as an index
ArgLabels ==
  {"block", "sem_wait", "set_block", "dup", "clone", "unlisten", "fill", "name", "copy",
   "getvalue", "post", "clear", "arm", "try", "unblock", "report"}
NewLabels == {"clone", "unlisten", "fill", "copy", "check_max", "write_max"}

\* A thread may be at label l with argument f, creating g.
FrameOK(l, f, g) ==
  /\ l \in Labels /\ f \in Fds \cup {NoFd} /\ g \in Fds \cup {NoFd}
  /\ l \in ArgLabels => f \in TableFds \cap Fds
  /\ l = "sysclose" => f \in Fds
  /\ l \in NewLabels => g \in TableFds \cap Fds

CpuOK ==
  /\ pc \in [Threads -> Labels]
  /\ call \in [Threads -> CallNames]
  /\ arg \in [Threads -> Fds \cup {NoFd}]
  /\ new \in [Threads -> Fds \cup {NoFd}]
  /\ \A t \in Threads : FrameOK(pc[t], arg[t], new[t])

WorldOK ==
  /\ sem \in Nat
  /\ accept_block \in {0, 1}
  /\ max_fd \in 0 .. FD_TABLE_SIZE
  /\ kernel \in [Fds -> {"closed", "file", "sock"}]
  /\ origin \in [Fds -> Origins]
  /\ opened \in Nat
  /\ ready \in [Threads -> SUBSET Fds]

TypeInv == WorldOK /\ TableOK(fd_table) /\ CpuOK

\* The initial state is well typed.
LEMMA InitType == Init => TypeInv
BY FdTableAssumption, ConnPoolAssumption
   DEF Init, TypeInv, WorldOK, TableOK, CpuOK, FrameOK, ZeroedEntry, Entry, Table, Domains,
       Supported, Fds, TableFds, NoFd, Labels, CallNames, Origins, ArgLabels, NewLabels

\* The strengthened invariant is about the types.
LEMMA TypeInvTypes == TypeInv => TypeOK
BY DEF TypeInv, WorldOK, TableOK, CpuOK, TypeOK

\* Entering a function, or going on in it, keeps the frames.
LEMMA EnterCpu ==
  ASSUME CpuOK, NEW t \in Threads, NEW fn \in CallNames, NEW l, NEW f, NEW g,
         FrameOK(l, f, g), Enter(t, fn, f, g, l)
  PROVE  CpuOK'
BY DEF CpuOK, Enter, FrameOK

LEMMA GotoCpu ==
  ASSUME CpuOK, NEW t \in Threads, NEW l, FrameOK(l, arg[t], new[t]), Goto(t, l)
  PROVE  CpuOK'
BY DEF CpuOK, Goto, FrameOK

LEMMA ReturnCpu ==
  ASSUME CpuOK, NEW t \in Threads, Return(t)
  PROVE  CpuOK'
<1>1. FrameOK("idle", NoFd, NoFd)
  BY DEF FrameOK, Labels, ArgLabels, NewLabels
<1>2. QED
  BY <1>1, EnterCpu DEF Return, CallNames

LEMMA SameCpu ==
  ASSUME CpuOK, UNCHANGED cpu
  PROVE  CpuOK'
BY DEF CpuOK, cpu, FrameOK

\* What a step hands over, finishes or reports is well typed.
LEMMA HandOverType ==
  ASSUME origin \in [Fds -> Origins], NEW f, NEW k \in Origins, HandOver(f, k)
  PROVE  origin' \in [Fds -> Origins]
BY DEF HandOver

LEMMA FinishType ==
  ASSUME CpuOK, origin \in [Fds -> Origins], NEW t \in Threads, Finish(t)
  PROVE  CpuOK' /\ origin' \in [Fds -> Origins]
BY ReturnCpu, HandOverType DEF Finish, Origins

LEMMA ReportType ==
  ASSUME ready \in [Threads -> SUBSET Fds], TableOK(fd_table), NEW t \in Threads, NEW found,
         Report(t, found)
  PROVE  ready' \in [Threads -> SUBSET Fds]
BY DEF Report, TableOK, LISTENING_FD, DESOCK_FD, VALID_FD

LEMMA ScannedOK ==
  ASSUME CpuOK, ready \in [Threads -> SUBSET Fds], TableOK(fd_table), NEW t \in Threads,
         NEW fn \in CallNames, NEW found \in SUBSET Fds,
         NEW servers \in SUBSET (TableFds \cap Fds), Scanned(t, fn, found, servers)
  PROVE  CpuOK' /\ ready' \in [Threads -> SUBSET Fds]
<1>1. CASE Report(t, found) /\ UNCHANGED cpu
  BY <1>1, ReportType, SameCpu
<1>2. ASSUME NEW s \in servers, Enter(t, fn, s, NoFd, "arm"),
             ready' = [ready EXCEPT ![t] = found]
      PROVE  CpuOK' /\ ready' \in [Threads -> SUBSET Fds]
  <2>1. FrameOK("arm", s, NoFd)
    BY DEF FrameOK, Labels, ArgLabels, NewLabels
  <2>2. QED
    BY <1>2, <2>1, EnterCpu
<1>3. QED
  BY <1>1, <1>2 DEF Scanned

\* Every step keeps the types.
LEMMA TypeStep == TypeInv /\ [Next]_vars => TypeInv'
<1> SUFFICES ASSUME TypeInv, [Next]_vars PROVE TypeInv'
  OBVIOUS
<1>0. WorldOK /\ TableOK(fd_table) /\ CpuOK
  BY DEF TypeInv
<1>e. \A f \in TableFds : fd_table[f] \in Entry
  BY <1>0 DEF TableOK, Table
<1> USE FdTableAssumption, ConnPoolAssumption DEF TypeInv
<1>1. ASSUME NEW t \in Threads, OpenCall(t) PROVE TypeInv'
  <2>1. WorldOK'
    BY <1>0, <1>1, HandOverType DEF OpenCall, WorldOK, lib, app, Origins, LowestFree, Held
  <2>2. TableOK(fd_table)'
    BY <1>0, <1>1 DEF OpenCall, TableOK, lib
  <2>3. CpuOK'
    BY <1>0, <1>1, SameCpu DEF OpenCall, cpu
  <2>4. QED
    BY <2>1, <2>2, <2>3
<1>2. ASSUME NEW t \in Threads, SocketCall(t) PROVE TypeInv'
  <2>1. PICK f \in Fds, d \in Domains :
          /\ kernel' = [kernel EXCEPT ![f] = "sock"]
          /\ \/ /\ f \in TableFds
                /\ fd_table' = [fd_table EXCEPT ![f] =
                                  [clear_fd_table_entry(@) EXCEPT !.domain = d]]
                /\ Enter(t, "socket", NoFd, f, "check_max")
                /\ UNCHANGED origin
             \/ /\ HandOver(f, "socket")
                /\ UNCHANGED <<fd_table, cpu>>
    BY <1>2 DEF SocketCall, LowestFree, Domains, Supported, VALID_FD
  <2>2. WorldOK'
    <3>1. origin' \in [Fds -> Origins]
      BY <1>0, <2>1, HandOverType DEF WorldOK, Origins
    <3>2. opened' = opened + 1 /\ UNCHANGED <<sem, accept_block, max_fd, ready>>
      BY <1>2 DEF SocketCall
    <3>3. kernel' \in [Fds -> {"closed", "file", "sock"}]
      BY <1>0, <2>1 DEF WorldOK
    <3>4. QED
      BY <1>0, <3>1, <3>2, <3>3 DEF WorldOK
  <2>3. TableOK(fd_table)'
    <3>1. CASE UNCHANGED fd_table
      BY <1>0, <3>1 DEF TableOK
    <3>2. CASE /\ f \in TableFds
               /\ fd_table' = [fd_table EXCEPT ![f] = [clear_fd_table_entry(@) EXCEPT !.domain = d]]
      <4> DEFINE e == [clear_fd_table_entry(fd_table[f]) EXCEPT !.domain = d]
      <4>1. e \in Entry /\ e.desock = 0
        BY <1>e, <3>2, EntryUpdates
      <4>2. fd_table' = [fd_table EXCEPT ![f] = e]
        BY <3>2
      <4>3. TableOK([fd_table EXCEPT ![f] = e])
        <5> HIDE DEF e
        <5>1. QED
          BY <1>0, <3>2, <4>1, TableUpdate
      <4>4. QED
        BY <4>2, <4>3 DEF TableOK
    <3>3. QED
      BY <2>1, <3>1, <3>2
  <2>4. CpuOK'
    <3>1. f \in TableFds => FrameOK("check_max", NoFd, f)
      BY DEF FrameOK, Labels, ArgLabels, NewLabels
    <3>2. QED
      BY <1>0, <2>1, <3>1, EnterCpu, SameCpu DEF CallNames
  <2>5. QED
    BY <2>2, <2>3, <2>4
<1>3. ASSUME NEW t \in Threads, BindCall(t) PROVE TypeInv'
  <2>1. PICK f \in TableFds \cap Fds : fd_table' = [fd_table EXCEPT ![f].desock = 1]
    BY <1>3 DEF BindCall, MarkDesock, Held, has_supported_domain, VALID_FD
  <2>2. WorldOK'
    BY <1>0, <1>3 DEF BindCall, MarkDesock, WorldOK, app, Origins
  <2>3. TableOK(fd_table)'
    BY <1>0, <1>e, <2>1, EntryUpdates, TableUpdate
  <2>4. CpuOK'
    BY <1>0, <1>3, SameCpu DEF BindCall, MarkDesock, cpu
  <2>5. QED
    BY <2>2, <2>3, <2>4
<1>4. ASSUME NEW t \in Threads, ConnectCall(t) PROVE TypeInv'
  <2>1. PICK f \in TableFds \cap Fds : fd_table' = [fd_table EXCEPT ![f].desock = 1]
    BY <1>4 DEF ConnectCall, MarkDesock, Held, has_supported_domain, VALID_FD
  <2>2. WorldOK'
    BY <1>0, <1>4 DEF ConnectCall, MarkDesock, WorldOK, app, Origins
  <2>3. TableOK(fd_table)'
    BY <1>0, <1>e, <2>1, EntryUpdates, TableUpdate
  <2>4. CpuOK'
    BY <1>0, <1>4, SameCpu DEF ConnectCall, MarkDesock, cpu
  <2>5. QED
    BY <2>2, <2>3, <2>4
<1>5. ASSUME NEW t \in Threads, ListenCall(t) PROVE TypeInv'
  <2>1. PICK f \in TableFds \cap Fds : fd_table' = [fd_table EXCEPT ![f].listening = 1]
    BY <1>5 DEF ListenCall, Held, HeldDesocked, DESOCK_FD, VALID_FD
  <2>2. WorldOK'
    BY <1>0, <1>5, HandOverType DEF ListenCall, WorldOK, app, Origins
  <2>3. TableOK(fd_table)'
    BY <1>0, <1>e, <2>1, EntryUpdates, TableUpdate
  <2>4. CpuOK'
    BY <1>0, <1>5, SameCpu DEF ListenCall, cpu
  <2>5. QED
    BY <2>2, <2>3, <2>4
<1>6. ASSUME NEW t \in Threads, AcceptCall(t) PROVE TypeInv'
  <2>1. PICK f \in TableFds \cap Fds : Enter(t, "accept", f, NoFd, "block")
    BY <1>6 DEF AcceptCall, HeldDesocked, Held, DESOCK_FD, VALID_FD
  <2>2. WorldOK' /\ TableOK(fd_table)'
    BY <1>0, <1>6 DEF AcceptCall, WorldOK, TableOK, lib, app
  <2>3. FrameOK("block", f, NoFd)
    BY DEF FrameOK, Labels, ArgLabels, NewLabels
  <2>4. QED
    BY <1>0, <2>1, <2>2, <2>3, EnterCpu DEF CallNames
<1>7. ASSUME NEW t \in Threads, CloseCall(t) PROVE TypeInv'
  <2>1. PICK f \in Fds : /\ HandOver(f, "none")
                         /\ Enter(t, "close", f, NoFd, CloseLabel(f))
    BY <1>7 DEF CloseCall, Held
  <2>2. WorldOK' /\ TableOK(fd_table)'
    BY <1>0, <1>7, <2>1, HandOverType DEF CloseCall, WorldOK, TableOK, lib, Origins
  <2>3. FrameOK(CloseLabel(f), f, NoFd)
    BY DEF FrameOK, CloseLabel, VALID_FD, Labels, ArgLabels, NewLabels
  <2>4. QED
    BY <1>0, <2>1, <2>2, <2>3, EnterCpu DEF CallNames
<1>8. ASSUME NEW t \in Threads, DupCall(t) PROVE TypeInv'
  <2>1. PICK f \in Fds, g \in Fds :
          /\ kernel' = [kernel EXCEPT ![g] = kernel[f]] \/ kernel' = kernel
          /\ \/ /\ f \in TableFds /\ g \in TableFds
                /\ UNCHANGED origin \/ HandOver(g, "none")
                /\ Enter(t, "dup", f, g, "copy")
             \/ HandOver(g, "copy") /\ UNCHANGED cpu
    BY <1>8 DEF DupCall, Held, LowestFree, VALID_FD, Fds
  <2>2. WorldOK' /\ TableOK(fd_table)'
    <3>1. origin' \in [Fds -> Origins]
      BY <1>0, <2>1, HandOverType DEF WorldOK, Origins
    <3>2. kernel' \in [Fds -> {"closed", "file", "sock"}]
      BY <1>0, <2>1 DEF WorldOK
    <3>3. QED
      BY <1>0, <1>8, <3>1, <3>2 DEF DupCall, WorldOK, TableOK, lib
  <2>3. CpuOK'
    <3>1. f \in TableFds /\ g \in TableFds => FrameOK("copy", f, g)
      BY DEF FrameOK, Labels, ArgLabels, NewLabels
    <3>2. QED
      BY <1>0, <2>1, <3>1, EnterCpu, SameCpu DEF CallNames
  <2>4. QED
    BY <2>2, <2>3
<1>9. ASSUME NEW t \in Threads, Dup2Call(t) PROVE TypeInv'
  <2>0. StdTargets \subseteq Fds /\ Held \subseteq Fds
    BY DEF Fds, Held
  <2>1. PICK f \in Fds, g \in Fds :
          /\ kernel' = [kernel EXCEPT ![g] = kernel[f]] \/ kernel' = kernel
          /\ \/ /\ f \in TableFds /\ g \in TableFds
                /\ HandOver(g, "none")
                /\ Enter(t, "dup", f, g, "copy")
             \/ HandOver(g, "copy") /\ UNCHANGED cpu
    BY <1>9, <2>0 DEF Dup2Call, VALID_FD
  <2>2. WorldOK' /\ TableOK(fd_table)'
    <3>1. origin' \in [Fds -> Origins]
      BY <1>0, <2>1, HandOverType DEF WorldOK, Origins
    <3>2. kernel' \in [Fds -> {"closed", "file", "sock"}]
      BY <1>0, <2>1 DEF WorldOK
    <3>3. QED
      BY <1>0, <1>9, <3>1, <3>2 DEF Dup2Call, WorldOK, TableOK, lib
  <2>3. CpuOK'
    <3>1. f \in TableFds /\ g \in TableFds => FrameOK("copy", f, g)
      BY DEF FrameOK, Labels, ArgLabels, NewLabels
    <3>2. QED
      BY <1>0, <2>1, <3>1, EnterCpu, SameCpu DEF CallNames
  <2>4. QED
    BY <2>2, <2>3
<1>10. ASSUME NEW t \in Threads, PollCall(t) PROVE TypeInv'
  <2>1. PICK found \in SUBSET Fds, servers \in SUBSET (TableFds \cap Fds) :
          Scanned(t, "poll", found, servers)
    <3>1. PICK polled \in SUBSET HeldDesocked :
            LET servers == {f \in polled : LISTENING_FD(fd_table, f)}
            IN  \/ Scanned(t, "poll", polled, {})
                \/ \E s \in servers : Scanned(t, "poll", polled \ {s}, {s})
      BY <1>10 DEF PollCall
    <3>2. polled \subseteq TableFds \cap Fds
      BY <3>1 DEF HeldDesocked, Held, DESOCK_FD, VALID_FD
    <3>3. CASE Scanned(t, "poll", polled, {})
      BY <3>2, <3>3
    <3>4. ASSUME NEW s \in polled, Scanned(t, "poll", polled \ {s}, {s})
          PROVE  \E found \in SUBSET Fds, servers \in SUBSET (TableFds \cap Fds) :
                   Scanned(t, "poll", found, servers)
      BY <3>2, <3>4
    <3>5. QED
      BY <3>1, <3>3, <3>4
  <2>2. WorldOK'
    <3>1. ready' \in [Threads -> SUBSET Fds]
      BY <1>0, <2>1, ScannedOK DEF WorldOK, CallNames
    <3>2. QED
      BY <1>0, <1>10, <3>1 DEF PollCall, WorldOK, lib, app
  <2>3. TableOK(fd_table)'
    BY <1>0, <1>10 DEF PollCall, TableOK, lib
  <2>4. CpuOK'
    BY <1>0, <2>1, ScannedOK DEF WorldOK, CallNames
  <2>5. QED
    BY <2>2, <2>3, <2>4
<1>11. ASSUME NEW t \in Threads, SelectCall(t) PROVE TypeInv'
  <2>1. PICK found \in SUBSET Fds, servers \in SUBSET (TableFds \cap Fds) :
          Scanned(t, "select", found, servers)
    <3>1. PICK rfds \in SUBSET HeldDesocked, wfds \in SUBSET HeldDesocked :
            LET servers == {f \in rfds : LISTENING_FD(fd_table, f)}
                server  == {f \in servers : \A g \in servers : g <= f}
                streams == {f \in wfds : ~LISTENING_FD(fd_table, f)}
            IN  Scanned(t, "select", (rfds \cup streams) \ server, server)
      BY <1>11 DEF SelectCall
    <3>2. rfds \subseteq TableFds \cap Fds /\ wfds \subseteq Fds
      BY <3>1 DEF HeldDesocked, Held, DESOCK_FD, VALID_FD
    <3> DEFINE servers == {f \in rfds : LISTENING_FD(fd_table, f)}
                 server  == {f \in servers : \A g \in servers : g <= f}
                 found   == (rfds \cup {f \in wfds : ~LISTENING_FD(fd_table, f)}) \ server
    <3>4. server \in SUBSET (TableFds \cap Fds) /\ found \in SUBSET Fds
      BY <3>2
    <3>5. Scanned(t, "select", found, server)
      BY <3>1
    <3> HIDE DEF server, found
    <3>6. QED
      BY <3>4, <3>5
  <2>2. WorldOK'
    <3>1. ready' \in [Threads -> SUBSET Fds]
      BY <1>0, <2>1, ScannedOK DEF WorldOK, CallNames
    <3>2. QED
      BY <1>0, <1>11, <3>1 DEF SelectCall, WorldOK, lib, app
  <2>3. TableOK(fd_table)'
    BY <1>0, <1>11 DEF SelectCall, TableOK, lib
  <2>4. CpuOK'
    BY <1>0, <2>1, ScannedOK DEF WorldOK, CallNames
  <2>5. QED
    BY <2>2, <2>3, <2>4
<1>12. ASSUME NEW t \in Threads, EpollCtlCall(t) PROVE TypeInv'
  <2>1. PICK f \in TableFds \cap Fds, e \in Epolls, once \in BOOLEAN :
          \/ fd_table' = [fd_table EXCEPT ![f] =
                            [@ EXCEPT !.epfd = e, !.oneshot = once, !.data = f]]
          \/ fd_table' = [fd_table EXCEPT ![f].epfd = -1]
    BY <1>12 DEF EpollCtlCall, Held, VALID_FD
  <2>2. WorldOK' /\ CpuOK'
    BY <1>0, <1>12, SameCpu DEF EpollCtlCall, WorldOK, app, cpu
  <2>3. TableOK(fd_table)'
    <3>1. fd_table[f].desock = 1 => f \in Fds
      OBVIOUS
    <3>2. [fd_table[f] EXCEPT !.epfd = e, !.oneshot = once, !.data = f] \in Entry
      BY <1>e, EntryUpdates
    <3>3. [fd_table[f] EXCEPT !.epfd = -1] \in Entry
      BY <1>e, EntryUpdates
    <3>4. QED
      BY <1>0, <2>1, <3>2, <3>3, TableUpdate
  <2>4. QED
    BY <2>2, <2>3
<1>13. ASSUME NEW t \in Threads, EpollWaitCall(t) PROVE TypeInv'
  <2>1. PICK e \in Epolls, cnt \in 1 .. MaxEvents :
          LET hits == Hits(fd_table, e, max_fd, cnt)
          IN  /\ fd_table' = disarm_oneshot(fd_table, hits)
              /\ Scanned(t, "epoll_wait", {fd_table[f].data : f \in hits},
                         WaitServer(fd_table, e, max_fd, cnt))
    BY <1>13 DEF EpollWaitCall
  <2> DEFINE hits   == Hits(fd_table, e, max_fd, cnt)
             found  == {fd_table[f].data : f \in hits}
             server == WaitServer(fd_table, e, max_fd, cnt)
  <2>2. found \in SUBSET Fds
    <3>1. hits \subseteq TableFds
      BY DEF Hits, Registered
    <3>2. \A f \in TableFds : fd_table[f].data \in Fds
      BY <1>e DEF Entry
    <3>3. QED
      BY <3>1, <3>2
  <2>3. server \in SUBSET (TableFds \cap Fds)
    BY <1>0 DEF WaitServer, Registered, TableOK
  <2>4. WorldOK' /\ CpuOK'
    <3> HIDE DEF found, server
    <3>1. ready' \in [Threads -> SUBSET Fds] /\ CpuOK'
      BY <1>0, <2>1, <2>2, <2>3, ScannedOK DEF WorldOK, CallNames, found, server
    <3>2. QED
      BY <1>0, <1>13, <3>1 DEF EpollWaitCall, WorldOK, app
  <2>5. TableOK(fd_table)'
    BY <1>0, <2>1, TableDisarm
  <2>6. QED
    BY <2>4, <2>5
<1>14. ASSUME NEW t \in Threads, AcceptBlock(t) PROVE TypeInv'
  <2>1. WorldOK'
    BY <1>0, <1>14 DEF AcceptBlock, WorldOK, lib, app
  <2>2. TableOK(fd_table)'
    BY <1>0, <1>14 DEF AcceptBlock, TableOK, lib
  <2>3. CpuOK'
    BY <1>0, <1>14, GotoCpu DEF AcceptBlock, CpuOK, FrameOK, Labels, ArgLabels, NewLabels, CallNames
  <2>4. QED
    BY <2>1, <2>2, <2>3
<1>15. ASSUME NEW t \in Threads, SemWait(t) PROVE TypeInv'
  <2>1. WorldOK'
    BY <1>0, <1>15 DEF SemWait, WorldOK, lib, app
  <2>2. TableOK(fd_table)'
    BY <1>0, <1>15 DEF SemWait, TableOK, lib
  <2>3. CpuOK'
    BY <1>0, <1>15, GotoCpu DEF SemWait, CpuOK, FrameOK, Labels, ArgLabels, NewLabels, CallNames
  <2>4. QED
    BY <2>1, <2>2, <2>3
<1>16. ASSUME NEW t \in Threads, SemWaitInterrupted(t) PROVE TypeInv'
  <2>1. WorldOK'
    BY <1>0, <1>16 DEF SemWaitInterrupted, WorldOK, lib, app
  <2>2. TableOK(fd_table)'
    BY <1>0, <1>16 DEF SemWaitInterrupted, TableOK, lib
  <2>3. CpuOK'
    BY <1>0, <1>16, GotoCpu DEF SemWaitInterrupted, CpuOK, FrameOK, Labels, ArgLabels,
                                NewLabels, CallNames
  <2>4. QED
    BY <2>1, <2>2, <2>3
<1>17. ASSUME NEW t \in Threads, AcceptSetBlock(t) PROVE TypeInv'
  <2>1. WorldOK'
    BY <1>0, <1>17 DEF AcceptSetBlock, WorldOK, lib, app
  <2>2. TableOK(fd_table)'
    BY <1>0, <1>17 DEF AcceptSetBlock, TableOK, lib
  <2>3. CpuOK'
    BY <1>0, <1>17, GotoCpu DEF AcceptSetBlock, CpuOK, FrameOK, Labels, ArgLabels, NewLabels,
                                CallNames
  <2>4. QED
    BY <2>1, <2>2, <2>3
<1>18. ASSUME NEW t \in Threads, AcceptDupFails(t) PROVE TypeInv'
  <2>1. arg[t] \in Fds
    BY <1>0, <1>18 DEF AcceptDupFails, CpuOK, FrameOK, ArgLabels
  <2>2. kernel' = kernel \/ \E f \in Fds : kernel' = [kernel EXCEPT ![f] = kernel[arg[t]]]
    BY <1>18 DEF AcceptDupFails, LowestFree
  <2>3. WorldOK' /\ TableOK(fd_table)'
    BY <1>0, <1>18, <2>1, <2>2 DEF AcceptDupFails, WorldOK, TableOK, lib, app
  <2>4. CpuOK'
    BY <1>0, <1>18, ReturnCpu DEF AcceptDupFails
  <2>5. QED
    BY <2>3, <2>4
<1>19. ASSUME NEW t \in Threads, AcceptDup(t) PROVE TypeInv'
  <2>1. arg[t] \in TableFds \cap Fds /\ call[t] \in CallNames
    BY <1>0, <1>19 DEF AcceptDup, CpuOK, FrameOK, ArgLabels
  <2>2. PICK f \in TableFds \cap Fds : /\ kernel' = [kernel EXCEPT ![f] = kernel[arg[t]]]
                                       /\ Enter(t, call[t], arg[t], f, "clone")
    BY <1>19 DEF AcceptDup, LowestFree, VALID_FD
  <2>3. WorldOK' /\ TableOK(fd_table)'
    BY <1>0, <1>19, <2>1, <2>2 DEF AcceptDup, WorldOK, TableOK, lib, app
  <2>4. FrameOK("clone", arg[t], f)
    BY <2>1 DEF FrameOK, Labels, ArgLabels, NewLabels
  <2>5. QED
    BY <1>0, <2>1, <2>2, <2>3, <2>4, EnterCpu
<1>20. ASSUME NEW t \in Threads, AcceptClone(t) PROVE TypeInv'
  <2>1. arg[t] \in TableFds /\ new[t] \in TableFds \cap Fds
    BY <1>0, <1>20 DEF AcceptClone, CpuOK, FrameOK, ArgLabels, NewLabels
  <2>2. WorldOK'
    BY <1>0, <1>20 DEF AcceptClone, WorldOK, app
  <2>3. TableOK(fd_table)'
    BY <1>0, <1>e, <1>20, <2>1, TableUpdate DEF AcceptClone, clone_fd_table_entry
  <2>4. CpuOK'
    BY <1>0, <1>20, GotoCpu DEF AcceptClone, CpuOK, FrameOK, Labels, ArgLabels, NewLabels
  <2>5. QED
    BY <2>2, <2>3, <2>4
<1>21. ASSUME NEW t \in Threads, AcceptUnlisten(t) PROVE TypeInv'
  <2>1. new[t] \in TableFds \cap Fds
    BY <1>0, <1>21 DEF AcceptUnlisten, CpuOK, FrameOK, NewLabels
  <2>2. WorldOK'
    BY <1>0, <1>21 DEF AcceptUnlisten, WorldOK, app
  <2>3. TableOK(fd_table)'
    BY <1>0, <1>e, <1>21, <2>1, EntryUpdates, TableUpdate DEF AcceptUnlisten
  <2>4. CpuOK'
    BY <1>0, <1>21, GotoCpu DEF AcceptUnlisten, CpuOK, FrameOK, Labels, ArgLabels, NewLabels
  <2>5. QED
    BY <2>2, <2>3, <2>4
<1>22. ASSUME NEW t \in Threads, CheckMax(t) PROVE TypeInv'
  <2>1. FrameOK("write_max", arg[t], new[t])
    BY <1>0, <1>22 DEF CheckMax, CpuOK, FrameOK, Labels, ArgLabels, NewLabels
  <2>2. CpuOK' /\ origin' \in [Fds -> Origins]
    BY <1>0, <1>22, <2>1, GotoCpu, FinishType DEF CheckMax, WorldOK
  <2>3. QED
    BY <1>0, <1>22, <2>2 DEF CheckMax, WorldOK, TableOK, lib
<1>23. ASSUME NEW t \in Threads, WriteMax(t) PROVE TypeInv'
  <2>1. new[t] \in TableFds
    BY <1>0, <1>23 DEF WriteMax, CpuOK, FrameOK, NewLabels
  <2>2. max_fd' \in 0 .. FD_TABLE_SIZE
    BY <1>23, <2>1 DEF WriteMax, TableFds
  <2>3. CpuOK' /\ origin' \in [Fds -> Origins]
    BY <1>0, <1>23, FinishType DEF WriteMax, WorldOK
  <2>4. QED
    BY <1>0, <1>23, <2>2, <2>3 DEF WriteMax, WorldOK, TableOK
<1>24. ASSUME NEW t \in Threads, CloseGetValue(t) PROVE TypeInv'
  <2>1. WorldOK'
    BY <1>0, <1>24 DEF CloseGetValue, WorldOK, lib, app
  <2>2. TableOK(fd_table)'
    BY <1>0, <1>24 DEF CloseGetValue, TableOK, lib
  <2>3. CpuOK'
    BY <1>0, <1>24, GotoCpu DEF CloseGetValue, CpuOK, FrameOK, Labels, ArgLabels, NewLabels,
                                CallNames
  <2>4. QED
    BY <2>1, <2>2, <2>3
<1>25. ASSUME NEW t \in Threads, ClosePost(t) PROVE TypeInv'
  <2>1. WorldOK'
    BY <1>0, <1>25 DEF ClosePost, WorldOK, lib, app
  <2>2. TableOK(fd_table)'
    BY <1>0, <1>25 DEF ClosePost, TableOK, lib
  <2>3. CpuOK'
    BY <1>0, <1>25, GotoCpu DEF ClosePost, CpuOK, FrameOK, Labels, ArgLabels, NewLabels, CallNames
  <2>4. QED
    BY <2>1, <2>2, <2>3
<1>26. ASSUME NEW t \in Threads, CloseClear(t) PROVE TypeInv'
  <2>1. arg[t] \in TableFds \cap Fds
    BY <1>0, <1>26 DEF CloseClear, CpuOK, FrameOK, ArgLabels
  <2>2. WorldOK'
    BY <1>0, <1>26 DEF CloseClear, WorldOK, app
  <2>3. TableOK(fd_table)'
    BY <1>0, <1>e, <1>26, <2>1, EntryUpdates, TableUpdate DEF CloseClear
  <2>4. CpuOK'
    BY <1>0, <1>26, GotoCpu DEF CloseClear, CpuOK, FrameOK, Labels, ArgLabels, NewLabels
  <2>5. QED
    BY <2>2, <2>3, <2>4
<1>27. ASSUME NEW t \in Threads, CloseSysClose(t) PROVE TypeInv'
  <2>1. WorldOK'
    BY <1>0, <1>27 DEF CloseSysClose, WorldOK, lib, app
  <2>2. TableOK(fd_table)'
    BY <1>0, <1>27 DEF CloseSysClose, TableOK, lib
  <2>3. CpuOK'
    BY <1>0, <1>27, ReturnCpu DEF CloseSysClose
  <2>4. QED
    BY <2>1, <2>2, <2>3
<1>28. ASSUME NEW t \in Threads, CopyEntry(t) PROVE TypeInv'
  <2>1. arg[t] \in TableFds /\ new[t] \in TableFds \cap Fds
    BY <1>0, <1>28 DEF CopyEntry, CpuOK, FrameOK, ArgLabels, NewLabels
  <2>2. WorldOK'
    BY <1>0, <1>28 DEF CopyEntry, WorldOK, app
  <2>3. TableOK(fd_table)'
    BY <1>0, <1>e, <1>28, <2>1, TableUpdate DEF CopyEntry, clone_fd_table_entry
  <2>4. CpuOK'
    BY <1>0, <1>28, GotoCpu DEF CopyEntry, CpuOK, FrameOK, Labels, ArgLabels, NewLabels
  <2>5. QED
    BY <2>2, <2>3, <2>4
<1>29. ASSUME NEW t \in Threads, MuxArm(t) PROVE TypeInv'
  <2>1. WorldOK'
    BY <1>0, <1>29 DEF MuxArm, WorldOK, lib, app
  <2>2. TableOK(fd_table)'
    BY <1>0, <1>29 DEF MuxArm, TableOK, lib
  <2>3. CpuOK'
    BY <1>0, <1>29, GotoCpu DEF MuxArm, CpuOK, FrameOK, Labels, ArgLabels, NewLabels, CallNames
  <2>4. QED
    BY <2>1, <2>2, <2>3
<1>30. ASSUME NEW t \in Threads, MuxTry(t) PROVE TypeInv'
  <2>1. WorldOK'
    BY <1>0, <1>30 DEF MuxTry, WorldOK, lib, app
  <2>2. TableOK(fd_table)'
    BY <1>0, <1>30 DEF MuxTry, TableOK, lib
  <2>3. CpuOK'
    BY <1>0, <1>30, GotoCpu DEF MuxTry, CpuOK, FrameOK, Labels, ArgLabels, NewLabels, CallNames
  <2>4. QED
    BY <2>1, <2>2, <2>3
<1>31. ASSUME NEW t \in Threads, MuxUnblock(t) PROVE TypeInv'
  <2>1. WorldOK'
    BY <1>0, <1>31, ReportType DEF MuxUnblock, WorldOK, app
  <2>2. TableOK(fd_table)'
    BY <1>0, <1>31 DEF MuxUnblock, TableOK
  <2>3. CpuOK'
    BY <1>0, <1>31, ReturnCpu DEF MuxUnblock
  <2>4. QED
    BY <2>1, <2>2, <2>3
<1>32. ASSUME NEW t \in Threads, MuxReport(t) PROVE TypeInv'
  <2>1. PICK event : Report(t, ready[t] \cup {event})
    BY <1>32 DEF MuxReport
  <2>2. WorldOK'
    BY <1>0, <1>32, <2>1, ReportType DEF MuxReport, WorldOK, app
  <2>3. TableOK(fd_table)'
    BY <1>0, <1>32, TableDisarm DEF MuxReport
  <2>4. CpuOK'
    BY <1>0, <1>32, ReturnCpu DEF MuxReport
  <2>5. QED
    BY <2>2, <2>3, <2>4
<1>33. ASSUME NEW t \in Threads, GetNameCall(t) PROVE TypeInv'
  <2>1. PICK f \in TableFds \cap Fds : Enter(t, "getname", f, NoFd, "name")
    BY <1>33 DEF GetNameCall, HeldDesocked, Held, DESOCK_FD, VALID_FD
  <2>2. WorldOK' /\ TableOK(fd_table)'
    BY <1>0, <1>33 DEF GetNameCall, WorldOK, TableOK, lib, app
  <2>3. FrameOK("name", f, NoFd)
    BY DEF FrameOK, Labels, ArgLabels, NewLabels
  <2>4. QED
    BY <1>0, <2>1, <2>2, <2>3, EnterCpu DEF CallNames
<1>34. ASSUME NEW t \in Threads, FillSockaddr(t) PROVE TypeInv'
  <2>1. WorldOK' /\ TableOK(fd_table)'
    BY <1>0, <1>34 DEF FillSockaddr, WorldOK, TableOK, lib, app
  <2>2. CpuOK'
    <3>1. CASE pc[t] = "fill" /\ Goto(t, "check_max")
      BY <1>0, <3>1, GotoCpu DEF CpuOK, FrameOK, Labels, ArgLabels, NewLabels
    <3>2. CASE Return(t)
      BY <1>0, <3>2, ReturnCpu
    <3>3. QED
      BY <1>34, <3>1, <3>2 DEF FillSockaddr
  <2>3. QED
    BY <2>1, <2>2
<1>35. CASE UNCHANGED vars
  BY <1>0, <1>35, SameCpu DEF vars, lib, app, WorldOK, TableOK
<1>36. QED
  BY <1>1, <1>2, <1>3, <1>4, <1>5, <1>6, <1>7, <1>8, <1>9, <1>10, <1>11, <1>12, <1>13, <1>14,
     <1>15, <1>16, <1>17, <1>18, <1>19, <1>20, <1>21, <1>22, <1>23, <1>24, <1>25, <1>26, <1>27,
     <1>28, <1>29, <1>30, <1>31, <1>32, <1>33, <1>34, <1>35 DEF Next, AppCall, LibStep

\* Whatever the application does, every variable keeps its type: above all, no
\* step uses a descriptor as an index into fd_table that is not one.
THEOREM TypeCorrect == Spec => []TypeOK
<1>1. Spec => []TypeInv
  BY InitType, TypeStep, PTL DEF Spec
<1>2. QED
  BY <1>1, TypeInvTypes, PTL

-----------------------------------------------------------------------------
(* The semaphore.  close tests and posts in two steps, so sem may pass          *)
(* MAX_CONNS; a thread that has tested but not posted yet counts with it.       *)

Posters == {t \in Threads : pc[t] = "post"}

\* The three ways in which a step may change what SemBound counts.
LEMMA SemStep ==
  ASSUME TypeInv, NEW t \in Threads, AppCall(t) \/ LibStep(t)
  PROVE  \/ sem' <= sem /\ Posters' \subseteq Posters
         \/ sem < MAX_CONNS /\ sem' = sem /\ Posters' \subseteq Posters \cup {t}
         \/ t \in Posters /\ sem' = sem + 1 /\ Posters' = Posters \ {t}
<1> DEFINE Less == sem' <= sem /\ Posters' \subseteq Posters
<1>0. sem \in Nat /\ pc \in [Threads -> Labels]
  BY DEF TypeInv, WorldOK, CpuOK
<1>1. ASSUME NEW fn, NEW f, NEW g, NEW l, l # "post", Enter(t, fn, f, g, l), sem' <= sem
      PROVE  Less
  BY <1>0, <1>1 DEF Enter, Posters
<1>2. ASSUME NEW l, l # "post", Goto(t, l), sem' <= sem
      PROVE  Less
  BY <1>0, <1>2 DEF Goto, Posters
<1>3. ASSUME UNCHANGED pc, sem' <= sem
      PROVE  Less
  BY <1>3 DEF Posters
<1>4. CASE AppCall(t)
  <2>1. sem' = sem
    BY <1>4 DEF AppCall, OpenCall, SocketCall, BindCall, ConnectCall, MarkDesock, ListenCall,
                AcceptCall, GetNameCall, CloseCall, DupCall, Dup2Call, PollCall, SelectCall,
                EpollCtlCall, EpollWaitCall, lib
  <2>2. \/ UNCHANGED pc
        \/ \E fn, f, g, l : l # "post" /\ Enter(t, fn, f, g, l)
    <3>1. ASSUME NEW fn, NEW found, NEW servers, Scanned(t, fn, found, servers)
          PROVE  UNCHANGED pc \/ \E f : Enter(t, fn, f, NoFd, "arm")
      BY <3>1 DEF Scanned, cpu
    <3>2. CASE OpenCall(t) \/ BindCall(t) \/ ConnectCall(t) \/ ListenCall(t) \/ EpollCtlCall(t)
      BY <3>2 DEF OpenCall, BindCall, ConnectCall, MarkDesock, ListenCall, EpollCtlCall, cpu
    <3>3. CASE SocketCall(t)
      BY <3>3 DEF SocketCall, cpu
    <3>4. CASE AcceptCall(t) \/ GetNameCall(t)
      BY <3>4 DEF AcceptCall, GetNameCall
    <3>5. CASE CloseCall(t)
      <4>1. PICK f \in Held : Enter(t, "close", f, NoFd, CloseLabel(f))
        BY <3>5 DEF CloseCall
      <4>2. CloseLabel(f) # "post"
        BY DEF CloseLabel
      <4>3. QED
        BY <4>1, <4>2
    <3>6. CASE DupCall(t)
      BY <3>6 DEF DupCall, cpu
    <3>7. CASE Dup2Call(t)
      BY <3>7 DEF Dup2Call, cpu
    <3>8. CASE PollCall(t)
      BY <3>1, <3>8 DEF PollCall
    <3>9. CASE SelectCall(t)
      BY <3>1, <3>9 DEF SelectCall
    <3>10. CASE EpollWaitCall(t)
      BY <3>1, <3>10 DEF EpollWaitCall
    <3>11. QED
      BY <1>4, <3>2, <3>3, <3>4, <3>5, <3>6, <3>7, <3>8, <3>9, <3>10 DEF AppCall
  <2>3. QED
    BY <1>0, <1>1, <1>3, <2>1, <2>2
<1>5. CASE CloseGetValue(t)
  BY <1>0, <1>5 DEF CloseGetValue, Goto, Posters, lib
<1>6. CASE ClosePost(t)
  BY <1>0, <1>6 DEF ClosePost, Goto, Posters
<1>7. CASE \/ SemWait(t) \/ SemWaitInterrupted(t) \/ MuxTry(t) \/ AcceptBlock(t)
           \/ AcceptSetBlock(t) \/ AcceptClone(t) \/ AcceptUnlisten(t) \/ CloseClear(t)
           \/ CopyEntry(t) \/ MuxArm(t)
  <2>1. sem' <= sem
    BY <1>0, <1>7 DEF SemWait, SemWaitInterrupted, MuxTry, AcceptBlock, AcceptSetBlock,
                      AcceptClone, AcceptUnlisten, CloseClear, CopyEntry, MuxArm, lib
  <2>2. \E l : l # "post" /\ Goto(t, l)
    BY <1>7 DEF SemWait, SemWaitInterrupted, MuxTry, AcceptBlock, AcceptSetBlock,
                AcceptClone, AcceptUnlisten, CloseClear, CopyEntry, MuxArm
  <2>3. QED
    BY <1>2, <2>1, <2>2
<1>8. CASE \/ AcceptDupFails(t) \/ AcceptDup(t) \/ CheckMax(t) \/ WriteMax(t)
           \/ CloseSysClose(t) \/ MuxUnblock(t) \/ MuxReport(t) \/ FillSockaddr(t)
  <2>1. sem' = sem
    BY <1>8 DEF AcceptDupFails, AcceptDup, CheckMax, WriteMax, CloseSysClose, MuxUnblock,
                MuxReport, FillSockaddr, lib
  <2>2. \E l : l # "post" /\ (Goto(t, l) \/ \E fn, f, g : Enter(t, fn, f, g, l))
    BY <1>8 DEF AcceptDupFails, AcceptDup, CheckMax, WriteMax, Finish, CloseSysClose,
                MuxUnblock, MuxReport, FillSockaddr, Return
  <2>3. QED
    BY <1>0, <1>1, <1>2, <2>1, <2>2
<1>9. QED
  BY <1>4, <1>5, <1>6, <1>7, <1>8 DEF LibStep

\* For every application and every interleaving, sem and the posts under way stay
\* below MAX_CONNS plus the number of threads (src/close.c:14-21).
THEOREM SemBounded == Spec => []SemBound
<1> USE FdTableAssumption, ConnPoolAssumption
<1>1. IsFiniteSet(Threads) /\ Cardinality(Threads) \in Nat /\ Cardinality(Threads) >= 1
  <2>1. Cardinality(Threads) # 0
    BY FS_EmptySet
  <2>2. QED
    BY <2>1, FS_CardinalityType
<1>2. ASSUME NEW S \in SUBSET Threads
      PROVE  /\ IsFiniteSet(S) /\ Cardinality(S) \in Nat
             /\ Cardinality(S) <= Cardinality(Threads)
  BY <1>1, FS_Subset, FS_CardinalityType
<1>3. SemBound <=> sem + Cardinality(Posters) <= MAX_CONNS + Cardinality(Threads) - 1
  BY DEF SemBound, Posters
<1>4. Init => SemBound
  <2>1. SUFFICES ASSUME Init PROVE SemBound
    OBVIOUS
  <2>2. Posters = {}
    BY <2>1 DEF Init, Posters
  <2>3. QED
    BY <1>1, <1>3, <2>1, <2>2, FS_EmptySet DEF Init
<1>5. SemBound /\ TypeInv /\ TypeInv' /\ [Next]_vars => SemBound'
  <2> SUFFICES ASSUME SemBound, TypeInv, TypeInv', [Next]_vars PROVE SemBound'
    OBVIOUS
  <2>1. sem \in Nat /\ sem' \in Nat
    BY DEF TypeInv, WorldOK
  <2>2. Posters \in SUBSET Threads /\ Posters' \in SUBSET Threads
    BY DEF Posters
  <2>3. ASSUME Posters' \subseteq Posters PROVE Cardinality(Posters') <= Cardinality(Posters)
    BY <1>2, <2>2, <2>3, FS_Subset
  <2>4. SemBound' <=> sem' + Cardinality(Posters') <= MAX_CONNS + Cardinality(Threads) - 1
    BY DEF SemBound, Posters
  <2>5. CASE \E t \in Threads : AppCall(t) \/ LibStep(t)
    <3>1. PICK t \in Threads :
            \/ sem' <= sem /\ Posters' \subseteq Posters
            \/ sem < MAX_CONNS /\ sem' = sem /\ Posters' \subseteq Posters \cup {t}
            \/ t \in Posters /\ sem' = sem + 1 /\ Posters' = Posters \ {t}
      BY <2>5, SemStep
    <3>2. CASE sem' <= sem /\ Posters' \subseteq Posters
      BY <1>1, <1>2, <1>3, <2>1, <2>2, <2>3, <2>4, <3>2
    <3>3. CASE sem < MAX_CONNS /\ sem' = sem
      BY <1>1, <1>2, <2>1, <2>2, <2>4, <3>3
    <3>4. CASE t \in Posters /\ sem' = sem + 1 /\ Posters' = Posters \ {t}
      <4>1. Cardinality(Posters') = Cardinality(Posters) - 1
        BY <1>2, <2>2, <3>4, FS_RemoveElement
      <4>2. QED
        BY <1>1, <1>2, <1>3, <2>1, <2>2, <2>4, <3>4, <4>1
    <3>5. QED
      BY <3>1, <3>2, <3>3, <3>4
  <2>6. CASE UNCHANGED vars
    BY <2>6 DEF vars, lib, cpu, SemBound
  <2>7. QED
    BY <2>5, <2>6 DEF Next
<1>6. QED
  BY InitType, TypeStep, <1>4, <1>5, PTL DEF Spec

-----------------------------------------------------------------------------
(* Domains of desocketed entries *)

EntryIsInet(e) ==
  /\ e.desock = 1 => e.domain \in Supported
  /\ e.listening = 1 => e.desock = 1

\* Writing such an entry keeps DesockedIsInet.
LEMMA WriteInet ==
  ASSUME DesockedIsInet, fd_table \in Table, NEW f \in TableFds, NEW e \in Entry,
         EntryIsInet(e), fd_table' = [fd_table EXCEPT ![f] = e]
  PROVE  DesockedIsInet'
<1>1. \A g \in TableFds : fd_table'[g] = IF g = f THEN e ELSE fd_table[g]
  BY DEF Table
<1>2. QED
  BY <1>1 DEF DesockedIsInet, EntryIsInet

\* So does dropping registrations.
LEMMA DisarmInet ==
  ASSUME DesockedIsInet, TableOK(fd_table), NEW fs, fd_table' = disarm_oneshot(fd_table, fs)
  PROVE  DesockedIsInet'
BY TableDisarm DEF DesockedIsInet

\* For every application, a desocketed entry has a domain fill_sockaddr knows, and a
\* listening one is desocketed (src/bind.c, connect.c, listen.c, accept.c, dup.c, close.c).
THEOREM DesockedInet == Spec => []DesockedIsInet
<1> USE FdTableAssumption, ConnPoolAssumption
<1>1. Init => DesockedIsInet
  BY DEF Init, DesockedIsInet, ZeroedEntry
<1>2. DesockedIsInet /\ TypeInv /\ [Next]_vars => DesockedIsInet'
  <2> SUFFICES ASSUME DesockedIsInet, TypeInv, [Next]_vars PROVE DesockedIsInet'
    OBVIOUS
  <2>1. TableOK(fd_table) /\ fd_table \in Table /\ CpuOK
    BY DEF TypeInv, TableOK
  <2>2. \A f \in TableFds : fd_table[f] \in Entry /\ EntryIsInet(fd_table[f])
    BY <2>1 DEF Table, DesockedIsInet, EntryIsInet
  <2>3. ASSUME UNCHANGED fd_table PROVE DesockedIsInet'
    BY <2>3 DEF DesockedIsInet
  <2>4. ASSUME NEW t \in Threads, SocketCall(t) PROVE DesockedIsInet'
    <3>1. CASE UNCHANGED fd_table
      BY <2>3, <3>1
    <3>2. CASE \E f \in TableFds, d \in Domains :
                 fd_table' = [fd_table EXCEPT ![f] = [clear_fd_table_entry(@) EXCEPT !.domain = d]]
      <4>1. PICK f \in TableFds, d \in Domains :
              fd_table' = [fd_table EXCEPT ![f] =
                             [clear_fd_table_entry(fd_table[f]) EXCEPT !.domain = d]]
        BY <3>2
      <4> DEFINE e == [clear_fd_table_entry(fd_table[f]) EXCEPT !.domain = d]
      <4>2. e \in Entry /\ e.desock = 0 /\ e.listening = 0
        BY <2>2, EntryUpdates
      <4>3. fd_table' = [fd_table EXCEPT ![f] = e]
        BY <4>1
      <4>4. EntryIsInet(e)
        BY <4>2 DEF EntryIsInet
      <4> HIDE DEF e
      <4>5. QED
        BY <2>1, <4>2, <4>3, <4>4, WriteInet
    <3>3. QED
      BY <2>4, <3>1, <3>2 DEF SocketCall, Domains, Supported, VALID_FD
  <2>5. ASSUME NEW t \in Threads, BindCall(t) \/ ConnectCall(t) PROVE DesockedIsInet'
    <3>1. PICK f \in TableFds : /\ fd_table[f].domain \in Supported
                                /\ fd_table' = [fd_table EXCEPT ![f].desock = 1]
      BY <2>5 DEF BindCall, ConnectCall, MarkDesock, has_supported_domain, VALID_FD
    <3>2. [fd_table[f] EXCEPT !.desock = 1] \in Entry
      BY <2>2, EntryUpdates
    <3>3. EntryIsInet([fd_table[f] EXCEPT !.desock = 1])
      BY <2>2, <3>1 DEF EntryIsInet, Entry
    <3>4. QED
      BY <2>1, <3>1, <3>2, <3>3, WriteInet
  <2>6. ASSUME NEW t \in Threads, ListenCall(t) PROVE DesockedIsInet'
    <3>1. PICK f \in TableFds : /\ fd_table[f].desock = 1
                                /\ fd_table' = [fd_table EXCEPT ![f].listening = 1]
      BY <2>6 DEF ListenCall, HeldDesocked, DESOCK_FD, VALID_FD
    <3>2. [fd_table[f] EXCEPT !.listening = 1] \in Entry
      BY <2>2, EntryUpdates
    <3>3. EntryIsInet([fd_table[f] EXCEPT !.listening = 1])
      BY <2>2, <3>1 DEF EntryIsInet, Entry
    <3>4. QED
      BY <2>1, <3>1, <3>2, <3>3, WriteInet
  <2>7. ASSUME NEW t \in Threads, AcceptUnlisten(t) PROVE DesockedIsInet'
    <3>1. new[t] \in TableFds
      BY <2>1, <2>7 DEF AcceptUnlisten, CpuOK, FrameOK, NewLabels
    <3> DEFINE e == [fd_table[new[t]] EXCEPT !.listening = 0]
    <3>2. e \in Entry
      BY <2>2, <3>1, EntryUpdates
    <3>3. EntryIsInet(e)
      BY <2>2, <3>1 DEF EntryIsInet, Entry
    <3>4. fd_table' = [fd_table EXCEPT ![new[t]] = e]
      BY <2>7 DEF AcceptUnlisten
    <3> HIDE DEF e
    <3>5. QED
      BY <2>1, <3>1, <3>2, <3>3, <3>4, WriteInet
  <2>8. ASSUME NEW t \in Threads, CloseClear(t) PROVE DesockedIsInet'
    <3>1. arg[t] \in TableFds
      BY <2>1, <2>8 DEF CloseClear, CpuOK, FrameOK, ArgLabels
    <3> DEFINE e == clear_fd_table_entry(fd_table[arg[t]])
    <3>2. e \in Entry /\ e.desock = 0 /\ e.listening = 0
      BY <2>2, <3>1, EntryUpdates
    <3>3. fd_table' = [fd_table EXCEPT ![arg[t]] = e]
      BY <2>8 DEF CloseClear
    <3> HIDE DEF e
    <3>4. EntryIsInet(e)
      BY <3>2 DEF EntryIsInet
    <3>5. QED
      BY <2>1, <3>1, <3>2, <3>3, <3>4, WriteInet
  <2>9. ASSUME NEW t \in Threads, AcceptClone(t) \/ CopyEntry(t) PROVE DesockedIsInet'
    <3>1. arg[t] \in TableFds /\ new[t] \in TableFds
      BY <2>1, <2>9 DEF AcceptClone, CopyEntry, CpuOK, FrameOK, ArgLabels, NewLabels
    <3>2. QED
      BY <2>1, <2>2, <2>9, <3>1, WriteInet DEF AcceptClone, CopyEntry, clone_fd_table_entry
  <2>10. ASSUME NEW t \in Threads, EpollCtlCall(t) PROVE DesockedIsInet'
    <3>1. PICK f \in Held, p \in Epolls :
            /\ f \in TableFds
            /\ \/ \E once \in Oneshot :
                    fd_table' = [fd_table EXCEPT ![f] =
                                   [@ EXCEPT !.epfd = p, !.oneshot = once, !.data = f]]
               \/ fd_table' = [fd_table EXCEPT ![f].epfd = -1]
      BY <2>10 DEF EpollCtlCall, VALID_FD
    <3>2. ASSUME NEW once \in BOOLEAN,
                 fd_table' = [fd_table EXCEPT ![f] =
                                [@ EXCEPT !.epfd = p, !.oneshot = once, !.data = f]]
          PROVE  DesockedIsInet'
      <4> DEFINE e == [fd_table[f] EXCEPT !.epfd = p, !.oneshot = once, !.data = f]
      <4>1. e \in Entry
        BY <2>2, <3>1, EntryUpdates DEF Held
      <4>2. EntryIsInet(e)
        BY <2>2, <3>1 DEF EntryIsInet, Entry
      <4>3. fd_table' = [fd_table EXCEPT ![f] = e]
        BY <3>2
      <4> HIDE DEF e
      <4>4. QED
        BY <2>1, <3>1, <4>1, <4>2, <4>3, WriteInet
    <3>3. CASE fd_table' = [fd_table EXCEPT ![f].epfd = -1]
      <4>1. [fd_table[f] EXCEPT !.epfd = -1] \in Entry
        BY <2>2, <3>1, EntryUpdates
      <4>2. EntryIsInet([fd_table[f] EXCEPT !.epfd = -1])
        BY <2>2, <3>1 DEF EntryIsInet, Entry
      <4>3. QED
        BY <2>1, <3>1, <3>3, <4>1, <4>2, WriteInet
    <3>4. QED
      BY <3>1, <3>2, <3>3
  <2>11. ASSUME NEW t \in Threads, EpollWaitCall(t) PROVE DesockedIsInet'
    BY <2>1, <2>11, DisarmInet DEF EpollWaitCall
  <2>12. ASSUME NEW t \in Threads, MuxReport(t) PROVE DesockedIsInet'
    <3>1. UNCHANGED fd_table \/ \E fs : fd_table' = disarm_oneshot(fd_table, fs)
      BY <2>12 DEF MuxReport
    <3>2. QED
      BY <2>1, <2>3, <3>1, DisarmInet
  <2>13. ASSUME NEW t \in Threads,
                \/ OpenCall(t) \/ AcceptCall(t) \/ GetNameCall(t) \/ FillSockaddr(t)
                \/ CloseCall(t) \/ DupCall(t) \/ Dup2Call(t) \/ PollCall(t) \/ SelectCall(t)
                \/ AcceptBlock(t) \/ SemWait(t) \/ SemWaitInterrupted(t)
                \/ AcceptSetBlock(t) \/ AcceptDupFails(t) \/ AcceptDup(t) \/ CheckMax(t) \/ WriteMax(t) \/ CloseGetValue(t)
                \/ ClosePost(t) \/ CloseSysClose(t) \/ MuxArm(t) \/ MuxTry(t) \/ MuxUnblock(t)
         PROVE  DesockedIsInet'
    <3>1. UNCHANGED fd_table
      BY <2>13 DEF OpenCall, AcceptCall, GetNameCall, FillSockaddr, CloseCall, DupCall,
                   Dup2Call, PollCall, SelectCall, AcceptBlock, SemWait, SemWaitInterrupted, AcceptSetBlock, AcceptDupFails,
                   AcceptDup, CheckMax, WriteMax, CloseGetValue, ClosePost, CloseSysClose,
                   MuxArm, MuxTry, MuxUnblock, lib
    <3>2. QED
      BY <2>3, <3>1
  <2>14. CASE UNCHANGED vars
    BY <2>3, <2>14 DEF vars, lib
  <2>15. QED
    BY <2>4, <2>5, <2>6, <2>7, <2>8, <2>9, <2>10, <2>11, <2>12, <2>13, <2>14
       DEF Next, AppCall, LibStep
<1>3. QED
  BY InitType, TypeStep, <1>1, <1>2, PTL DEF Spec
-----------------------------------------------------------------------------
(* Who owns a descriptor: the application, a call that is creating it, or a close that is
   giving it back; never two of them, and an owned one is open for the kernel.  From this,
   for every application: what open() returns is never mistaken for a desocketed
   descriptor.                                                                       *)

CloseLabels == {"getvalue", "post", "clear", "sysclose"}

Creates(t, f) == pc[t] \in NewLabels /\ new[t] = f
Closes(t, f)  == pc[t] \in CloseLabels /\ arg[t] = f
Owns(t, f)    == Creates(t, f) \/ Closes(t, f)

\* stdin, stdout, stderr and whatever has an owner are open
OwnersOpen ==
  /\ \A f \in Fds : f <= 2 => kernel[f] # "closed"
  /\ \A f \in Held : kernel[f] # "closed"
  /\ \A t \in Threads, f \in Fds : Owns(t, f) => kernel[f] # "closed" /\ origin[f] = "none"

OneOwner == \A t, u \in Threads, f \in Fds : Owns(t, f) /\ Owns(u, f) => t = u

\* The kernel may give f away, has given it to open(), or will when a close goes on.
Vacant(f) == \/ kernel[f] = "closed"
             \/ origin[f] = "file"
             \/ \E t \in Threads : pc[t] = "sysclose" /\ arg[t] = f

VacantIsClear == \A f \in Fds : Vacant(f) => ~DESOCK_FD(fd_table, f)

OwnInv == OwnersOpen /\ OneOwner /\ VacantIsClear

-----------------------------------------------------------------------------
(* The threads that do not move *)

\* All a step of t does to where the threads are.
Moves(t) == \/ UNCHANGED cpu
            \/ \E l : Goto(t, l)
            \/ \E fn, f, g, l : Enter(t, fn, f, g, l)

OthersStay(t) ==
  \A u \in Threads \ {t} : /\ pc'[u] = pc[u] /\ arg'[u] = arg[u]
                           /\ \A f \in Fds : Owns(u, f)' <=> Owns(u, f)

LEMMA OthersStayPut ==
  ASSUME TypeInv, NEW t \in Threads, Moves(t)
  PROVE  OthersStay(t)
BY DEF TypeInv, CpuOK, Enter, Goto, Owns, Creates, Closes, cpu, Moves, OthersStay

\* Every step is a move of one thread.
LEMMA EveryStepMoves ==
  ASSUME NEW t \in Threads, AppCall(t) \/ LibStep(t)
  PROVE  Moves(t)
<1>1. CASE \/ OpenCall(t) \/ SocketCall(t) \/ BindCall(t) \/ ConnectCall(t) \/ ListenCall(t)
           \/ EpollCtlCall(t)
  BY <1>1 DEF OpenCall, SocketCall, BindCall, ConnectCall, MarkDesock, ListenCall, EpollCtlCall,
              Moves, cpu
<1>2. CASE AcceptCall(t) \/ GetNameCall(t) \/ CloseCall(t) \/ DupCall(t) \/ Dup2Call(t)
  BY <1>2 DEF AcceptCall, GetNameCall, CloseCall, DupCall, Dup2Call, Moves
<1>3. CASE PollCall(t) \/ SelectCall(t) \/ EpollWaitCall(t)
  <2>1. \E fn, found, servers : Scanned(t, fn, found, servers)
    BY <1>3 DEF PollCall, SelectCall, EpollWaitCall
  <2>2. QED
    BY <2>1 DEF Scanned, Moves
<1>4. CASE \/ AcceptBlock(t) \/ SemWait(t) \/ SemWaitInterrupted(t) \/ AcceptSetBlock(t)
           \/ AcceptDupFails(t) \/ AcceptDup(t) \/ AcceptClone(t) \/ AcceptUnlisten(t)
           \/ FillSockaddr(t) \/ CheckMax(t) \/ WriteMax(t)
  BY <1>4 DEF AcceptBlock, SemWait, SemWaitInterrupted, AcceptSetBlock, AcceptDupFails,
              AcceptDup, AcceptClone, AcceptUnlisten, FillSockaddr, CheckMax, WriteMax, Finish,
              Return, Moves
<1>5. CASE \/ CloseGetValue(t) \/ ClosePost(t) \/ CloseClear(t) \/ CloseSysClose(t)
           \/ CopyEntry(t) \/ MuxArm(t) \/ MuxTry(t) \/ MuxUnblock(t) \/ MuxReport(t)
  BY <1>5 DEF CloseGetValue, ClosePost, CloseClear, CloseSysClose, CopyEntry, MuxArm, MuxTry,
              MuxUnblock, MuxReport, Return, Moves
<1>6. QED
  BY <1>1, <1>2, <1>3, <1>4, <1>5 DEF AppCall, LibStep

-----------------------------------------------------------------------------
(* Owners *)

\* What a step of t must do to keep OwnersOpen and OneOwner.
Proper(t) ==
  /\ \A f \in Fds : f <= 2 => kernel'[f] # "closed"
  /\ \A f \in Fds : origin'[f] # "none" => kernel'[f] # "closed"
  /\ \A f \in Fds :
       Owns(t, f)' => /\ kernel'[f] # "closed" /\ origin'[f] = "none"
                      /\ \A u \in Threads \ {t} : ~Owns(u, f)
  /\ \A f \in Fds, u \in Threads \ {t} :
       Owns(u, f) => kernel'[f] = kernel[f] /\ origin'[f] = origin[f]

LEMMA ProperKeeps ==
  ASSUME OwnersOpen, OneOwner, NEW t \in Threads, OthersStay(t), Proper(t)
  PROVE  OwnersOpen' /\ OneOwner'
<1>1. OwnersOpen'
  BY DEF OwnersOpen, Held, OthersStay, Proper
<1>2. OneOwner'
  BY DEF OneOwner, OthersStay, Proper
<1>3. QED
  BY <1>1, <1>2

\* A step that leaves the descriptors alone, and owns what it owned.
LEMMA QuietIsProper ==
  ASSUME OwnersOpen, OneOwner, NEW t \in Threads, UNCHANGED <<kernel, origin>>,
         \A f \in Fds : Owns(t, f)' => Owns(t, f)
  PROVE  Proper(t)
BY DEF OwnersOpen, OneOwner, Held, Proper

\* Labels at which nothing is owned, and going on where something is.
LEMMA EnterOwns ==
  ASSUME TypeInv, NEW t \in Threads, NEW fn, NEW f, NEW g, NEW l, Enter(t, fn, f, g, l)
  PROVE  \A h : Owns(t, h)' <=> \/ l \in NewLabels /\ g = h
                                \/ l \in CloseLabels /\ f = h
BY DEF TypeInv, CpuOK, Enter, Owns, Creates, Closes

LEMMA GotoOwns ==
  ASSUME TypeInv, NEW t \in Threads, NEW l, Goto(t, l)
  PROVE  \A h : Owns(t, h)' <=> \/ l \in NewLabels /\ new[t] = h
                                \/ l \in CloseLabels /\ arg[t] = h
BY DEF TypeInv, CpuOK, Goto, Owns, Creates, Closes

LEMMA ProperStep ==
  ASSUME TypeInv, OwnersOpen, OneOwner, NEW t \in Threads, AppCall(t) \/ LibStep(t)
  PROVE  Proper(t)
<1>0. /\ kernel \in [Fds -> {"closed", "file", "sock"}]
      /\ origin \in [Fds -> Origins]
  BY DEF TypeInv, WorldOK
<1>q. ASSUME UNCHANGED <<kernel, origin>>,
             \/ UNCHANGED cpu
             \/ \E fn, f, g, l : /\ Enter(t, fn, f, g, l)
                                 /\ l \notin NewLabels \cup CloseLabels
             \/ \E l : /\ Goto(t, l)
                       /\ l \in NewLabels => pc[t] \in NewLabels
                       /\ l \in CloseLabels => pc[t] \in CloseLabels
      PROVE  Proper(t)
  <2>1. ASSUME UNCHANGED cpu PROVE \A f \in Fds : Owns(t, f)' => Owns(t, f)
    BY <2>1 DEF cpu, Owns, Creates, Closes
  <2>2. ASSUME NEW fn, NEW f, NEW g, NEW l, Enter(t, fn, f, g, l),
               l \notin NewLabels \cup CloseLabels
        PROVE  \A h \in Fds : Owns(t, h)' => Owns(t, h)
    BY <2>2, EnterOwns
  <2>3. ASSUME NEW l, Goto(t, l), l \in NewLabels => pc[t] \in NewLabels,
               l \in CloseLabels => pc[t] \in CloseLabels
        PROVE  \A h \in Fds : Owns(t, h)' => Owns(t, h)
    BY <2>3, GotoOwns DEF Owns, Creates, Closes
  <2>4. QED
    BY <1>q, <2>1, <2>2, <2>3, QuietIsProper
\* f was free and is open now; t owns at most f, unless it hands it over
<1>n. ASSUME NEW f \in Fds, NEW kind, kernel[f] = "closed", kind # "closed",
             kernel' = [kernel EXCEPT ![f] = kind],
             \/ /\ UNCHANGED origin
                /\ \A h \in Fds : Owns(t, h)' => h = f
             \/ /\ \E k : HandOver(f, k)
                /\ \A h \in Fds : Owns(t, h)' => Owns(t, h)
      PROVE  Proper(t)
  <2>1. origin[f] = "none" /\ \A u \in Threads : ~Owns(u, f)
    BY <1>n DEF OwnersOpen, Held
  <2>2. \A h \in Fds : kernel'[h] = IF h = f THEN kind ELSE kernel[h]
    BY <1>0, <1>n
  <2>3. \A h \in Fds : h # f => origin'[h] = origin[h]
    BY <1>0, <1>n DEF HandOver
  <2>4. CASE UNCHANGED origin /\ \A h \in Fds : Owns(t, h)' => h = f
    BY <1>n, <2>1, <2>2, <2>4 DEF Proper, OwnersOpen, Held
  <2>5. CASE \A h \in Fds : Owns(t, h)' => Owns(t, h)
    BY <1>n, <2>1, <2>2, <2>3, <2>5 DEF Proper, OwnersOpen, OneOwner, Held
  <2>6. QED
    BY <1>n, <2>4, <2>5
<1>l. NewLabels \cap CloseLabels = {}
  BY DEF NewLabels, CloseLabels
<1>1. CASE OpenCall(t)
  <2>1. PICK f \in Fds : /\ kernel[f] = "closed" /\ kernel' = [kernel EXCEPT ![f] = "file"]
                         /\ HandOver(f, "file")
    BY <1>1 DEF OpenCall, LowestFree
  <2>2. \A h \in Fds : Owns(t, h)' => Owns(t, h)
    BY <1>1 DEF OpenCall, cpu, Owns, Creates, Closes
  <2>3. QED
    BY <1>n, <2>1, <2>2
<1>2. CASE SocketCall(t)
  <2>1. PICK f \in Fds :
          /\ kernel[f] = "closed" /\ kernel' = [kernel EXCEPT ![f] = "sock"]
          /\ \/ Enter(t, "socket", NoFd, f, "check_max") /\ UNCHANGED origin
             \/ HandOver(f, "socket") /\ UNCHANGED cpu
    BY <1>2 DEF SocketCall, LowestFree
  <2>2. CASE Enter(t, "socket", NoFd, f, "check_max") /\ UNCHANGED origin
    <3>1. \A h \in Fds : Owns(t, h)' => h = f
      BY <2>2, EnterOwns DEF CloseLabels
    <3>2. QED
      BY <1>n, <2>1, <2>2, <3>1
  <2>3. CASE HandOver(f, "socket") /\ UNCHANGED cpu
    <3>1. \A h \in Fds : Owns(t, h)' => Owns(t, h)
      BY <2>3 DEF cpu, Owns, Creates, Closes
    <3>2. QED
      BY <1>n, <2>1, <2>3, <3>1
  <2>4. QED
    BY <2>1, <2>2, <2>3
<1>3. CASE BindCall(t) \/ ConnectCall(t) \/ EpollCtlCall(t)
  BY <1>3, <1>q DEF BindCall, ConnectCall, MarkDesock, EpollCtlCall, app
<1>4. CASE ListenCall(t)
  <2>1. PICK f \in Fds : origin[f] = "socket" /\ HandOver(f, "listener")
    BY <1>4 DEF ListenCall, HeldDesocked, Held
  <2>2. UNCHANGED <<kernel, cpu>>
    BY <1>4 DEF ListenCall
  <2>3. \A h \in Fds : origin'[h] = IF h = f THEN "listener" ELSE origin[h]
    BY <1>0, <2>1 DEF HandOver
  <2>4. \A h \in Fds : Owns(t, h)' => Owns(t, h)
    BY <2>2 DEF cpu, Owns, Creates, Closes
  <2>5. QED
    BY <2>1, <2>2, <2>3, <2>4 DEF Proper, OwnersOpen, OneOwner, Held
<1>5. CASE AcceptCall(t) \/ GetNameCall(t)
  BY <1>5, <1>q DEF AcceptCall, GetNameCall, app, NewLabels, CloseLabels
<1>6. CASE CloseCall(t)
  <2>1. PICK f \in Fds : /\ origin[f] # "none"
                         /\ HandOver(f, "none")
                         /\ Enter(t, "close", f, NoFd, CloseLabel(f))
    BY <1>6 DEF CloseCall, Held
  <2>2. UNCHANGED kernel
    BY <1>6 DEF CloseCall
  <2>3. \A h \in Fds : origin'[h] = IF h = f THEN "none" ELSE origin[h]
    BY <1>0, <2>1 DEF HandOver
  <2>4. \A h \in Fds : Owns(t, h)' => h = f
    <3>1. CloseLabel(f) \notin NewLabels
      BY DEF CloseLabel, NewLabels
    <3>2. QED
      BY <2>1, <3>1, EnterOwns
  <2>5. kernel[f] # "closed" /\ \A u \in Threads : ~Owns(u, f)
    BY <2>1 DEF OwnersOpen, Held
  <2>6. QED
    BY <2>2, <2>3, <2>4, <2>5 DEF Proper, OwnersOpen, Held
<1>7. CASE DupCall(t)
  <2>1. PICK f \in Held, g \in Fds :
          /\ kernel[g] = "closed" /\ kernel' = [kernel EXCEPT ![g] = kernel[f]]
          /\ \/ Enter(t, "dup", f, g, "copy") /\ UNCHANGED origin
             \/ HandOver(g, "copy") /\ UNCHANGED cpu
    BY <1>7 DEF DupCall, LowestFree
  <2>2. kernel[f] # "closed"
    BY DEF OwnersOpen
  <2>3. CASE Enter(t, "dup", f, g, "copy") /\ UNCHANGED origin
    <3>1. \A h \in Fds : Owns(t, h)' => h = g
      BY <2>3, EnterOwns DEF CloseLabels
    <3>2. QED
      BY <1>n, <2>1, <2>2, <2>3, <3>1
  <2>4. CASE HandOver(g, "copy") /\ UNCHANGED cpu
    <3>1. \A h \in Fds : Owns(t, h)' => Owns(t, h)
      BY <2>4 DEF cpu, Owns, Creates, Closes
    <3>2. QED
      BY <1>n, <2>1, <2>2, <2>4, <3>1
  <2>5. QED
    BY <2>1, <2>3, <2>4
<1>8. CASE Dup2Call(t)
  <2>1. PICK f \in Held, g \in StdTargets \cup Held :
          /\ ~InUse(g) /\ pc[t] = "idle"
          /\ kernel' = IF ReplacedByKernel(g) THEN [kernel EXCEPT ![g] = kernel[f]] ELSE kernel
          /\ \/ HandOver(g, "none") /\ Enter(t, "dup", f, g, "copy")
             \/ HandOver(g, "copy") /\ UNCHANGED cpu
    BY <1>8 DEF Dup2Call, MayCall
  <2>2. kernel[f] # "closed"
    BY DEF OwnersOpen
  <2>3. g \in Fds /\ kernel[g] # "closed"
    BY FdTableAssumption, ConnPoolAssumption DEF OwnersOpen, Held, Fds
  <2>4. \A u \in Threads : ~Owns(u, g)
    BY <2>1 DEF InUse, Owns, Creates, Closes
  <2>5. \A h \in Fds : /\ kernel'[h] # "closed" <=> kernel[h] # "closed"
                       /\ h # g => kernel'[h] = kernel[h]
    BY <1>0, <2>1, <2>2, <2>3
  <2>6. \A h \in Fds : h # g => origin'[h] = origin[h]
    BY <1>0, <2>1 DEF HandOver
  <2>7. CASE HandOver(g, "none") /\ Enter(t, "dup", f, g, "copy")
    <3>1. \A h \in Fds : Owns(t, h)' => h = g
      BY <2>7, EnterOwns DEF CloseLabels
    <3>2. origin'[g] = "none"
      BY <1>0, <2>3, <2>7 DEF HandOver
    <3>3. QED
      BY <2>3, <2>4, <2>5, <2>6, <3>1, <3>2 DEF Proper, OwnersOpen, Held
  <2>8. CASE UNCHANGED cpu
    <3>1. \A h \in Fds : ~Owns(t, h)'
      BY <2>1, <2>8 DEF cpu, Owns, Creates, Closes, NewLabels, CloseLabels
    <3>2. QED
      BY <2>3, <2>4, <2>5, <2>6, <3>1 DEF Proper, OwnersOpen, Held
  <2>9. QED
    BY <2>1, <2>7, <2>8
<1>9. CASE PollCall(t) \/ SelectCall(t) \/ EpollWaitCall(t)
  <2>1. UNCHANGED <<kernel, origin>>
    BY <1>9 DEF PollCall, SelectCall, EpollWaitCall, app
  <2>2. \E fn, found, servers : Scanned(t, fn, found, servers)
    BY <1>9 DEF PollCall, SelectCall, EpollWaitCall
  <2>3. UNCHANGED cpu \/ \E fn, s : Enter(t, fn, s, NoFd, "arm")
    BY <2>2 DEF Scanned
  <2>4. QED
    BY <1>q, <2>1, <2>3 DEF NewLabels, CloseLabels
<1>10. CASE AcceptBlock(t) \/ SemWait(t) \/ SemWaitInterrupted(t) \/ AcceptSetBlock(t)
  BY <1>10, <1>q DEF AcceptBlock, SemWait, SemWaitInterrupted, AcceptSetBlock, app, NewLabels,
                     CloseLabels
<1>11. CASE AcceptDupFails(t)
  <2>1. \A h \in Fds : ~Owns(t, h)'
    BY <1>11, EnterOwns DEF AcceptDupFails, Return, NewLabels, CloseLabels
  <2>2. CASE UNCHANGED kernel
    BY <1>11, <2>1, <2>2, QuietIsProper DEF AcceptDupFails, app
  <2>3. CASE \E f \in LowestFree : /\ kernel[arg[t]] # "closed"
                                   /\ kernel' = [kernel EXCEPT ![f] = kernel[arg[t]]]
    <3>1. PICK f \in Fds : /\ kernel[f] = "closed"
                           /\ kernel' = [kernel EXCEPT ![f] = kernel[arg[t]]]
      BY <2>3 DEF LowestFree
    <3>2. QED
      BY <1>11, <1>n, <2>1, <2>3, <3>1 DEF AcceptDupFails, app
  <2>4. QED
    BY <1>11, <2>2, <2>3 DEF AcceptDupFails
<1>12. CASE AcceptDup(t)
  <2>1. PICK f \in Fds : /\ kernel[f] = "closed"
                         /\ kernel' = [kernel EXCEPT ![f] = kernel[arg[t]]]
                         /\ Enter(t, call[t], arg[t], f, "clone")
    BY <1>12 DEF AcceptDup, LowestFree
  <2>2. \A h \in Fds : Owns(t, h)' => h = f
    BY <2>1, EnterOwns DEF CloseLabels
  <2>3. QED
    BY <1>12, <1>n, <2>1, <2>2 DEF AcceptDup, app
<1>13. CASE AcceptClone(t) \/ AcceptUnlisten(t) \/ CopyEntry(t) \/ FillSockaddr(t)
  BY <1>13, <1>q DEF AcceptClone, AcceptUnlisten, CopyEntry, FillSockaddr, Return, app,
                     NewLabels, CloseLabels
<1>f. ASSUME pc[t] \in NewLabels, Finish(t), UNCHANGED kernel
      PROVE  Proper(t)
  <2>1. new[t] \in Fds /\ Owns(t, new[t])
    BY <1>f DEF TypeInv, CpuOK, FrameOK, Owns, Creates
  <2>2. \A h \in Fds : h # new[t] => origin'[h] = origin[h]
    BY <1>0, <1>f DEF Finish, HandOver
  <2>3. \A h \in Fds : ~Owns(t, h)'
    BY <1>f, EnterOwns DEF Finish, Return, NewLabels, CloseLabels
  <2>4. QED
    BY <1>f, <2>1, <2>2, <2>3 DEF Proper, OwnersOpen, OneOwner, Held
<1>14. CASE CheckMax(t)
  <2>1. CASE Finish(t)
    BY <1>14, <1>f, <2>1 DEF CheckMax, NewLabels
  <2>2. CASE Goto(t, "write_max") /\ UNCHANGED origin
    BY <1>14, <1>q, <2>2 DEF CheckMax, NewLabels, CloseLabels
  <2>3. QED
    BY <1>14, <2>1, <2>2 DEF CheckMax
<1>15. CASE WriteMax(t)
  BY <1>15, <1>f DEF WriteMax, NewLabels
<1>16. CASE CloseGetValue(t) \/ ClosePost(t) \/ CloseClear(t)
  BY <1>16, <1>q DEF CloseGetValue, ClosePost, CloseClear, app, NewLabels, CloseLabels
<1>17. CASE CloseSysClose(t)
  <2>1. arg[t] \in Fds /\ Owns(t, arg[t])
    BY <1>17 DEF CloseSysClose, TypeInv, CpuOK, FrameOK, Owns, Closes, CloseLabels
  <2>2. \A h \in Fds : h # arg[t] \/ h <= 2 => kernel'[h] = kernel[h]
    BY <1>0, <1>17, FdTableAssumption DEF CloseSysClose, Fds
  <2>3. \A h \in Fds : ~Owns(t, h)'
    BY <1>17, EnterOwns DEF CloseSysClose, Return, NewLabels, CloseLabels
  <2>4. UNCHANGED origin
    BY <1>17 DEF CloseSysClose, app
  <2>5. QED
    BY <2>1, <2>2, <2>3, <2>4 DEF Proper, OwnersOpen, OneOwner, Held
<1>18. CASE MuxArm(t) \/ MuxTry(t) \/ MuxUnblock(t) \/ MuxReport(t)
  BY <1>18, <1>q DEF MuxArm, MuxTry, MuxUnblock, MuxReport, Return, app, NewLabels, CloseLabels
<1>19. QED
  BY <1>1, <1>2, <1>3, <1>4, <1>5, <1>6, <1>7, <1>8, <1>9, <1>10, <1>11, <1>12, <1>13, <1>14,
     <1>15, <1>16, <1>17, <1>18 DEF AppCall, LibStep

-----------------------------------------------------------------------------
(* Vacant descriptors *)

\* t closes f and has cleared its entry
Clearing(t, f) == pc[t] = "sysclose" /\ arg[t] = f

\* Nothing becomes vacant or desocketed, but perhaps a vacant descriptor that is clear.
LEMMA VacantKept ==
  ASSUME VacantIsClear, NEW t \in Threads, OthersStay(t),
         \A f \in Fds :
           \/ ~DESOCK_FD(fd_table, f)'
           \/ /\ DESOCK_FD(fd_table, f)' => DESOCK_FD(fd_table, f)
              /\ kernel'[f] = "closed" => kernel[f] = "closed"
              /\ origin'[f] = "file" => origin[f] = "file"
              /\ Clearing(t, f)' => Clearing(t, f)
           \/ /\ kernel'[f] # "closed" /\ origin'[f] # "file" /\ ~Clearing(t, f)'
              /\ \A u \in Threads \ {t} : ~Clearing(u, f)
  PROVE  VacantIsClear'
BY DEF VacantIsClear, Vacant, Clearing, OthersStay

LEMMA VacantStep ==
  ASSUME TypeInv, OwnInv, NEW t \in Threads, AppCall(t) \/ LibStep(t)
  PROVE  VacantIsClear'
<1>0. /\ kernel \in [Fds -> {"closed", "file", "sock"}]
      /\ origin \in [Fds -> Origins]
      /\ fd_table \in [TableFds -> Entry]
      /\ CpuOK
  BY DEF TypeInv, WorldOK, TableOK, Table
<1>o. OthersStay(t) /\ OwnersOpen /\ OneOwner /\ VacantIsClear
  BY EveryStepMoves, OthersStayPut DEF OwnInv
<1>d. ASSUME UNCHANGED fd_table
      PROVE  \A f \in Fds : DESOCK_FD(fd_table, f)' <=> DESOCK_FD(fd_table, f)
  BY <1>d DEF DESOCK_FD, VALID_FD
<1>u. \A u \in Threads, f \in Fds : Clearing(u, f) => Owns(u, f)
  BY DEF Clearing, Owns, Closes, CloseLabels
<1>e. ASSUME NEW fn, NEW f, NEW g, NEW l, Enter(t, fn, f, g, l) \/ Goto(t, l), l # "sysclose"
      PROVE  \A h \in Fds : ~Clearing(t, h)'
  BY <1>0, <1>e DEF CpuOK, Enter, Goto, Clearing
<1>k. ASSUME UNCHANGED cpu PROVE \A h \in Fds : Clearing(t, h)' => Clearing(t, h)
  BY <1>k DEF cpu, Clearing
\* a step that may move t, to a label other than "sysclose", and changes no table
<1>q. ASSUME \A f \in Fds : DESOCK_FD(fd_table, f)' => DESOCK_FD(fd_table, f),
             \A f \in Fds : kernel'[f] = "closed" => kernel[f] = "closed",
             \A f \in Fds : origin'[f] = "file" => origin[f] = "file",
             \/ UNCHANGED cpu
             \/ \E fn, f, g, l : (Enter(t, fn, f, g, l) \/ Goto(t, l)) /\ l # "sysclose"
      PROVE  VacantIsClear'
  BY <1>e, <1>k, <1>o, <1>q, VacantKept
\* a step that may write the entry of f, which is owned by t or the application
<1>w. ASSUME NEW f \in Fds, NEW e, fd_table' = [fd_table EXCEPT ![f] = e],
             UNCHANGED kernel, \A h \in Fds : origin'[h] = "file" => origin[h] = "file",
             UNCHANGED cpu \/ \E l : Goto(t, l) /\ l # "sysclose",
             (Owns(t, f) /\ pc[t] # "sysclose") \/ origin[f] \notin {"none", "file"}
      PROVE  VacantIsClear'
  <2>1. \A h \in Fds : h # f => (DESOCK_FD(fd_table, h)' => DESOCK_FD(fd_table, h))
    BY <1>0, <1>w DEF DESOCK_FD, VALID_FD
  <2>2. \A h \in Fds : Clearing(t, h)' => Clearing(t, h)
    BY <1>e, <1>k, <1>w
  <2>3. kernel'[f] # "closed" /\ origin[f] # "file"
    BY <1>o, <1>w DEF OwnersOpen, Held
  <2>4. \A u \in Threads : ~Clearing(u, f)
    BY <1>o, <1>u, <1>w DEF OwnersOpen, OneOwner, Clearing
  <2>5. QED
    BY <1>o, <1>w, <2>1, <2>2, <2>3, <2>4, VacantKept
<1>1. CASE OpenCall(t)
  <2>1. PICK f \in Fds : /\ kernel[f] = "closed" /\ kernel' = [kernel EXCEPT ![f] = "file"]
                         /\ HandOver(f, "file") /\ UNCHANGED <<fd_table, cpu>>
    BY <1>1 DEF OpenCall, LowestFree, lib
  <2>2. ~DESOCK_FD(fd_table, f)'
    BY <1>d, <1>o, <2>1 DEF VacantIsClear, Vacant
  <2>3. \A h \in Fds : h # f => kernel'[h] = kernel[h] /\ origin'[h] = origin[h]
    BY <1>0, <2>1 DEF HandOver
  <2>4. QED
    BY <1>d, <1>k, <1>o, <2>1, <2>2, <2>3, VacantKept
<1>2. CASE SocketCall(t)
  <2>1. PICK f \in Fds, d \in Domains :
          /\ kernel' = [kernel EXCEPT ![f] = "sock"]
          /\ \/ /\ f \in TableFds
                /\ fd_table' = [fd_table EXCEPT ![f] =
                                  [clear_fd_table_entry(@) EXCEPT !.domain = d]]
             \/ UNCHANGED fd_table
          /\ UNCHANGED cpu \/ Enter(t, "socket", NoFd, f, "check_max")
          /\ UNCHANGED origin \/ HandOver(f, "socket")
    BY <1>2, ConnPoolAssumption DEF SocketCall, LowestFree, Domains, Supported, VALID_FD
  <2>2. \A h \in Fds : DESOCK_FD(fd_table, h)' => DESOCK_FD(fd_table, h)
    <3>1. CASE UNCHANGED fd_table
      BY <1>d, <3>1
    <3>2. CASE /\ f \in TableFds
               /\ fd_table' = [fd_table EXCEPT ![f] = [clear_fd_table_entry(@) EXCEPT !.domain = d]]
      <4> DEFINE e == [clear_fd_table_entry(fd_table[f]) EXCEPT !.domain = d]
      <4>1. e.desock = 0
        BY <1>0, <3>2, EntryUpdates
      <4>2. fd_table' = [fd_table EXCEPT ![f] = e]
        BY <3>2
      <4> HIDE DEF e
      <4>3. QED
        BY <1>0, <4>1, <4>2 DEF DESOCK_FD, VALID_FD
    <3>3. QED
      BY <2>1, <3>1, <3>2
  <2>3. \A h \in Fds : kernel'[h] = "closed" => kernel[h] = "closed"
    BY <1>0, <2>1
  <2>4. \A h \in Fds : origin'[h] = "file" => origin[h] = "file"
    BY <1>0, <2>1 DEF HandOver
  <2>5. QED
    BY <1>q, <2>1, <2>2, <2>3, <2>4
<1>3. CASE BindCall(t) \/ ConnectCall(t) \/ ListenCall(t) \/ EpollCtlCall(t)
  <2>1. UNCHANGED <<kernel, cpu>>
    BY <1>3 DEF BindCall, ConnectCall, MarkDesock, ListenCall, EpollCtlCall
  <2>2. \A h \in Fds : origin'[h] = "file" => origin[h] = "file"
    BY <1>0, <1>3 DEF BindCall, ConnectCall, MarkDesock, ListenCall, EpollCtlCall, app, HandOver
  <2>3. CASE BindCall(t) \/ ConnectCall(t) \/ ListenCall(t)
    <3>1. \E f \in Fds : \E e : origin[f] = "socket" /\ fd_table' = [fd_table EXCEPT ![f] = e]
      BY <2>3 DEF BindCall, ConnectCall, MarkDesock, ListenCall, HeldDesocked, Held
    <3>2. QED
      BY <1>w, <2>1, <2>2, <3>1
  <2>4. CASE EpollCtlCall(t)
    <3>1. PICK f \in Fds, p \in Epolls, once \in BOOLEAN :
            \/ fd_table' = [fd_table EXCEPT ![f] =
                              [@ EXCEPT !.epfd = p, !.oneshot = once, !.data = f]]
            \/ fd_table' = [fd_table EXCEPT ![f].epfd = -1]
      BY <2>4, ConnPoolAssumption DEF EpollCtlCall, Held
    <3>2. \A h \in TableFds : fd_table'[h].desock = fd_table[h].desock
      <4>1. CASE fd_table' = [fd_table EXCEPT ![f] =
                                [@ EXCEPT !.epfd = p, !.oneshot = once, !.data = f]]
        <5>1. \A h \in TableFds : fd_table'[h] = IF h = f
                THEN [fd_table[h] EXCEPT !.epfd = p, !.oneshot = once, !.data = f] ELSE fd_table[h]
          BY <1>0, <4>1
        <5>2. QED
          BY <1>0, <5>1 DEF Entry
      <4>2. CASE fd_table' = [fd_table EXCEPT ![f].epfd = -1]
        <5>1. \A h \in TableFds : fd_table'[h] =
                IF h = f THEN [fd_table[h] EXCEPT !.epfd = -1] ELSE fd_table[h]
          BY <1>0, <4>2
        <5>2. QED
          BY <1>0, <5>1 DEF Entry
      <4>3. QED
        BY <3>1, <4>1, <4>2
    <3>3. \A h \in Fds : DESOCK_FD(fd_table, h)' => DESOCK_FD(fd_table, h)
      BY <3>2 DEF DESOCK_FD, VALID_FD
    <3>4. QED
      BY <1>q, <2>1, <2>2, <3>3
  <2>5. QED
    BY <1>3, <2>3, <2>4
<1>4. CASE CloseCall(t)
  <2>1. PICK f \in Fds : /\ origin[f] # "none"
                         /\ HandOver(f, "none")
                         /\ Enter(t, "close", f, NoFd, CloseLabel(f))
    BY <1>4 DEF CloseCall, Held
  <2>2. UNCHANGED <<kernel, fd_table>>
    BY <1>4 DEF CloseCall, lib
  <2>3. \A h \in Fds : origin'[h] = "file" => origin[h] = "file"
    BY <1>0, <2>1 DEF HandOver
  <2>4. CASE VALID_FD(f)
    <3>1. CloseLabel(f) # "sysclose"
      BY <2>4 DEF CloseLabel
    <3>2. QED
      BY <1>d, <1>q, <2>1, <2>2, <2>3, <3>1
  <2>5. CASE ~VALID_FD(f)
    <3>1. ~DESOCK_FD(fd_table, f)'
      BY <2>5 DEF DESOCK_FD, VALID_FD
    <3>2. \A h \in Fds : h # f => ~Clearing(t, h)'
      BY <1>0, <2>1 DEF Clearing, Enter, CpuOK
    <3>3. QED
      BY <1>d, <1>o, <2>2, <2>3, <3>1, <3>2, VacantKept
  <2>6. QED
    BY <2>4, <2>5
<1>5. CASE DupCall(t) \/ Dup2Call(t)
  <2>1. PICK f \in Held, g \in Fds :
          /\ UNCHANGED kernel \/ kernel' = [kernel EXCEPT ![g] = kernel[f]]
          /\ \/ Enter(t, "dup", f, g, "copy") /\ (UNCHANGED origin \/ HandOver(g, "none"))
             \/ HandOver(g, "copy") /\ UNCHANGED cpu
    BY <1>5, FdTableAssumption, ConnPoolAssumption DEF DupCall, Dup2Call, LowestFree, Held, Fds
  <2>2. kernel[f] # "closed"
    BY <1>o DEF OwnersOpen
  <2>3. \A h \in Fds : kernel'[h] = "closed" => kernel[h] = "closed"
    BY <1>0, <2>1, <2>2
  <2>4. \A h \in Fds : origin'[h] = "file" => origin[h] = "file"
    BY <1>0, <2>1 DEF HandOver
  <2>5. UNCHANGED fd_table
    BY <1>5 DEF DupCall, Dup2Call, lib
  <2>6. QED
    BY <1>d, <1>q, <2>1, <2>3, <2>4, <2>5
<1>6. CASE PollCall(t) \/ SelectCall(t)
  <2>1. UNCHANGED <<kernel, origin, fd_table>>
    BY <1>6 DEF PollCall, SelectCall, app, lib
  <2>2. \E fn, found, servers : Scanned(t, fn, found, servers)
    BY <1>6 DEF PollCall, SelectCall
  <2>3. UNCHANGED cpu \/ \E fn, s : Enter(t, fn, s, NoFd, "arm")
    BY <2>2 DEF Scanned
  <2>4. QED
    BY <1>d, <1>q, <2>1, <2>3
<1>z. ASSUME NEW fs, fd_table' = disarm_oneshot(fd_table, fs)
      PROVE  \A f \in Fds : DESOCK_FD(fd_table, f)' => DESOCK_FD(fd_table, f)
  <2>1. TableOK(fd_table)
    BY DEF TypeInv
  <2>2. \A f \in TableFds : fd_table'[f].desock = fd_table[f].desock
    BY <1>z, <2>1, TableDisarm
  <2>3. QED
    BY <2>2 DEF DESOCK_FD, VALID_FD
<1>7. CASE EpollWaitCall(t)
  <2>1. UNCHANGED <<kernel, origin>> /\ \E fs : fd_table' = disarm_oneshot(fd_table, fs)
    BY <1>7 DEF EpollWaitCall, app
  <2>2. \E fn, found, servers : Scanned(t, fn, found, servers)
    BY <1>7 DEF EpollWaitCall
  <2>3. UNCHANGED cpu \/ \E fn, s : Enter(t, fn, s, NoFd, "arm")
    BY <2>2 DEF Scanned
  <2>4. QED
    BY <1>q, <1>z, <2>1, <2>3
<1>8. CASE \/ AcceptCall(t) \/ AcceptBlock(t) \/ SemWait(t) \/ SemWaitInterrupted(t)
           \/ AcceptSetBlock(t) \/ CloseGetValue(t) \/ ClosePost(t) \/ MuxArm(t) \/ MuxTry(t)
           \/ MuxUnblock(t) \/ GetNameCall(t) \/ FillSockaddr(t)
  <2>1. UNCHANGED <<kernel, origin, fd_table>>
    BY <1>8 DEF AcceptCall, AcceptBlock, SemWait, SemWaitInterrupted, AcceptSetBlock,
                CloseGetValue, ClosePost, MuxArm, MuxTry, MuxUnblock, GetNameCall, FillSockaddr, app, lib
  <2>2. \E fn, f, g, l : (Enter(t, fn, f, g, l) \/ Goto(t, l)) /\ l # "sysclose"
    <3>1. CASE AcceptCall(t) \/ MuxUnblock(t) \/ GetNameCall(t) \/ FillSockaddr(t)
      BY <3>1 DEF AcceptCall, MuxUnblock, GetNameCall, FillSockaddr, Return
    <3>2. CASE AcceptBlock(t) \/ SemWait(t) \/ SemWaitInterrupted(t) \/ AcceptSetBlock(t)
      <4>1. \E l : Goto(t, l) /\ l # "sysclose"
        BY <3>2 DEF AcceptBlock, SemWait, SemWaitInterrupted, AcceptSetBlock
      <4>2. QED
        BY <4>1
    <3>3. CASE CloseGetValue(t) \/ ClosePost(t) \/ MuxArm(t) \/ MuxTry(t)
      <4>1. \E l : Goto(t, l) /\ l # "sysclose"
        BY <3>3 DEF CloseGetValue, ClosePost, MuxArm, MuxTry
      <4>2. QED
        BY <4>1
    <3>4. QED
      BY <1>8, <3>1, <3>2, <3>3
  <2>3. QED
    BY <1>d, <1>q, <2>1, <2>2
<1>9. CASE MuxReport(t)
  <2>1. /\ UNCHANGED <<kernel, origin>> /\ Return(t)
        /\ UNCHANGED fd_table \/ \E fs : fd_table' = disarm_oneshot(fd_table, fs)
    BY <1>9 DEF MuxReport, app
  <2>2. QED
    BY <1>d, <1>q, <1>z, <2>1 DEF Return
<1>10. CASE AcceptDupFails(t) \/ AcceptDup(t)
  <2>1. UNCHANGED <<origin, fd_table>>
    BY <1>10 DEF AcceptDupFails, AcceptDup, app, lib
  <2>2. \A h \in Fds : kernel'[h] = "closed" => kernel[h] = "closed"
    BY <1>0, <1>10 DEF AcceptDupFails, AcceptDup
  <2>3. \E fn, f, g, l : Enter(t, fn, f, g, l) /\ l # "sysclose"
    BY <1>10 DEF AcceptDupFails, AcceptDup, Return
  <2>4. QED
    BY <1>d, <1>q, <2>1, <2>2, <2>3
<1>11. CASE AcceptClone(t) \/ AcceptUnlisten(t) \/ CopyEntry(t)
  <2>1. pc[t] \in NewLabels /\ pc[t] # "sysclose" /\ new[t] \in Fds /\ Owns(t, new[t])
    BY <1>0, <1>11 DEF AcceptClone, AcceptUnlisten, CopyEntry, NewLabels, CpuOK, FrameOK, Owns,
                       Creates
  <2>2. \E e : fd_table' = [fd_table EXCEPT ![new[t]] = e]
    BY <1>11 DEF AcceptClone, AcceptUnlisten, CopyEntry, clone_fd_table_entry
  <2>3. UNCHANGED <<kernel, origin>> /\ \E l \in {"unlisten", "fill", "check_max"} : Goto(t, l)
    BY <1>11 DEF AcceptClone, AcceptUnlisten, CopyEntry, app
  <2>4. PICK e : fd_table' = [fd_table EXCEPT ![new[t]] = e]
    BY <2>2
  <2>5. \E l : Goto(t, l) /\ l # "sysclose"
    BY <2>3
  <2>6. \A h \in Fds : origin'[h] = "file" => origin[h] = "file"
    BY <2>3
  <2>7. QED
    BY <1>w, <2>1, <2>3, <2>4, <2>5, <2>6
<1>12. CASE CheckMax(t) \/ WriteMax(t)
  <2>1. UNCHANGED <<kernel, fd_table>>
    BY <1>12 DEF CheckMax, WriteMax, lib
  <2>2. \A h \in Fds : origin'[h] = "file" => origin[h] = "file"
    BY <1>0, <1>12 DEF CheckMax, WriteMax, Finish, HandOver
  <2>3. Goto(t, "write_max") \/ Return(t)
    BY <1>12 DEF CheckMax, WriteMax, Finish
  <2>4. QED
    BY <1>d, <1>q, <2>1, <2>2, <2>3 DEF Return
<1>13. CASE CloseClear(t)
  <2>1. arg[t] \in TableFds /\ Goto(t, "sysclose") /\ UNCHANGED <<kernel, origin>>
    BY <1>0, <1>13 DEF CloseClear, CpuOK, FrameOK, ArgLabels, app
  <2> DEFINE e == clear_fd_table_entry(fd_table[arg[t]])
  <2>2. e.desock = 0
    BY <1>0, <2>1, EntryUpdates
  <2>3. fd_table' = [fd_table EXCEPT ![arg[t]] = e]
    BY <1>13 DEF CloseClear
  <2> HIDE DEF e
  <2>4. ~DESOCK_FD(fd_table, arg[t])'
    BY <1>0, <2>1, <2>2, <2>3 DEF DESOCK_FD, VALID_FD, Goto
  <2>5. \A h \in Fds : h # arg[t] => (DESOCK_FD(fd_table, h)' => DESOCK_FD(fd_table, h))
    BY <1>0, <2>3 DEF DESOCK_FD, VALID_FD
  <2>6. \A h \in Fds : h # arg[t] => ~Clearing(t, h)'
    BY <2>1 DEF Clearing, Goto
  <2>7. ASSUME NEW h \in Fds, h = arg[t] PROVE ~DESOCK_FD(fd_table, h)'
    BY <2>4, <2>7, <2>1 DEF Goto, DESOCK_FD
  <2>8. QED
    BY <1>o, <2>1, <2>5, <2>6, <2>7, VacantKept
<1>14. CASE CloseSysClose(t)
  <2>1. arg[t] \in Fds /\ Clearing(t, arg[t])
    BY <1>0, <1>14 DEF CloseSysClose, CpuOK, FrameOK, Clearing
  <2>2. UNCHANGED <<origin, fd_table>> /\ Return(t)
    BY <1>14 DEF CloseSysClose, lib, app
  <2>3. ~DESOCK_FD(fd_table, arg[t])
    BY <1>o, <2>1 DEF VacantIsClear, Vacant, Clearing
  <2>4. \A h \in Fds : h # arg[t] => kernel'[h] = kernel[h]
    BY <1>0, <1>14 DEF CloseSysClose
  <2>5. \A h \in Fds : ~Clearing(t, h)'
    BY <1>e, <2>2 DEF Return
  <2>6. \A h \in Fds : h = arg[t] => ~DESOCK_FD(fd_table, h)'
    BY <1>d, <2>2, <2>3
  <2>7. QED
    BY <1>d, <1>o, <2>2, <2>4, <2>5, <2>6, VacantKept
<1>15. QED
  BY <1>1, <1>2, <1>3, <1>4, <1>5, <1>6, <1>7, <1>8, <1>9, <1>10, <1>11, <1>12, <1>13, <1>14
     DEF AppCall, LibStep

-----------------------------------------------------------------------------
(* The theorem *)

LEMMA OwnInit == Init => OwnInv
<1> SUFFICES ASSUME Init PROVE OwnInv
  OBVIOUS
<1>1. \A t \in Threads, f \in Fds : ~Owns(t, f)
  BY DEF Init, Owns, Creates, Closes, NewLabels, CloseLabels
<1>2. OwnersOpen /\ OneOwner
  BY <1>1 DEF Init, OwnersOpen, OneOwner, Held
<1>3. VacantIsClear
  BY DEF Init, VacantIsClear, DESOCK_FD, VALID_FD, ZeroedEntry
<1>4. QED
  BY <1>2, <1>3 DEF OwnInv

LEMMA OwnStep == TypeInv /\ OwnInv /\ [Next]_vars => OwnInv'
<1> SUFFICES ASSUME TypeInv, OwnInv, [Next]_vars PROVE OwnInv'
  OBVIOUS
<1>1. CASE UNCHANGED vars
  BY <1>1 DEF vars, lib, app, cpu, OwnInv, OwnersOpen, OneOwner, VacantIsClear, Vacant, Held,
              Owns, Creates, Closes, DESOCK_FD
<1>2. ASSUME NEW t \in Threads, AppCall(t) \/ LibStep(t) PROVE OwnInv'
  <2>1. OthersStay(t)
    BY <1>2, EveryStepMoves, OthersStayPut
  <2>2. OwnersOpen' /\ OneOwner'
    BY <1>2, <2>1, ProperStep, ProperKeeps DEF OwnInv
  <2>3. QED
    BY <1>2, <2>2, VacantStep DEF OwnInv
<1>3. QED
  BY <1>1, <1>2 DEF Next

LEMMA OwnInvariant == Spec => [](TypeInv /\ OwnInv)
BY InitType, TypeStep, OwnInit, OwnStep, PTL DEF Spec

\* For every application and every interleaving, a descriptor that open() returned has
\* no desocketed entry left over: close clears the entry before the kernel can give
\* the number away, and nothing writes it in between (src/close.c:25-30).
THEOREM FilesNotDesocked == Spec => []FilesAreNotDesocked
<1>1. OwnInv => FilesAreNotDesocked
  BY DEF OwnInv, VacantIsClear, Vacant, FilesAreNotDesocked
<1>2. QED
  BY <1>1, OwnInvariant, PTL

-----------------------------------------------------------------------------
(* max_fd.  It is tested and then written without a lock, so two threads that create
   descriptors at the same time may leave it too low; with one such thread it covers
   every desocketed descriptor the application holds.  The invariant is about domains,
   which an entry has from socket() on, and excepts what is being created.          *)

Creator(t) == Calls[t] \cap {"socket", "accept", "dup", "dup2"} # {}

OneCreator == \A t, u \in Threads : Creator(t) /\ Creator(u) => t = u

CreatingLabels == NewLabels \cup {"block", "set_block", "dup"}
CreatingCalls  == {"socket", "accept", "dup"}

\* Only creators are where descriptors are created.
CreatorsCreate ==
  \A t \in Threads : /\ pc[t] \in CreatingLabels => call[t] \in CreatingCalls
                     /\ call[t] \in CreatingCalls => Creator(t)

Covered ==
  /\ \A f \in TableFds :
       fd_table[f].domain \in Supported => f < max_fd \/ \E t \in Threads : Creates(t, f)
  /\ \A t \in Threads : pc[t] = "write_max" => new[t] + 1 > max_fd

\* A step that takes t to label l of function fn.
LEMMA CreatorMove ==
  ASSUME TypeInv, CreatorsCreate, NEW t \in Threads, NEW fn, NEW l,
         \/ \E f, g : Enter(t, fn, f, g, l)
         \/ Goto(t, l) /\ fn = call[t],
         l \in CreatingLabels => fn \in CreatingCalls,
         fn \in CreatingCalls => Creator(t)
  PROVE  CreatorsCreate'
BY DEF TypeInv, CpuOK, CreatorsCreate, Enter, Goto

LEMMA CreatorStays ==
  ASSUME CreatorsCreate, UNCHANGED cpu
  PROVE  CreatorsCreate'
BY DEF CreatorsCreate, cpu

LEMMA CreatorStep ==
  ASSUME TypeInv, CreatorsCreate, NEW t \in Threads, AppCall(t) \/ LibStep(t)
  PROVE  CreatorsCreate'
<1>0. /\ pc[t] \in CreatingLabels => call[t] \in CreatingCalls
      /\ call[t] \in CreatingCalls => Creator(t)
  BY DEF CreatorsCreate
<1>r. ASSUME Return(t) PROVE CreatorsCreate'
  BY <1>r, CreatorMove DEF Return, CreatingLabels, CreatingCalls, NewLabels
<1>g. ASSUME NEW l, Goto(t, l), l \in CreatingLabels => call[t] \in CreatingCalls
      PROVE  CreatorsCreate'
  BY <1>0, <1>g, CreatorMove
<1>1. CASE \/ OpenCall(t) \/ BindCall(t) \/ ConnectCall(t) \/ ListenCall(t) \/ EpollCtlCall(t)
  BY <1>1, CreatorStays DEF OpenCall, BindCall, ConnectCall, MarkDesock, ListenCall, EpollCtlCall
<1>2. CASE SocketCall(t)
  <2>1. Creator(t) /\ "socket" \in CreatingCalls
    BY <1>2 DEF SocketCall, MayCall, Creator, CreatingCalls
  <2>2. UNCHANGED cpu \/ \E f, g : Enter(t, "socket", f, g, "check_max")
    BY <1>2 DEF SocketCall
  <2>3. QED
    BY <2>1, <2>2, CreatorMove, CreatorStays
<1>3. CASE AcceptCall(t)
  <2>1. Creator(t) /\ "accept" \in CreatingCalls
    BY <1>3 DEF AcceptCall, MayCall, Creator, CreatingCalls
  <2>2. \E f, g : Enter(t, "accept", f, g, "block")
    BY <1>3 DEF AcceptCall
  <2>3. QED
    BY <2>1, <2>2, CreatorMove
<1>4. CASE GetNameCall(t)
  BY <1>4, CreatorMove DEF GetNameCall, CreatingLabels, CreatingCalls, NewLabels
<1>5. CASE CloseCall(t)
  <2>1. PICK f : Enter(t, "close", f, NoFd, CloseLabel(f))
    BY <1>5 DEF CloseCall
  <2>2. CloseLabel(f) \notin CreatingLabels /\ "close" \notin CreatingCalls
    BY DEF CloseLabel, CreatingLabels, CreatingCalls, NewLabels
  <2>3. QED
    BY <2>1, <2>2, CreatorMove
<1>6. CASE DupCall(t) \/ Dup2Call(t)
  <2>1. Creator(t) /\ "dup" \in CreatingCalls
    BY <1>6 DEF DupCall, Dup2Call, MayCall, Creator, CreatingCalls
  <2>2. UNCHANGED cpu \/ \E f, g : Enter(t, "dup", f, g, "copy")
    BY <1>6 DEF DupCall, Dup2Call
  <2>3. QED
    BY <2>1, <2>2, CreatorMove, CreatorStays
<1>7. CASE PollCall(t) \/ SelectCall(t) \/ EpollWaitCall(t)
  <2>1. PICK fn \in {"poll", "select", "epoll_wait"} : \E found, servers : Scanned(t, fn, found, servers)
    BY <1>7 DEF PollCall, SelectCall, EpollWaitCall
  <2>2. UNCHANGED cpu \/ \E s : Enter(t, fn, s, NoFd, "arm")
    BY <2>1 DEF Scanned
  <2>3. fn \notin CreatingCalls /\ "arm" \notin CreatingLabels
    BY <2>1 DEF CreatingLabels, CreatingCalls, NewLabels
  <2>4. QED
    BY <2>2, <2>3, CreatorMove, CreatorStays
<1>8. CASE AcceptBlock(t)
  <2>1. call[t] \in CreatingCalls
    BY <1>0, <1>8 DEF AcceptBlock, CreatingLabels
  <2>2. QED
    BY <1>8, <1>g, <2>1 DEF AcceptBlock
<1>9. CASE SemWait(t) \/ SemWaitInterrupted(t)
  <2>1. call[t] = "accept" \/ "report" \notin CreatingLabels
    BY DEF CreatingLabels, NewLabels
  <2>2. PICK l : Goto(t, l) /\ l = IF call[t] = "accept" THEN "set_block" ELSE "report"
    BY <1>9 DEF SemWait, SemWaitInterrupted
  <2>3. l \in CreatingLabels => call[t] \in CreatingCalls
    BY <2>2 DEF CreatingLabels, CreatingCalls, NewLabels
  <2>4. QED
    BY <1>g, <2>2, <2>3
<1>10. CASE \/ AcceptSetBlock(t) \/ AcceptClone(t) \/ AcceptUnlisten(t) \/ CopyEntry(t)
  <2>1. call[t] \in CreatingCalls
    BY <1>0, <1>10 DEF AcceptSetBlock, AcceptClone, AcceptUnlisten, CopyEntry, CreatingLabels, NewLabels
  <2>2. QED
    BY <1>10, <1>g, <2>1 DEF AcceptSetBlock, AcceptClone, AcceptUnlisten, CopyEntry
<1>11. CASE AcceptDup(t)
  <2>1. call[t] \in CreatingCalls
    BY <1>0, <1>11 DEF AcceptDup, CreatingLabels
  <2>2. \E f, g : Enter(t, call[t], f, g, "clone")
    BY <1>11 DEF AcceptDup
  <2>3. QED
    BY <1>0, <2>1, <2>2, CreatorMove
<1>12. CASE AcceptDupFails(t) \/ WriteMax(t) \/ CloseSysClose(t) \/ MuxUnblock(t) \/ MuxReport(t)
  BY <1>12, <1>r DEF AcceptDupFails, WriteMax, CloseSysClose, MuxUnblock, MuxReport, Finish
<1>13. CASE CheckMax(t) \/ FillSockaddr(t)
  <2>1. \/ Return(t)
        \/ /\ call[t] \in CreatingCalls
           /\ \E l : Goto(t, l)
    BY <1>0, <1>13 DEF CheckMax, FillSockaddr, Finish, CreatingLabels, NewLabels
  <2>2. QED
    BY <1>g, <1>r, <2>1
<1>14. CASE CloseGetValue(t) \/ ClosePost(t) \/ CloseClear(t) \/ MuxArm(t) \/ MuxTry(t)
  <2>1. PICK l \in {"post", "clear", "sysclose", "try", "report", "sem_wait", "unblock"} : Goto(t, l)
    BY <1>14 DEF CloseGetValue, ClosePost, CloseClear, MuxArm, MuxTry
  <2>2. l \notin CreatingLabels
    BY <2>1 DEF CreatingLabels, NewLabels
  <2>3. QED
    BY <1>g, <2>1, <2>2
<1>15. QED
  BY <1>1, <1>2, <1>3, <1>4, <1>5, <1>6, <1>7, <1>8, <1>9, <1>10, <1>11, <1>12, <1>13, <1>14
     DEF AppCall, LibStep
\* Where t creates nothing and writes no max_fd, a step that gives no entry a supported
\* domain changes nothing.
LEMMA CoveredKept ==
  ASSUME Covered, TypeInv, NEW t \in Threads, Moves(t), UNCHANGED max_fd,
         \A f \in TableFds : fd_table'[f].domain \in Supported =>
                               fd_table[f].domain \in Supported \/ Creates(t, f)',
         \A f \in TableFds : Creates(t, f) => Creates(t, f)' \/ f < max_fd,
         pc'[t] = "write_max" => new'[t] + 1 > max_fd
  PROVE  Covered'
<1>1. \A u \in Threads \ {t} : pc'[u] = pc[u] /\ new'[u] = new[u]
  BY DEF TypeInv, CpuOK, Moves, Enter, Goto, cpu
<1>2. \A f \in TableFds : (\E u \in Threads : Creates(u, f)) => \/ \E u \in Threads : Creates(u, f)'
                                                                \/ f < max_fd
  BY <1>1 DEF Creates
<1>3. QED
  BY <1>1, <1>2 DEF Covered

LEMMA CoveredStep ==
  ASSUME OneCreator, TypeInv, CreatorsCreate, Covered, NEW t \in Threads, AppCall(t) \/ LibStep(t)
  PROVE  Covered'
<1>0. /\ CpuOK /\ TableOK(fd_table) /\ fd_table \in Table /\ max_fd \in 0 .. FD_TABLE_SIZE
      /\ FrameOK(pc[t], arg[t], new[t])
      /\ pc \in [Threads -> Labels] /\ new \in [Threads -> Fds \cup {NoFd}]
  BY DEF TypeInv, WorldOK, TableOK, CpuOK
<1>m. Moves(t)
  BY EveryStepMoves
\* a step that enters no table entry and no label of a creation
<1>q. ASSUME UNCHANGED max_fd, pc[t] \notin NewLabels,
             \A f \in TableFds : fd_table'[f].domain \in Supported =>
                                   fd_table[f].domain \in Supported \/ Creates(t, f)',
             pc'[t] # "write_max"
      PROVE  Covered'
  <2>1. \A f \in TableFds : ~Creates(t, f)
    BY <1>q DEF Creates
  <2>2. QED
    BY <1>m, <1>q, <2>1, CoveredKept
<1>p. ASSUME NEW l, Goto(t, l) PROVE pc'[t] = l
  BY <1>0, <1>p DEF Goto
<1>e. ASSUME NEW fn, NEW f, NEW g, NEW l, Enter(t, fn, f, g, l) PROVE pc'[t] = l /\ new'[t] = g
  BY <1>0, <1>e DEF Enter
<1>1. CASE OpenCall(t) \/ AcceptCall(t) \/ GetNameCall(t) \/ CloseCall(t)
  <2>1. UNCHANGED <<fd_table, max_fd>>
    BY <1>1 DEF OpenCall, AcceptCall, GetNameCall, CloseCall, lib
  <2>2. pc[t] = "idle"
    BY <1>1 DEF OpenCall, AcceptCall, GetNameCall, CloseCall, MayCall
  <2>3. UNCHANGED pc \/ \E fn, f, l : Enter(t, fn, f, NoFd, l) /\ l # "write_max"
    BY <1>1 DEF OpenCall, AcceptCall, GetNameCall, CloseCall, CloseLabel, cpu
  <2>4. QED
    BY <1>e, <1>q, <2>1, <2>2, <2>3 DEF NewLabels
<1>2. CASE SocketCall(t)
  <2>1. pc[t] = "idle" /\ UNCHANGED max_fd
    BY <1>2 DEF SocketCall, MayCall
  <2>2. PICK f \in Fds, d \in SockDomains :
          \/ /\ fd_table' = [fd_table EXCEPT ![f] = [clear_fd_table_entry(@) EXCEPT !.domain = d]]
             /\ Enter(t, "socket", NoFd, f, "check_max")
          \/ UNCHANGED <<fd_table, cpu>>
    BY <1>2 DEF SocketCall, LowestFree
  <2>3. CASE UNCHANGED <<fd_table, cpu>>
    BY <1>q, <2>1, <2>3 DEF cpu, NewLabels
  <2>4. CASE /\ fd_table' = [fd_table EXCEPT ![f] = [clear_fd_table_entry(@) EXCEPT !.domain = d]]
             /\ Enter(t, "socket", NoFd, f, "check_max")
    <3>1. \A g \in TableFds : g # f => fd_table'[g] = fd_table[g]
      BY <1>0, <2>4 DEF Table
    <3>2. Creates(t, f)' /\ pc'[t] # "write_max"
      BY <1>e, <2>4 DEF Creates, NewLabels
    <3>3. QED
      BY <1>q, <2>1, <3>1, <3>2 DEF NewLabels
  <2>5. QED
    BY <2>2, <2>3, <2>4
<1>3. CASE BindCall(t) \/ ConnectCall(t)
  <2>1. PICK f \in TableFds \cap Fds : fd_table' = [fd_table EXCEPT ![f].desock = 1]
    BY <1>3 DEF BindCall, ConnectCall, MarkDesock, Held, has_supported_domain, VALID_FD
  <2>2. \A g \in TableFds : fd_table'[g].domain = fd_table[g].domain
    BY <1>0, <2>1 DEF Table, Entry
  <2>3. pc[t] = "idle" /\ UNCHANGED max_fd /\ UNCHANGED cpu
    BY <1>3 DEF BindCall, ConnectCall, MarkDesock, MayCall
  <2>4. QED
    BY <1>q, <2>2, <2>3 DEF cpu, NewLabels
<1>4. CASE ListenCall(t)
  <2>1. PICK f \in TableFds \cap Fds : fd_table' = [fd_table EXCEPT ![f].listening = 1]
    BY <1>4 DEF ListenCall, Held, HeldDesocked, DESOCK_FD, VALID_FD
  <2>2. \A g \in TableFds : fd_table'[g].domain = fd_table[g].domain
    BY <1>0, <2>1 DEF Table, Entry
  <2>3. pc[t] = "idle" /\ UNCHANGED max_fd /\ UNCHANGED cpu
    BY <1>4 DEF ListenCall, MayCall
  <2>4. QED
    BY <1>q, <2>2, <2>3 DEF cpu, NewLabels
<1>5. CASE DupCall(t) \/ Dup2Call(t)
  <2>1. pc[t] = "idle" /\ UNCHANGED <<fd_table, max_fd>>
    BY <1>5 DEF DupCall, Dup2Call, MayCall, lib
  <2>2. UNCHANGED cpu \/ \E f, g : Enter(t, "dup", f, g, "copy")
    BY <1>5 DEF DupCall, Dup2Call
  <2>3. pc'[t] # "write_max"
    BY <1>e, <2>1, <2>2 DEF cpu
  <2>4. QED
    BY <1>q, <2>1, <2>3 DEF NewLabels
<1>6. CASE PollCall(t) \/ SelectCall(t) \/ EpollWaitCall(t)
  <2>1. pc[t] = "idle" /\ UNCHANGED max_fd
    BY <1>6 DEF PollCall, SelectCall, EpollWaitCall, MayWait, MayCall, lib
  <2>2. UNCHANGED fd_table \/ \E fs : fd_table' = disarm_oneshot(fd_table, fs)
    BY <1>6 DEF PollCall, SelectCall, EpollWaitCall, lib
  <2>3. \A g \in TableFds : fd_table'[g].domain = fd_table[g].domain
    BY <1>0, <2>2, TableDisarm
  <2>4. \E fn, found, servers : Scanned(t, fn, found, servers)
    BY <1>6 DEF PollCall, SelectCall, EpollWaitCall
  <2>5. UNCHANGED cpu \/ \E fn, s : Enter(t, fn, s, NoFd, "arm")
    BY <2>4 DEF Scanned
  <2>6. pc'[t] # "write_max"
    BY <1>e, <2>1, <2>5 DEF cpu
  <2>7. QED
    BY <1>q, <2>1, <2>3, <2>6 DEF NewLabels
<1>7. CASE EpollCtlCall(t)
  <2>1. PICK f \in TableFds \cap Fds, e \in Epolls :
          \/ \E once \in Oneshot :
               fd_table' = [fd_table EXCEPT ![f] =
                              [@ EXCEPT !.epfd = e, !.oneshot = once, !.data = f]]
          \/ fd_table' = [fd_table EXCEPT ![f].epfd = -1]
    BY <1>7 DEF EpollCtlCall, VALID_FD, Held
  <2>2. \A g \in TableFds : fd_table'[g].domain = fd_table[g].domain
    <3>e. fd_table[f] \in Entry
      BY <1>0 DEF Table
    <3>1. CASE fd_table' = [fd_table EXCEPT ![f].epfd = -1]
      BY <1>0, <3>1, <3>e DEF Table, Entry
    <3>2. ASSUME NEW once \in Oneshot,
                 fd_table' = [fd_table EXCEPT ![f] =
                                [@ EXCEPT !.epfd = e, !.oneshot = once, !.data = f]]
          PROVE  \A g \in TableFds : fd_table'[g].domain = fd_table[g].domain
      <4> DEFINE x == [fd_table[f] EXCEPT !.epfd = e, !.oneshot = once, !.data = f]
      <4>1. x.domain = fd_table[f].domain
        BY <3>e DEF Entry
      <4>2. fd_table' = [fd_table EXCEPT ![f] = x]
        BY <3>2
      <4> HIDE DEF x
      <4>3. QED
        BY <1>0, <4>1, <4>2 DEF Table
    <3>3. QED
      BY <2>1, <3>1, <3>2
  <2>3. pc[t] = "idle" /\ UNCHANGED max_fd /\ UNCHANGED cpu
    BY <1>7 DEF EpollCtlCall, MayCall
  <2>4. QED
    BY <1>q, <2>2, <2>3 DEF cpu, NewLabels
<1>8. CASE \/ AcceptBlock(t) \/ SemWait(t) \/ SemWaitInterrupted(t) \/ AcceptSetBlock(t)
           \/ CloseGetValue(t) \/ ClosePost(t) \/ MuxArm(t) \/ MuxTry(t)
  <2>1. pc[t] \notin NewLabels /\ UNCHANGED <<fd_table, max_fd>>
    BY <1>8 DEF AcceptBlock, SemWait, SemWaitInterrupted, AcceptSetBlock, CloseGetValue, ClosePost,
                MuxArm, MuxTry, NewLabels, lib
  <2>2. \E l : Goto(t, l) /\ l # "write_max"
    BY <1>8 DEF AcceptBlock, SemWait, SemWaitInterrupted, AcceptSetBlock, CloseGetValue, ClosePost,
                MuxArm, MuxTry
  <2>3. QED
    BY <1>p, <1>q, <2>1, <2>2
<1>9. CASE AcceptDupFails(t) \/ CloseSysClose(t) \/ MuxUnblock(t)
  <2>1. pc[t] \notin NewLabels /\ UNCHANGED <<fd_table, max_fd>> /\ Return(t)
    BY <1>9 DEF AcceptDupFails, CloseSysClose, MuxUnblock, NewLabels, lib
  <2>2. pc'[t] # "write_max"
    BY <1>e, <2>1 DEF Return
  <2>3. QED
    BY <1>q, <2>1, <2>2
<1>10. CASE MuxReport(t)
  <2>1. pc[t] \notin NewLabels /\ UNCHANGED max_fd /\ Return(t)
    BY <1>10 DEF MuxReport, NewLabels
  <2>2. UNCHANGED fd_table \/ \E fs : fd_table' = disarm_oneshot(fd_table, fs)
    BY <1>10 DEF MuxReport
  <2>3. \A g \in TableFds : fd_table'[g].domain = fd_table[g].domain
    BY <1>0, <2>2, TableDisarm
  <2>4. pc'[t] # "write_max"
    BY <1>e, <2>1 DEF Return
  <2>5. QED
    BY <1>q, <2>1, <2>3, <2>4
<1>11. CASE CloseClear(t)
  <2>1. arg[t] \in TableFds
    BY <1>0, <1>11 DEF CloseClear, FrameOK, ArgLabels
  <2>2. fd_table[arg[t]] \in Entry
    BY <1>0, <2>1 DEF Table
  <2>3. clear_fd_table_entry(fd_table[arg[t]]).domain = "cleared"
    BY <2>2 DEF clear_fd_table_entry, Entry
  <2>4. \A g \in TableFds : fd_table'[g] = IF g = arg[t] THEN clear_fd_table_entry(fd_table[g])
                                                         ELSE fd_table[g]
    BY <1>0, <1>11 DEF CloseClear, Table
  <2>5. \A g \in TableFds : fd_table'[g].domain \in Supported => fd_table[g].domain \in Supported
    BY <2>3, <2>4 DEF Supported
  <2>6. pc[t] \notin NewLabels /\ UNCHANGED max_fd /\ pc'[t] # "write_max"
    BY <1>p, <1>11 DEF CloseClear, NewLabels
  <2>7. QED
    BY <1>q, <2>5, <2>6
<1>12. CASE AcceptDup(t)
  <2>1. pc[t] \notin NewLabels /\ UNCHANGED <<fd_table, max_fd>>
    BY <1>12 DEF AcceptDup, NewLabels, lib
  <2>2. pc'[t] # "write_max"
    BY <1>e, <1>12 DEF AcceptDup
  <2>3. QED
    BY <1>q, <2>1, <2>2
\* inside a creation
<1>13. CASE AcceptClone(t) \/ CopyEntry(t) \/ AcceptUnlisten(t)
  <2>1. PICK l \in NewLabels : Goto(t, l) /\ l # "write_max"
    BY <1>13 DEF AcceptClone, CopyEntry, AcceptUnlisten, NewLabels
  <2>2. pc[t] \in NewLabels /\ UNCHANGED max_fd
    BY <1>13 DEF AcceptClone, CopyEntry, AcceptUnlisten, NewLabels
  <2>3. new'[t] = new[t] /\ pc'[t] = l
    BY <1>p, <2>1 DEF Goto
  <2>4. Creates(t, new[t])' /\ \A f : Creates(t, f) => Creates(t, f)'
    BY <2>1, <2>2, <2>3 DEF Creates
  <2>5. \A g \in TableFds : g # new[t] => fd_table'[g] = fd_table[g]
    BY <1>0, <1>13 DEF AcceptClone, CopyEntry, AcceptUnlisten, clone_fd_table_entry, Table
  <2>6. Covered'
    BY <1>m, <2>1, <2>2, <2>3, <2>4, <2>5, CoveredKept
  <2>7. QED
    BY <2>6
<1>14. CASE FillSockaddr(t)
  <2>1. UNCHANGED <<fd_table, max_fd>>
    BY <1>14 DEF FillSockaddr, lib
  <2>2. CASE pc[t] = "name" /\ Return(t)
    <3>1. pc'[t] # "write_max"
      BY <1>e, <2>2 DEF Return
    <3>2. QED
      BY <1>q, <2>1, <2>2, <3>1 DEF NewLabels
  <2>3. CASE pc[t] = "fill" /\ Goto(t, "check_max")
    <3>1. new'[t] = new[t] /\ pc'[t] = "check_max"
      BY <1>p, <2>3 DEF Goto
    <3>2. \A f : Creates(t, f) => Creates(t, f)'
      BY <2>3, <3>1 DEF Creates, NewLabels
    <3>3. QED
      BY <1>m, <2>1, <3>1, <3>2, CoveredKept
  <2>4. QED
    BY <1>14, <2>2, <2>3 DEF FillSockaddr
<1>15. CASE CheckMax(t)
  <2>0. new[t] \in TableFds
    BY <1>0, <1>15 DEF CheckMax, FrameOK, NewLabels
  <2>1. UNCHANGED <<fd_table, max_fd>> /\ pc[t] = "check_max"
    BY <1>15 DEF CheckMax, lib
  <2>2. CASE new[t] + 1 > max_fd /\ Goto(t, "write_max")
    <3>1. new'[t] = new[t] /\ pc'[t] = "write_max"
      BY <1>p, <2>2 DEF Goto
    <3>2. \A f : Creates(t, f) => Creates(t, f)'
      BY <2>1, <3>1 DEF Creates, NewLabels
    <3>3. QED
      BY <1>m, <2>1, <2>2, <3>1, <3>2, CoveredKept
  <2>3. CASE new[t] + 1 <= max_fd /\ Return(t)
    <3>1. pc'[t] # "write_max"
      BY <1>e, <2>3 DEF Return
    <3>2. new[t] < max_fd
      BY <1>0, <2>0, <2>3 DEF TableFds
    <3>3. \A f : Creates(t, f) => f < max_fd
      BY <3>2 DEF Creates
    <3>4. QED
      BY <1>m, <2>1, <3>1, <3>3, CoveredKept
  <2>4. QED
    BY <1>15, <2>2, <2>3 DEF CheckMax, Finish
<1>16. CASE WriteMax(t)
  <2>0. new[t] \in TableFds
    BY <1>0, <1>16 DEF WriteMax, FrameOK, NewLabels
  <2>1. UNCHANGED fd_table /\ max_fd' = new[t] + 1 /\ pc[t] = "write_max" /\ Return(t)
    BY <1>16 DEF WriteMax, Finish
  <2>2. new[t] + 1 > max_fd
    BY <2>1 DEF Covered
  <2>3. \A f \in TableFds : f < max_fd => f < max_fd'
    BY <1>0, <2>0, <2>1, <2>2 DEF TableFds
  <2>4. \A f : Creates(t, f) => f < max_fd'
    BY <2>0, <2>1 DEF Creates, TableFds
  <2>5. \A u \in Threads \ {t} : pc'[u] = pc[u] /\ new'[u] = new[u]
    BY <1>m DEF TypeInv, CpuOK, Moves, Enter, Goto, cpu
  <2>6. \A u \in Threads \ {t} : pc[u] # "write_max"
    BY <2>1 DEF OneCreator, CreatorsCreate, CreatingLabels, NewLabels
  <2>7. pc'[t] # "write_max"
    BY <1>e, <2>1 DEF Return
  <2>8. \A f \in TableFds : (\E u \in Threads : Creates(u, f)) => \/ \E u \in Threads : Creates(u, f)'
                                                                  \/ f < max_fd'
    BY <2>4, <2>5 DEF Creates
  <2>9. QED
    BY <2>1, <2>3, <2>5, <2>6, <2>7, <2>8 DEF Covered
<1>17. QED
  BY <1>1, <1>2, <1>3, <1>4, <1>5, <1>6, <1>7, <1>8, <1>9, <1>10, <1>11, <1>12, <1>13, <1>14,
     <1>15, <1>16 DEF AppCall, LibStep

\* If one thread at most creates descriptors, max_fd lies above every desocketed
\* descriptor the application holds, so epoll_wait, which scans up to it, misses none
\* (src/socket.c:28-30, accept.c:33-35, dup.c:22-24, 55-57 and 88-90, epoll.c:53).
THEOREM MaxFdIsEnough ==
  ASSUME OneCreator
  PROVE  Spec => []MaxFdCovers
<1>1. Init => CreatorsCreate /\ Covered
  BY FdTableAssumption
     DEF Init, CreatorsCreate, Covered, CreatingLabels, CreatingCalls, NewLabels, ZeroedEntry, Supported
<1>2. OneCreator /\ TypeInv /\ CreatorsCreate /\ Covered /\ [Next]_vars
        => CreatorsCreate' /\ Covered'
  <2> SUFFICES ASSUME TypeInv, CreatorsCreate, Covered, [Next]_vars
               PROVE  CreatorsCreate' /\ Covered'
    OBVIOUS
  <2>1. CASE UNCHANGED vars
    BY <2>1 DEF vars, lib, cpu, CreatorsCreate, Covered, Creates
  <2>2. ASSUME NEW t \in Threads, AppCall(t) \/ LibStep(t) PROVE CreatorsCreate' /\ Covered'
    BY <2>2, CreatorStep, CoveredStep
  <2>3. QED
    BY <2>1, <2>2 DEF Next
<1>3. TypeInv /\ OwnInv /\ DesockedIsInet /\ Covered => MaxFdCovers
  BY DEF OwnInv, OwnersOpen, DesockedIsInet, Covered, MaxFdCovers, HeldDesocked, Held, DESOCK_FD,
         VALID_FD, Owns
<1>4. QED
  BY <1>1, <1>2, <1>3, InitType, TypeStep, OwnInvariant, DesockedInet, PTL DEF Spec
=============================================================================
