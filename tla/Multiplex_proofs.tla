--------------------------- MODULE Multiplex_proofs --------------------------
(***************************************************************************)
(* The calls that libdesock leaves to the kernel: for every architecture,  *)
(* every kernel and every list of system calls that may be tried, the      *)
(* kernel carries out at most one of them, and the application gets its    *)
(* answer and a timeout not shorter than it asked for.  And the calls it   *)
(* answers itself: they sleep only when they have nothing to report, a     *)
(* listener comes with its token, and what they report and count is what   *)
(* the table held.                                                         *)
(***************************************************************************)
EXTENDS Multiplex, SequenceTheorems, FiniteSetTheorems, TLAPS

\* Whichever way an architecture's kernel flags an error, __syscall returns the number
\* the kernel meant (src/include/arch).
LEMMA SyscallIsResult ==
  ASSUME NEW arch, NEW v \in Int
  PROVE  syscall(arch, v) = v
<1> DEFINE k == Registers(arch, v)
<1>1. CASE arch \in FlagArchs /\ v < 0
  <2>1. k.result = -v /\ k.flag = 1
    BY <1>1 DEF Registers
  <2>2. mips(k) = v /\ mips64(k) = v /\ mipsn32(k) = v /\ powerpc(k) = v /\ powerpc64(k) = v
    BY <1>1, <2>1 DEF mips, mips64, mipsn32, powerpc, powerpc64
  <2>3. QED
    BY <1>1, <2>2 DEF FlagArchs, syscall
<1>2. CASE ~(arch \in FlagArchs /\ v < 0)
  <2>1. k.result = v /\ k.flag = 0
    BY <1>2 DEF Registers
  <2>2. /\ mips(k) = v /\ mips64(k) = v /\ mipsn32(k) = v /\ powerpc(k) = v /\ powerpc64(k) = v
        /\ x86_64(k) = v
    BY <2>1 DEF mips, mips64, mipsn32, powerpc, powerpc64, x86_64
  <2>3. QED
    BY <2>2 DEF syscall
<1>3. QED
  BY <1>1, <1>2

\* One system call is tried, or one and then another.
IsPlan(plan) == \E a, b : plan = <<a>> \/ plan = <<a, b>>

LEMMA PlanLength ==
  ASSUME NEW plan, IsPlan(plan)
  PROVE  /\ plan # <<>> /\ Len(plan) \in {1, 2} /\ DOMAIN plan = 1 .. Len(plan)
<1>1. PICK a, b : plan = <<a>> \/ plan = <<a, b>>
  BY DEF IsPlan
<1>2. QED
  BY <1>1

LEMMA SocketPlan ==
  ASSUME NEW build, NEW nr
  PROVE  IsPlan(alt_socketcall(build, nr))
<1> DEFINE a == Try(nr, NoTimeout)
           b == Try("socketcall", NoTimeout)
<1>1. <<a>> \o <<b>> = <<a, b>> /\ <<a>> \o <<>> = <<a>>
  <2> DEFINE S == {a, b}
  <2>1. <<a>> \in Seq(S) /\ <<b>> \in Seq(S) /\ <<a, b>> \in Seq(S)
    OBVIOUS
  <2>2. /\ <<a>> \o <<b>> \in Seq(S)
        /\ Len(<<a>> \o <<b>>) = 2
        /\ \A n \in 1 .. 2 : (<<a>> \o <<b>>)[n] = IF n <= 1 THEN <<a>>[n] ELSE <<b>>[n - 1]
    BY <2>1, ConcatProperties
  <2>3. \A n \in 1 .. 2 : (<<a>> \o <<b>>)[n] = <<a, b>>[n]
    BY <2>2
  <2>4. <<a>> \o <<b>> = <<a, b>>
    BY <2>1, <2>2, <2>3, SeqEqual
  <2>5. <<a>> \o <<>> = <<a>>
    BY <2>1, ConcatEmptySeq
  <2>6. QED
    BY <2>4, <2>5
<1>2. alt_socketcall(build, nr) = <<a>> \o <<b>> \/ alt_socketcall(build, nr) = <<a>> \o <<>>
  BY DEF alt_socketcall
<1>3. QED
  BY <1>1, <1>2 DEF IsPlan

LEMMA SelectPlan ==
  ASSUME NEW build, NEW tv
  PROVE  IsPlan(musl_select(build, tv))
BY DEF musl_select, IsPlan

-----------------------------------------------------------------------------
(* The inductive invariant *)

Lacks(k) == trap.plan[k].nr \notin trap.build.kernel

\* While system calls are tried, the kernel lacks those before the next one, and has
\* carried out none.
TrapInv ==
  /\ pc \notin {"trap", "done"} => trap.plan = <<>>
  /\ pc = "trap" =>
       /\ IsPlan(trap.plan) /\ trap.next \in DOMAIN trap.plan /\ trap.served = <<>>
       /\ \A k \in 1 .. trap.next - 1 : Lacks(k)
  /\ CarriedOutOnce

\* A step outside the trap.
LEMMA NoTrapKeeps ==
  ASSUME TrapInv, pc # "trap", pc' # "trap", trap'.plan = <<>>
  PROVE  TrapInv'
BY DEF TrapInv, CarriedOutOnce

\* The first system call is about to be tried.
LEMMA TrapBegins ==
  ASSUME NEW b, NEW plan, IsPlan(plan), trap' = Traps(b, plan), pc' = "trap"
  PROVE  TrapInv'
<1>1. trap'.plan = plan /\ trap'.next = 1 /\ trap'.served = <<>>
  BY DEF Traps
<1>2. QED
  BY <1>1, PlanLength DEF TrapInv, CarriedOutOnce

\* One system call is tried.
LEMMA TrapStep ==
  ASSUME TrapInv, Trap
  PROVE  TrapInv'
<1> DEFINE try == trap.plan[trap.next]
           has == try.nr \in trap.build.kernel
<1>1. /\ IsPlan(trap.plan) /\ trap.next \in 1 .. Len(trap.plan) /\ trap.served = <<>>
      /\ \A k \in 1 .. trap.next - 1 : Lacks(k)
      /\ Len(trap.plan) \in {1, 2} /\ DOMAIN trap.plan = 1 .. Len(trap.plan)
  BY PlanLength DEF TrapInv, Trap
<1>2. PICK v \in IF ~has THEN {-ENOSYS} ELSE IF try.timeout.sec < 0 THEN {-EINVAL} ELSE Answers :
        LET ret  == syscall(trap.build.arch, v)
            more == ret = -ENOSYS /\ trap.next < Len(trap.plan)
            this == IF has THEN <<[try |-> try, v |-> v]>> ELSE <<>>
        IN  /\ trap' = [plan |-> trap.plan, build |-> trap.build,
                        next |-> IF more THEN trap.next + 1 ELSE trap.next,
                        served |-> trap.served \o this]
            /\ pc' = IF more THEN "trap" ELSE "done"
            /\ result' = IF more THEN result ELSE syscall_ret(ret)
  BY DEF Trap
<1>3. v \in Int /\ v > -4096 /\ (v = -ENOSYS <=> ~has)
  BY <1>2, MultiplexAssumption DEF ENOSYS, EINVAL
<1> DEFINE more == v = -ENOSYS /\ trap.next < Len(trap.plan)
           this == IF has THEN <<[try |-> try, v |-> v]>> ELSE <<>>
<1>4. syscall(trap.build.arch, v) = v
  BY <1>3, SyscallIsResult
<1>5. <<>> \o this = this
  <2>1. this \in Seq({[try |-> try, v |-> v]})
    <3> DEFINE e == [try |-> try, v |-> v]
    <3> HIDE DEF e
    <3>1. <<e>> \in Seq({e}) /\ <<>> \in Seq({e})
      OBVIOUS
    <3>2. QED
      BY <3>1 DEF e
  <2>2. QED
    BY <2>1, ConcatEmptySeq
<1>6. /\ trap'.plan = trap.plan /\ trap'.build = trap.build /\ trap'.served = this
      /\ trap'.next = IF more THEN trap.next + 1 ELSE trap.next
      /\ pc' = IF more THEN "trap" ELSE "done"
      /\ result' = IF more THEN result ELSE syscall_ret(v)
  BY <1>1, <1>2, <1>4, <1>5
<1> HIDE DEF try, more, this
<1>7. \A k : Lacks(k)' <=> Lacks(k)
  BY <1>6 DEF Lacks
<1>8. Lacks(trap.next) <=> ~has
  BY DEF Lacks, try
<1>9. CASE more
  <2>1. ~has /\ trap.next + 1 \in 1 .. Len(trap.plan)
    BY <1>1, <1>3, <1>9 DEF more
  <2>2. this = <<>> /\ pc' = "trap" /\ trap'.next = trap.next + 1
    BY <1>6, <1>9, <2>1 DEF this
  <2>3. \A k \in 1 .. trap.next : Lacks(k)
    BY <1>1, <1>8, <2>1
  <2>4. QED
    BY <1>1, <1>6, <1>7, <2>1, <2>2, <2>3 DEF TrapInv, CarriedOutOnce
<1>10. CASE ~more
  <2>1. pc' = "done" /\ result' = syscall_ret(v)
    BY <1>6, <1>10
  <2>2. syscall_ret(v) = IF v < 0 THEN [ret |-> -1, errno |-> -v] ELSE [ret |-> v, errno |-> 0]
    BY <1>3 DEF syscall_ret
  <2> DEFINE known == {k \in DOMAIN trap.plan : ~Lacks(k)}
  <2>3. CASE has
    <3>1. trap.next \in known
      BY <1>1, <1>8, <2>3
    <3>2. trap'.served = <<[try |-> try, v |-> v]>>
      BY <1>6, <2>3 DEF this
    <3>3. Len(trap'.served) = 1 /\ trap'.served[1].v = v
      BY <3>2
    <3>4. CarriedOutOnce'
      BY <1>6, <2>1, <2>2, <3>1, <3>3 DEF CarriedOutOnce, Lacks
    <3>5. QED
      BY <2>1, <3>4 DEF TrapInv
  <2>4. CASE ~has
    <3>1. trap.next = Len(trap.plan) /\ v = -ENOSYS
      BY <1>1, <1>3, <1>10, <2>4 DEF more
    <3>2. known = {}
      BY <1>1, <1>8, <2>4, <3>1
    <3>3. Len(trap'.served) = 0
      BY <1>6, <2>4 DEF this
    <3>4. CarriedOutOnce'
      BY <1>6, <2>1, <2>2, <3>1, <3>2, <3>3 DEF CarriedOutOnce, Lacks, ENOSYS
    <3>5. QED
      BY <2>1, <3>4 DEF TrapInv
  <2>5. QED
    BY <2>3, <2>4
<1>11. QED
  BY <1>9, <1>10

\* Every step keeps the invariant.
LEMMA TrapInductive == TrapInv /\ [Next]_vars => TrapInv'
<1> SUFFICES ASSUME TrapInv, [Next]_vars PROVE TrapInv'
  OBVIOUS
<1>k. ASSUME UNCHANGED trap, pc \notin {"trap", "done"}, pc' # "trap" PROVE TrapInv'
  BY <1>k, NoTrapKeeps DEF TrapInv
<1>1. CASE NextCall
  BY <1>1, NoTrapKeeps DEF NextCall, NoTrap
<1>2. CASE PollCall \/ SelectCall \/ EpollWaitCall
  BY <1>2, <1>k DEF PollCall, SelectCall, EpollWaitCall, Begin, back
<1>3. CASE SocketCall
  <2>1. PICK b \in Builds : trap' = Traps(b, alt_socketcall(b, "socket function"))
    BY <1>3 DEF SocketCall
  <2>2. QED
    BY <1>3, <2>1, SocketPlan, TrapBegins DEF SocketCall
<1>4. CASE PollScan \/ SelectCheck \/ SelectScan \/ EpollScan \/ Scanned
  BY <1>4, <1>k DEF PollScan, SelectCheck, SelectScan, EpollScan, Scanned, Tested, back
<1>5. CASE Arm \/ TryWait \/ SemWait \/ SemWaitInterrupted \/ GiveUp \/ EpollReport
  BY <1>5, <1>k DEF Arm, TryWait, SemWait, SemWaitInterrupted, GiveUp, EpollReport, Took, Tested,
                    back
<1>6. CASE ReturnFound \/ epoll_pwait2_unsupported
  BY <1>6, <1>k DEF ReturnFound, epoll_pwait2_unsupported
<1>7. CASE PollOrEpollToKernel
  <2>1. PICK b \in Builds, nr \in PollFns \cup {"epoll_pwait"} : Leave(b, <<Try(nr, NoTimeout)>>)
    BY <1>7 DEF PollOrEpollToKernel
  <2>2. QED
    BY <2>1, TrapBegins DEF Leave, IsPlan
<1>8. CASE SelectToKernel
  <2>1. PICK tv \in Timeouts :
          \/ pc' = "done" /\ UNCHANGED trap
          \/ \E b \in Builds : Leave(b, musl_select(b, tv))
    BY <1>8 DEF SelectToKernel
  <2>2. ASSUME NEW b \in Builds, Leave(b, musl_select(b, tv)) PROVE TrapInv'
    BY <2>2, SelectPlan, TrapBegins DEF Leave
  <2>3. QED
    BY <1>8, <1>k, <2>1, <2>2 DEF SelectToKernel
<1>9. CASE Trap
  BY <1>9, TrapStep
<1>10. CASE OtherThreads
  BY <1>10, <1>k DEF OtherThreads, back
<1>11. CASE UNCHANGED vars
  <2>1. UNCHANGED <<pc, trap, result>>
    BY <1>11 DEF vars, back
  <2>2. QED
    BY <2>1 DEF TrapInv, CarriedOutOnce, Lacks
<1>12. QED
  BY <1>1, <1>2, <1>3, <1>4, <1>5, <1>6, <1>7, <1>8, <1>9, <1>10, <1>11 DEF Next, Step

\* Of the system calls tried for a call that is left to the kernel at most one is carried
\* out, one is if the kernel has any, and its answer is what the application gets, in the
\* result and errno (src/include/syscall.h, src/select.c:96-110, src/syscall.c:13-20).
THEOREM KernelCarriesOutOnce == Spec => []CarriedOutOnce
<1>1. Init => TrapInv
  BY DEF Init, NoTrap, TrapInv, CarriedOutOnce
<1>2. TrapInv => CarriedOutOnce
  BY DEF TrapInv
<1>3. QED
  BY <1>1, <1>2, TrapInductive, PTL DEF Spec
-----------------------------------------------------------------------------
(* A call sleeps only if it has nothing else to report.  The loops keep no    *)
(* list of what they found, but a number; what has to be shown is that the    *)
(* number is small enough only when there is nothing but the server socket.   *)

\* f was reported: it is counted, and alone is only the server socket
Counted(f) == r >= 1 /\ (r = 1 /\ server_sock > -1 => f = server_sock)

PollCounted ==
  /\ \A k \in DOMAIN fds : k \in Nat /\ 0 .. k \subseteq DOMAIN fds
  /\ fds \in [DOMAIN fds -> [fd : Int, events : SUBSET Events, revents : SUBSET Events]]
  /\ server_sock > -1 => r >= 1
  /\ \A k \in DOMAIN fds : k < i /\ fds[k].revents # {} => Counted(k)

SelectCounted ==
  /\ call.n \in Nat /\ i <= call.n /\ rfds \cup wfds \subseteq Nat
  /\ server_sock > -1 => r >= 1 /\ server_sock \in rfds /\ server_sock < i
  /\ \A f \in rfds \cup wfds : f < i => Counted(f)

\* where the loop of the call ended
Ended ==
  /\ server_sock > -1
  /\ call.fn \in PollFns => i \notin DOMAIN fds
  /\ call.fn \in SelectFns => i >= call.n

SleepInv ==
  /\ pc = "idle" => i = 0 /\ r = 0 /\ server_sock = -1 /\ ev = <<>>
  /\ pc = "check" => /\ call.fn \in SelectFns /\ call.n \in Nat /\ rfds \cup wfds \subseteq Nat
                     /\ i \in Nat /\ r = 0 /\ server_sock = -1
  /\ pc \in {"scan", "arm", "try", "sem_wait"} =>
       /\ call.fn \in PollFns \cup SelectFns \cup EpollFns
       /\ i \in Nat /\ r \in Nat /\ server_sock \in Int
       /\ call.fn \in PollFns => PollCounted
       /\ call.fn \in SelectFns => SelectCounted
       /\ call.fn \in EpollFns /\ r = 0 => ev = <<>>
  /\ pc \in {"arm", "try", "sem_wait"} => Ended
  /\ pc = "sem_wait" => SleepsAt(r)

LEMMA PollScanCounts ==
  ASSUME SleepInv, PollScan
  PROVE  SleepInv'
<1>1. /\ pc = "scan" /\ pc' = "scan" /\ call' = call /\ call.fn \in PollFns
      /\ i \in DOMAIN fds /\ i \in Nat /\ i' = i + 1 /\ r \in Nat /\ PollCounted
  BY DEF PollScan, Tested, SleepInv
<1> DEFINE f == fds[i].fd
           new == fds[i].events \cap PollMask(fd_table, f)
<1>2. /\ fds' = [fds EXCEPT ![i].revents = new]
      /\ r' = IF DESOCK_FD(fd_table, f) THEN r + 1 ELSE r
      /\ server_sock' = IF LISTENING_FD(fd_table, f) THEN i ELSE server_sock
  BY DEF PollScan
<1>3. /\ new # {} => DESOCK_FD(fd_table, f)
      /\ LISTENING_FD(fd_table, f) => DESOCK_FD(fd_table, f)
      /\ new \subseteq fds[i].events
  BY DEF PollMask, LISTENING_FD
<1>4. /\ DOMAIN fds' = DOMAIN fds /\ fds'[i].revents = new
      /\ \A k \in DOMAIN fds \ {i} : fds'[k] = fds[k]
      /\ fds' \in [DOMAIN fds -> [fd : Int, events : SUBSET Events, revents : SUBSET Events]]
  BY <1>1, <1>2, <1>3 DEF PollCounted
<1>5. r' \in Nat /\ server_sock' \in Int /\ (server_sock' > -1 => r' >= 1)
  BY <1>1, <1>2, <1>3 DEF PollCounted, SleepInv
<1>6. ASSUME NEW k \in DOMAIN fds, k < i + 1, fds'[k].revents # {}
      PROVE  Counted(k)'
  <2>1. CASE k = i
    BY <1>1, <1>2, <1>3, <1>4, <1>6, <2>1 DEF Counted, PollCounted, SleepInv
  <2>2. CASE k # i
    <3>1. k \in Nat /\ k < i /\ Counted(k)
      <4>1. k \in Nat /\ fds[k] = fds'[k]
        BY <1>1, <1>4, <2>2 DEF PollCounted
      <4>2. k < i /\ fds[k].revents # {}
        BY <1>1, <1>6, <2>2, <4>1
      <4>3. QED
        BY <1>1, <4>1, <4>2 DEF PollCounted
    <3>2. QED
      BY <1>1, <1>2, <1>3, <3>1 DEF Counted, SleepInv
  <2>3. QED
    BY <2>1, <2>2
<1>7. PollCounted'
  BY <1>1, <1>4, <1>5, <1>6 DEF PollCounted
<1>8. QED
  BY <1>1, <1>5, <1>7 DEF SleepInv, PollFns, SelectFns, EpollFns

LEMMA SelectScanCounts ==
  ASSUME SleepInv, SelectScan
  PROVE  SleepInv'
<1>1. /\ pc = "scan" /\ pc' = "scan" /\ call' = call /\ call.fn \in SelectFns
      /\ i < call.n /\ i \in Nat /\ i' = i + 1 /\ r \in Nat /\ SelectCounted
  BY DEF SelectScan, Tested, SleepInv
<1> DEFINE reads  == i \in rfds /\ DESOCK_FD(fd_table, i)
           writes == i \in wfds /\ DESOCK_FD(fd_table, i) /\ ~LISTENING_FD(fd_table, i)
<1>2. /\ rfds' = IF reads THEN rfds ELSE rfds \ {i}
      /\ wfds' = IF writes THEN wfds ELSE wfds \ {i}
      /\ r' = r + (IF reads THEN 1 ELSE 0) + (IF writes THEN 1 ELSE 0)
      /\ server_sock' = IF reads /\ LISTENING_FD(fd_table, i) THEN i ELSE server_sock
  BY DEF SelectScan
<1>3. r' \in Nat /\ r' >= r /\ server_sock' \in Int
  BY <1>1, <1>2 DEF SleepInv
<1>4. rfds' \cup wfds' \subseteq Nat
  BY <1>1, <1>2 DEF SelectCounted
<1>5. server_sock' > -1 => r' >= 1 /\ server_sock' \in rfds' /\ server_sock' < i + 1
  <2>1. CASE reads /\ LISTENING_FD(fd_table, i)
    BY <1>1, <1>2, <2>1
  <2>2. CASE ~(reads /\ LISTENING_FD(fd_table, i))
    <3>1. server_sock' = server_sock /\ server_sock \in Int
      BY <1>1, <1>2, <2>2 DEF SleepInv
    <3>2. server_sock > -1 => r >= 1 /\ server_sock \in rfds /\ server_sock < i
      BY <1>1 DEF SelectCounted
    <3>3. server_sock > -1 => server_sock \in rfds'
      BY <1>1, <1>2, <3>1, <3>2
    <3>4. QED
      BY <1>1, <1>3, <3>1, <3>2, <3>3
  <2>3. QED
    BY <2>1, <2>2
<1>6. ASSUME NEW f \in rfds' \cup wfds', f < i + 1 PROVE Counted(f)'
  <2>1. CASE f = i
    <3>1. reads \/ writes
      BY <1>2, <1>6, <2>1
    <3>2. CASE server_sock' = i
      BY <1>1, <1>2, <1>3, <2>1, <3>1, <3>2 DEF Counted
    <3>3. CASE server_sock' # i
      BY <1>1, <1>2, <1>3, <2>1, <3>1, <3>3 DEF Counted, SelectCounted, SleepInv
    <3>4. QED
      BY <3>2, <3>3
  <2>2. CASE f # i
    <3>1. f \in rfds \cup wfds /\ f \in Nat /\ f < i /\ Counted(f)
      BY <1>1, <1>2, <1>4, <1>6, <2>2 DEF SelectCounted
    <3>2. QED
      BY <1>1, <1>2, <1>3, <3>1 DEF Counted, SleepInv
  <2>3. QED
    BY <2>1, <2>2
<1>7. SelectCounted'
  BY <1>1, <1>4, <1>5, <1>6 DEF SelectCounted
<1>8. QED
  BY <1>1, <1>3, <1>7 DEF SleepInv, PollFns, SelectFns, EpollFns

LEMMA SleepInductive == SleepInv /\ [Next]_vars => SleepInv'
<1> SUFFICES ASSUME SleepInv, [Next]_vars PROVE SleepInv'
  OBVIOUS
<1> USE DEF PollFns, SelectFns, EpollFns
<1>k. ASSUME UNCHANGED <<call, locals, out>>, pc' = pc PROVE SleepInv'
  BY <1>k DEF SleepInv, PollCounted, SelectCounted, Counted, Ended, SleepsAt, locals, out
<1>l. ASSUME pc' \notin {"idle", "check", "scan", "arm", "try", "sem_wait"} PROVE SleepInv'
  BY <1>l DEF SleepInv
<1>1. CASE NextCall
  BY <1>1 DEF NextCall, SleepInv
<1>2. CASE PollCall
  <2>1. PICK fn \in PollFns, a \in Polls : Begin([fn |-> fn], "scan") /\ fds' = a
    BY <1>2 DEF PollCall
  <2>2. /\ pc' = "scan" /\ call'.fn = fn
        /\ i' = 0 /\ r' = 0 /\ server_sock' = -1
    BY <2>1 DEF Begin, SleepInv, locals
  <2>3. PollCounted'
    BY <2>1, <2>2, MultiplexAssumption DEF PollCounted
  <2>4. QED
    BY <2>1, <2>2, <2>3 DEF SleepInv
<1>3. CASE SelectCall
  <2>1. PICK fn \in SelectFns, s \in Selects :
          /\ Begin([fn |-> fn, n |-> s.n, rfds |-> s.rfds, wfds |-> s.wfds, efds |-> s.efds,
                    left |-> FALSE, tv |-> NoTimeout], "check")
          /\ rfds' = s.rfds /\ wfds' = s.wfds
    BY <1>3 DEF SelectCall
  <2>2. /\ pc' = "check" /\ call'.fn = fn /\ call'.n = s.n
        /\ i' = 0 /\ r' = 0 /\ server_sock' = -1
    BY <2>1 DEF Begin, SleepInv, locals
  <2>3. QED
    BY <2>1, <2>2, MultiplexAssumption DEF SleepInv
<1>4. CASE EpollWaitCall
  <2>1. PICK fn \in EpollFns, ep \in Epolls, cnt \in EventSlots :
          Begin([fn |-> fn, ep |-> ep, cnt |-> cnt], "scan")
    BY <1>4 DEF EpollWaitCall
  <2>2. QED
    BY <2>1 DEF Begin, SleepInv, locals
<1>5. CASE PollScan
  BY <1>5, PollScanCounts
<1>6. CASE SelectCheck
  <2>1. /\ pc = "check" /\ call' = call /\ UNCHANGED <<r, server_sock, rfds, wfds>>
        /\ (pc' = "scan" /\ i' = 0) \/ (pc' = "check" /\ i' = i + 1)
    BY <1>6 DEF SelectCheck, Tested, out
  <2>2. QED
    BY <2>1 DEF SleepInv, SelectCounted
<1>7. CASE SelectScan
  BY <1>7, SelectScanCounts
<1>8. CASE EpollScan
  <2>1. /\ pc = "scan" /\ pc' = "scan" /\ call' = call /\ call.fn \in EpollFns /\ i' = i + 1
        /\ (r' = r + 1) \/ (r' = r /\ ev' = ev)
        /\ server_sock' \in {i, server_sock}
    BY <1>8 DEF EpollScan
  <2>2. QED
    BY <2>1 DEF SleepInv
<1>9. CASE Scanned
  <2>1. /\ pc = "scan" /\ call' = call /\ UNCHANGED <<locals, fds, rfds, wfds, ev>>
        /\ pc' = "return" \/ (pc' = "arm" /\ server_sock > -1)
        /\ call.fn \in PollFns => i \notin DOMAIN fds
        /\ call.fn \in SelectFns => i >= call.n
    BY <1>9 DEF Scanned, Tested
  <2>2. QED
    BY <2>1, <1>l DEF SleepInv, PollCounted, SelectCounted, Counted, Ended, locals
<1>10. CASE Arm
  <2>1. pc = "arm" /\ pc' = "try" /\ UNCHANGED <<call, locals, out>>
    BY <1>10 DEF Arm
  <2>2. QED
    BY <2>1 DEF SleepInv, PollCounted, SelectCounted, Counted, Ended, locals, out
<1>11. CASE TryWait
  <2>1. \/ pc' \in {"report", "return", "give_up"}
        \/ pc = "try" /\ pc' = "sem_wait" /\ SleepsAt(r) /\ UNCHANGED <<call, locals, out>>
    BY <1>11 DEF TryWait, Took, Tested
  <2>2. QED
    BY <2>1, <1>l DEF SleepInv, PollCounted, SelectCounted, Counted, Ended, SleepsAt, locals, out
<1>12. CASE SemWait \/ SemWaitInterrupted \/ GiveUp \/ EpollReport \/ ReturnFound
            \/ epoll_pwait2_unsupported \/ PollOrEpollToKernel \/ SocketCall
  BY <1>12, <1>l DEF SemWait, SemWaitInterrupted, Took, GiveUp, EpollReport, ReturnFound,
                     epoll_pwait2_unsupported, PollOrEpollToKernel, Leave, SocketCall
<1>13. CASE SelectToKernel
  BY <1>13, <1>l DEF SelectToKernel, Leave
<1>14. CASE Trap
  BY <1>14, <1>l DEF Trap
<1>15. CASE OtherThreads
  BY <1>15, <1>k DEF OtherThreads
<1>16. CASE UNCHANGED vars
  BY <1>16, <1>k DEF vars
<1>17. QED
  BY <1>1, <1>2, <1>3, <1>4, <1>5, <1>6, <1>7, <1>8, <1>9, <1>10, <1>11, <1>12, <1>13, <1>14,
     <1>15, <1>16 DEF Next, Step

\* poll, select and epoll_wait wait for the semaphore only when the server socket is all
\* they have to report, for every table, every array and set, and whatever other threads
\* do during the scan (src/poll.c:36, src/select.c:61, src/epoll.c:77).
THEOREM SleepsOnlyIdle == Spec => []NeverSleepsWithWork
<1>1. Init => SleepInv
  BY DEF Init, SleepInv
<1>2. SleepInv => NeverSleepsWithWork
  <2> SUFFICES ASSUME SleepInv, pc = "sem_wait" PROVE NeverSleepsWithWork
    BY DEF NeverSleepsWithWork
  <2> USE DEF PollFns, SelectFns, EpollFns
  <2>1. CASE call.fn \in PollFns
    <3>1. r <= 1 /\ r \in Nat /\ PollCounted /\ server_sock > -1 /\ i \in Nat /\ i \notin DOMAIN fds
      BY <2>1 DEF SleepInv, SleepsAt, Ended
    <3>2. \A k \in DOMAIN fds : k < i
      BY <3>1 DEF PollCounted
    <3>3. \A k \in DOMAIN fds : k # server_sock => fds[k].revents = {}
      BY <3>1, <3>2 DEF PollCounted, Counted
    <3>4. QED
      BY <2>1, <3>3 DEF NeverSleepsWithWork
  <2>2. CASE call.fn \in SelectFns
    <3>1. /\ r <= 1 /\ r \in Nat /\ SelectCounted /\ server_sock > -1 /\ server_sock \in Int
          /\ i \in Nat /\ i >= call.n
      BY <2>2 DEF SleepInv, SleepsAt, Ended
    <3>2. i = call.n
      BY <3>1 DEF SelectCounted
    <3>3. {f \in rfds \cup wfds : f < call.n} = {server_sock}
      BY <3>1, <3>2 DEF SelectCounted, Counted
    <3>4. QED
      BY <2>2, <3>3 DEF NeverSleepsWithWork
  <2>3. CASE call.fn \in EpollFns
    <3>1. ev = <<>>
      BY <2>3 DEF SleepInv, SleepsAt
    <3>2. QED
      BY <2>3, <3>1 DEF NeverSleepsWithWork
  <2>4. QED
    BY <2>1, <2>2, <2>3 DEF SleepInv
<1>3. QED
  BY <1>1, <1>2, SleepInductive, PTL DEF Spec
-----------------------------------------------------------------------------
(* A listener that was found is reported if and only if there is a token for *)
(* it, and accept_block says so.                                             *)

\* the server socket is among what will be reported
ServerFound ==
  /\ call.fn \in PollFns =>
       /\ server_sock \in DOMAIN fds /\ server_sock < i
       /\ fds[server_sock] \in [fd : Int, events : SUBSET Events, revents : SUBSET Events]
       /\ "in" \in fds[server_sock].events => "in" \in fds[server_sock].revents
  /\ call.fn \in SelectFns => server_sock \in rfds

TokenKept ==
  server_sock > -1 /\ (call.fn \in EpollFns => took # "no" \/ r < call.cnt) =>
    /\ accept_block = (IF took = "no" THEN 1 ELSE 0)
    /\ (call.fn \in PollFns => "in" \in fds[server_sock].events) => (ServerReported <=> took # "no")

TokenInv ==
  /\ pc \in {"idle", "check", "scan", "arm", "try", "sem_wait", "give_up"} => took = "no"
  /\ pc \in {"try", "sem_wait", "give_up", "report"} => accept_block = 0
  /\ pc \in {"scan", "arm", "try", "sem_wait", "give_up", "return"} =>
       call.fn \in PollFns \cup SelectFns \cup EpollFns
  /\ pc \in {"scan", "arm", "try", "sem_wait", "give_up"} /\ server_sock > -1 => ServerFound
  /\ pc \in {"arm", "try", "sem_wait", "give_up", "report"} => server_sock > -1
  /\ pc = "report" => call.fn \in EpollFns /\ took # "no"
  /\ pc = "return" => TokenKept
  /\ TokenForReport

\* Where the token was taken, the report follows.
LEMMA TookKeeps ==
  ASSUME TokenInv, pc \in {"try", "sem_wait"}, NEW how \in {"token", "signal"}, Took(how)
  PROVE  TokenInv'
<1>1. /\ took' = how /\ took' # "no" /\ pc' \in {"report", "return"}
      /\ pc' = "report" <=> call.fn \in EpollFns
      /\ UNCHANGED <<accept_block, call, server_sock, i, r, fds, rfds>>
  BY DEF Took, locals, out
<1>2. accept_block = 0 /\ server_sock > -1 /\ ServerFound /\ call.fn \in PollFns \cup SelectFns \cup EpollFns
  BY DEF TokenInv
<1>3. pc' = "return" => TokenKept'
  BY <1>1, <1>2 DEF TokenKept, ServerReported, ServerFound, PollFns, SelectFns, EpollFns
<1>4. QED
  BY <1>1, <1>2, <1>3 DEF TokenInv, TokenForReport, Answered

LEMMA GiveUpKeeps ==
  ASSUME TokenInv, GiveUp
  PROVE  TokenInv'
<1>1. /\ pc = "give_up" /\ pc' = "return" /\ accept_block' = 1
      /\ UNCHANGED <<call, server_sock, took>>
      /\ call.fn \in PollFns => fds' = [fds EXCEPT ![server_sock].revents = {}]
      /\ call.fn \in SelectFns => rfds' = rfds \ {server_sock}
  BY DEF GiveUp
<1>2. took = "no" /\ server_sock > -1 /\ ServerFound /\ call.fn \in PollFns \cup SelectFns \cup EpollFns
  BY <1>1 DEF TokenInv
<1>3. call.fn \in PollFns => fds'[server_sock].revents = {}
  BY <1>1, <1>2 DEF ServerFound
<1>4. ~ServerReported'
  BY <1>1, <1>2, <1>3 DEF ServerReported, PollFns, SelectFns, EpollFns
<1>5. TokenKept'
  BY <1>1, <1>2, <1>4 DEF TokenKept
<1>6. QED
  BY <1>1, <1>2, <1>5 DEF TokenInv, TokenForReport, Answered

\* In the loops, a server socket stays among what will be reported.
LEMMA ScanFindsServer ==
  ASSUME TokenInv, SleepInv, PollScan \/ SelectScan \/ EpollScan
  PROVE  TokenInv'
<1> USE DEF PollFns, SelectFns, EpollFns
<1>1. /\ pc = "scan" /\ pc' = "scan" /\ UNCHANGED <<call, took, accept_block>> /\ i \in Nat
      /\ server_sock \in Int /\ i' = i + 1
  BY DEF PollScan, SelectScan, EpollScan, Tested, SleepInv, lib, hist
<1>2. CASE PollScan
  <2> DEFINE f == fds[i].fd
             new == fds[i].events \cap PollMask(fd_table, f)
  <2>1. /\ fds' = [fds EXCEPT ![i].revents = new] /\ i \in DOMAIN fds /\ call.fn \in PollFns
        /\ server_sock' = IF LISTENING_FD(fd_table, f) THEN i ELSE server_sock
        /\ fds[i] \in [fd : Int, events : SUBSET Events, revents : SUBSET Events]
    BY <1>1, <1>2 DEF PollScan, SleepInv, PollCounted
  <2>2. CASE LISTENING_FD(fd_table, f)
    <3>1. "in" \in PollMask(fd_table, f)
      BY <2>2 DEF PollMask, LISTENING_FD
    <3>2. fds'[i] = [fds[i] EXCEPT !.revents = new] /\ i \in DOMAIN fds'
      BY <2>1
    <3>3. fds'[i].events = fds[i].events /\ fds'[i].revents = new
      BY <2>1, <3>2
    <3>4. fds'[i] \in [fd : Int, events : SUBSET Events, revents : SUBSET Events]
      BY <2>1, <3>2
    <3>5. ServerFound'
      BY <1>1, <2>1, <2>2, <3>1, <3>2, <3>3, <3>4 DEF ServerFound
    <3>6. QED
      BY <1>1, <2>1, <3>5 DEF TokenInv, TokenForReport, Answered
  <2>3. CASE ~LISTENING_FD(fd_table, f)
    <3>1. server_sock' = server_sock
      BY <2>1, <2>3
    <3>2. ASSUME server_sock > -1 PROVE ServerFound'
      <4>1. ServerFound /\ server_sock \in DOMAIN fds /\ server_sock < i
        BY <1>1, <2>1, <3>2 DEF TokenInv, ServerFound
      <4>2. fds'[server_sock] = fds[server_sock] /\ server_sock \in DOMAIN fds'
        BY <1>1, <2>1, <4>1
      <4>3. QED
        BY <1>1, <2>1, <3>1, <4>1, <4>2 DEF ServerFound
    <3>3. QED
      BY <1>1, <2>1, <3>1, <3>2 DEF TokenInv, TokenForReport, Answered
  <2>4. QED
    BY <2>2, <2>3
<1>3. CASE SelectScan
  <2>1. /\ call.fn \in SelectFns
        /\ \/ server_sock' = i /\ i \in rfds'
           \/ server_sock' = server_sock /\ rfds \ {i} \subseteq rfds'
    BY <1>3 DEF SelectScan
  <2>2. server_sock > -1 => server_sock \in rfds /\ server_sock # i
    BY <1>1, <2>1 DEF SleepInv, SelectCounted
  <2>3. QED
    BY <1>1, <2>1, <2>2 DEF TokenInv, ServerFound, TokenForReport, Answered
<1>4. CASE EpollScan
  BY <1>1, <1>4 DEF EpollScan, TokenInv, ServerFound, TokenForReport, Answered
<1>5. QED
  BY <1>2, <1>3, <1>4

LEMMA TokenInductive == TokenInv /\ SleepInv /\ TrapInv /\ [Next]_vars => TokenInv'
<1> SUFFICES ASSUME TokenInv, SleepInv, TrapInv, [Next]_vars PROVE TokenInv'
  OBVIOUS
<1> USE DEF PollFns, SelectFns, EpollFns
<1>1. CASE NextCall
  BY <1>1 DEF NextCall, TokenInv, TokenForReport, Answered
<1>2. CASE PollCall \/ SelectCall \/ EpollWaitCall
  <2>1. pc = "idle" /\ pc' \in {"scan", "check"} /\ took' = took /\ server_sock' = server_sock
    BY <1>2 DEF PollCall, SelectCall, EpollWaitCall, Begin, locals
  <2>2. pc' = "scan" => call'.fn \in PollFns \cup EpollFns
    BY <1>2 DEF PollCall, SelectCall, EpollWaitCall, Begin
  <2>3. server_sock = -1
    BY <2>1 DEF SleepInv
  <2>4. QED
    BY <2>1, <2>2, <2>3 DEF TokenInv, TokenForReport, Answered
<1>3. CASE SocketCall \/ PollOrEpollToKernel
  <2>1. pc' = "trap"
    BY <1>3 DEF SocketCall, PollOrEpollToKernel, Leave
  <2>2. QED
    BY <2>1 DEF TokenInv, TokenForReport, Answered
<1>4. CASE PollScan \/ SelectScan \/ EpollScan
  BY <1>4, ScanFindsServer
<1>5. CASE SelectCheck
  <2>1. /\ pc = "check" /\ pc' \in {"check", "scan"} /\ UNCHANGED <<call, took, server_sock>>
    BY <1>5 DEF SelectCheck, Tested
  <2>2. server_sock = -1 /\ call.fn \in SelectFns
    BY <2>1 DEF SleepInv
  <2>3. QED
    BY <2>1, <2>2 DEF TokenInv, TokenForReport, Answered
<1>6. CASE Scanned
  <2>1. /\ pc = "scan" /\ UNCHANGED <<call, took, accept_block, locals, fds, rfds>>
        /\ \/ pc' = "arm" /\ server_sock > -1
           \/ pc' = "return" /\ ~(server_sock > -1 /\ (call.fn \in EpollFns => r < call.cnt))
    BY <1>6 DEF Scanned, Tested, lib
  <2>2. QED
    BY <2>1 DEF TokenInv, TokenKept, ServerFound, TokenForReport, Answered, locals
<1>7. CASE Arm
  BY <1>7 DEF Arm, TokenInv, ServerFound, TokenForReport, Answered, locals, out
<1>8. CASE TryWait
  <2>1. \/ pc = "try" /\ Took("token")
        \/ /\ pc = "try" /\ pc' \in {"sem_wait", "give_up"}
           /\ UNCHANGED <<call, took, accept_block, locals, fds, rfds>>
    BY <1>8 DEF TryWait, Tested, lib, out
  <2>2. QED
    BY <2>1, TookKeeps DEF TokenInv, ServerFound, TokenForReport, Answered, locals
<1>9. CASE SemWait \/ SemWaitInterrupted
  BY <1>9, TookKeeps DEF SemWait, SemWaitInterrupted
<1>10. CASE GiveUp
  BY <1>10, GiveUpKeeps
<1>11. CASE EpollReport
  <2>1. /\ pc = "report" /\ pc' = "return" /\ UNCHANGED <<accept_block, call, server_sock, took>>
    BY <1>11 DEF EpollReport
  <2>2. accept_block = 0 /\ call.fn \in EpollFns /\ took # "no"
    BY <2>1 DEF TokenInv
  <2>3. QED
    BY <2>1, <2>2 DEF TokenInv, TokenKept, ServerReported, TokenForReport, Answered
<1>12. CASE ReturnFound \/ epoll_pwait2_unsupported
  <2>1. pc = "return" /\ pc' = "done" /\ UNCHANGED <<accept_block, call, locals, out, took>>
    BY <1>12 DEF ReturnFound, epoll_pwait2_unsupported, lib
  <2>2. TokenKept'
    BY <2>1 DEF TokenInv, TokenKept, ServerReported, locals, out
  <2>3. QED
    BY <2>1, <2>2 DEF TokenInv, TokenKept, TokenForReport
<1>13. CASE SelectToKernel
  <2>1. pc = "check" /\ pc' \in {"done", "trap"} /\ server_sock' = server_sock
    BY <1>13 DEF SelectToKernel, Leave, locals
  <2>2. server_sock = -1
    BY <2>1 DEF SleepInv
  <2>3. QED
    BY <2>1, <2>2 DEF TokenInv, TokenForReport
<1>14. CASE Trap
  <2>1. pc = "trap" /\ pc' \in {"trap", "done"} /\ trap'.plan = trap.plan
    BY <1>14 DEF Trap
  <2>2. trap.plan # <<>>
    BY <2>1, PlanLength DEF TrapInv
  <2>3. QED
    BY <2>1, <2>2 DEF TokenInv, TokenForReport, Answered, NoTrap
<1>15. CASE OtherThreads
  <2>1. UNCHANGED <<pc, accept_block, call, locals, out, back, took>>
    BY <1>15 DEF OtherThreads
  <2>2. QED
    BY <2>1 DEF TokenInv, TokenKept, ServerReported, ServerFound, TokenForReport, Answered, locals,
                out, back
<1>16. CASE UNCHANGED vars
  <2>1. UNCHANGED <<pc, accept_block, call, locals, out, back, took>>
    BY <1>16 DEF vars, lib
  <2>2. QED
    BY <2>1 DEF TokenInv, TokenKept, ServerReported, ServerFound, TokenForReport, Answered, locals,
                out, back
<1>17. QED
  BY <1>1, <1>2, <1>3, <1>4, <1>5, <1>6, <1>7, <1>8, <1>9, <1>10, <1>11, <1>12, <1>13, <1>14,
     <1>15, <1>16 DEF Next, Step

\* However other threads change the table and the semaphore, a call that found a listener
\* reports it if and only if it took its token (or was interrupted), and leaves
\* accept_block at 0 exactly then (src/poll.c:28-44, src/select.c:53-69,
\* src/epoll.c:69-92).
THEOREM ListenerComesWithToken == Spec => []TokenForReport
<1>1. Init => TokenInv /\ SleepInv /\ TrapInv
  BY DEF Init, TokenInv, TokenForReport, Answered, SleepInv, NoTrap, TrapInv, CarriedOutOnce
<1>2. TokenInv => TokenForReport
  BY DEF TokenInv
<1>3. QED
  BY <1>1, <1>2, TokenInductive, SleepInductive, TrapInductive, PTL DEF Spec
-----------------------------------------------------------------------------
(* How long the kernel is asked to wait.                                     *)

LEMMA NanosInt ==
  ASSUME NEW sec \in Int, NEW n \in Int
  PROVE  Nanos(sec, n) \in Int
<1>1. MILLION \in Int /\ THOUSAND \in Int
  BY SyscallAssumption
<1>2. sec * MILLION \in Int
  BY <1>1
<1>3. sec * MILLION * THOUSAND \in Int
  BY <1>1, <1>2
<1>4. QED
  BY <1>3 DEF Nanos

LEMMA NanosAdd ==
  ASSUME NEW sec \in Int, NEW q \in Int, NEW rem \in Int
  PROVE  Nanos(sec, (MILLION * q + rem) * THOUSAND) = Nanos(sec + q, rem * THOUSAND)
<1>1. MILLION \in Int /\ THOUSAND \in Int
  BY SyscallAssumption
<1>2. (MILLION * q + rem) * THOUSAND = q * MILLION * THOUSAND + rem * THOUSAND
  BY <1>1
<1>3. (sec + q) * MILLION * THOUSAND = sec * MILLION * THOUSAND + q * MILLION * THOUSAND
  BY <1>1
<1> DEFINE a == sec * MILLION * THOUSAND
           b == q * MILLION * THOUSAND
           c == rem * THOUSAND
<1>4. a \in Int /\ b \in Int /\ c \in Int
  BY <1>1
<1>5. a + (b + c) = (a + b) + c
  <2> HIDE DEF a, b, c
  <2>1. QED
    BY <1>4
<1>6. QED
  BY <1>2, <1>3, <1>5 DEF Nanos

\* of times that differ by a second, the first is at least a second's nanoseconds shorter
LEMMA NanosMonotone ==
  ASSUME NEW a \in Int, NEW b \in Int, a < b, NEW x \in Int, NEW y \in Nat,
         x < MILLION * THOUSAND
  PROVE  Nanos(a, x) < Nanos(b, y)
<1> DEFINE k == MILLION * THOUSAND
<1>1. MILLION \in Nat \ {0} /\ THOUSAND \in Nat \ {0}
  BY SyscallAssumption
<1>2. k \in Nat /\ k > 0
  BY <1>1
<1>3. a * MILLION * THOUSAND = a * k /\ b * MILLION * THOUSAND = b * k
  BY <1>1
<1>4. a * k + k <= b * k
  <2> HIDE DEF k
  <2>1. (b - a) * k >= k
    BY <1>2
  <2>2. (b - a) * k = b * k - a * k
    BY <1>2
  <2>3. QED
    BY <1>2, <2>1, <2>2
<1>5. a * k \in Int /\ b * k \in Int
  BY <1>2
<1> DEFINE ak == a * k
           bk == b * k
<1>6. ak + x < bk + y
  <2>1. ak + k <= bk /\ ak \in Int /\ bk \in Int /\ x < k
    BY <1>4, <1>5
  <2> HIDE DEF ak, bk, k
  <2>2. QED
    BY <2>1, <1>2
<1>7. QED
  BY <1>3, <1>6 DEF Nanos

LEMMA NanosOrder ==
  ASSUME NEW a \in Int, NEW b \in Int, a <= b, NEW y \in Nat
  PROVE  Nanos(a, 0) <= Nanos(b, y)
<1>1. Nanos(a, 0) \in Int /\ Nanos(b, y) \in Int
  BY NanosInt
<1>2. MILLION \in Nat \ {0} /\ THOUSAND \in Nat \ {0}
  BY SyscallAssumption
<1>3. 0 < MILLION * THOUSAND
  BY <1>2
<1>4. CASE a < b
  <2>1. Nanos(a, 0) < Nanos(b, y)
    BY <1>3, <1>4, NanosMonotone
  <2>2. QED
    BY <1>1, <2>1
<1>5. CASE a = b
  <2>1. b * MILLION * THOUSAND \in Int
    BY <1>2
  <2>2. QED
    BY <1>5, <2>1 DEF Nanos
<1>6. QED
  BY <1>4, <1>5

LEMMA Seconds ==
  ASSUME NEW u \in Nat
  PROVE  /\ u \div MILLION \in Nat /\ (u % MILLION) \in 0 .. MILLION - 1
         /\ u = MILLION * (u \div MILLION) + (u % MILLION)
BY SyscallAssumption

\* A select's timeout is kept as it is, unless it is beyond the largest time_t.
LEMMA NormalisedKeeps ==
  ASSUME NEW tv, tv.sec \in Nat, tv.usec \in Nat,
         tv.usec \div MILLION <= TIME_MAX - tv.sec
  PROVE  /\ Normalised(tv).sec \in 0 .. TIME_MAX
         /\ \E rem \in 0 .. MILLION - 1 : Normalised(tv).nsec = rem * THOUSAND
         /\ Nanos(Normalised(tv).sec, Normalised(tv).nsec) = Nanos(tv.sec, tv.usec * THOUSAND)
<1> DEFINE q == tv.usec \div MILLION
           rem == tv.usec % MILLION
<1>1. q \in Nat /\ rem \in 0 .. MILLION - 1 /\ tv.usec = MILLION * q + rem
  BY Seconds
<1>2. TIME_MAX \in Nat
  BY SyscallAssumption
<1> HIDE DEF q, rem
<1>3. Normalised(tv).sec = tv.sec + q /\ Normalised(tv).nsec = rem * THOUSAND
  BY <1>1, <1>2 DEF Normalised, q, rem
<1>4. Nanos(tv.sec, tv.usec * THOUSAND) = Nanos(tv.sec + q, rem * THOUSAND)
  <2>1. tv.sec \in Int /\ q \in Int /\ rem \in Int
    BY <1>1
  <2>2. Nanos(tv.sec, (MILLION * q + rem) * THOUSAND) = Nanos(tv.sec + q, rem * THOUSAND)
    BY <2>1, NanosAdd
  <2>3. QED
    BY <1>1, <2>2
<1>5. tv.sec + q \in 0 .. TIME_MAX
  BY <1>1, <1>2 DEF q
<1>6. QED
  BY <1>1, <1>3, <1>4, <1>5

LEMMA NormalisedCaps ==
  ASSUME NEW tv, tv.sec \in Nat, tv.usec \in Nat,
         tv.usec \div MILLION > TIME_MAX - tv.sec
  PROVE  /\ Normalised(tv) = [sec |-> TIME_MAX, nsec |-> MILLION * THOUSAND - 1]
         /\ Nanos(TIME_MAX + 1, 0) <= Nanos(tv.sec, tv.usec * THOUSAND)
<1> DEFINE q == tv.usec \div MILLION
           rem == tv.usec % MILLION
<1>1. q \in Nat /\ rem \in 0 .. MILLION - 1 /\ tv.usec = MILLION * q + rem
  BY Seconds
<1>2. /\ TIME_MAX \in Nat /\ THOUSAND \in Nat \ {0} /\ MILLION \in Nat \ {0}
      /\ MILLION * THOUSAND > 0 /\ MILLION * THOUSAND \in Nat
  BY SyscallAssumption
<1> HIDE DEF q, rem
<1>3. Nanos(tv.sec, tv.usec * THOUSAND) = Nanos(tv.sec + q, rem * THOUSAND)
  <2>1. tv.sec \in Int /\ q \in Int /\ rem \in Int
    BY <1>1
  <2>2. Nanos(tv.sec, (MILLION * q + rem) * THOUSAND) = Nanos(tv.sec + q, rem * THOUSAND)
    BY <2>1, NanosAdd
  <2>3. QED
    BY <1>1, <2>2
<1>4. TIME_MAX + 1 <= tv.sec + q /\ rem * THOUSAND \in Nat
  BY <1>1, <1>2 DEF q
<1>5. Nanos(TIME_MAX + 1, 0) <= Nanos(tv.sec + q, rem * THOUSAND)
  <2> DEFINE a == TIME_MAX + 1
             b == tv.sec + q
             y == rem * THOUSAND
  <2>1. a \in Int /\ b \in Int /\ y \in Nat /\ a <= b
    BY <1>1, <1>2, <1>4
  <2> HIDE DEF a, b, y
  <2>2. Nanos(a, 0) <= Nanos(b, y)
    BY <2>1, NanosOrder
  <2>3. QED
    BY <2>2 DEF a, b, y
<1>6. Normalised(tv) = [sec |-> TIME_MAX, nsec |-> MILLION * THOUSAND - 1]
  BY DEF Normalised
<1>7. QED
  BY <1>3, <1>5, <1>6

LEMMA Quotient ==
  ASSUME NEW a \in Int, NEW b \in 0 .. THOUSAND - 1
  PROVE  (a * THOUSAND + b) \div THOUSAND = a
<1> DEFINE u == a * THOUSAND + b
           q == u \div THOUSAND
           c == u % THOUSAND
<1>1. THOUSAND \in Nat \ {0} /\ u \in Int
  BY SyscallAssumption
<1>2. q \in Int /\ c \in 0 .. THOUSAND - 1 /\ u = THOUSAND * q + c
  <2> HIDE DEF u
  <2>1. QED
    BY <1>1
<1>3. b - c = THOUSAND * q - a * THOUSAND
  <2> HIDE DEF q, c
  <2>1. THOUSAND * q \in Int /\ a * THOUSAND \in Int
    BY <1>1, <1>2
  <2>2. QED
    BY <1>1, <1>2, <2>1
<1> HIDE DEF q, c, u
<1>4. b - c = (q - a) * THOUSAND
  BY <1>1, <1>2, <1>3
<1>5. ASSUME q - a >= 1 PROVE FALSE
  <2>1. (q - a) * THOUSAND >= THOUSAND
    BY <1>1, <1>2, <1>5
  <2>2. QED
    BY <1>1, <1>2, <1>4, <2>1
<1>6. ASSUME q - a <= -1 PROVE FALSE
  <2>1. (q - a) * THOUSAND <= -THOUSAND
    BY <1>1, <1>2, <1>6
  <2>2. QED
    BY <1>1, <1>2, <1>4, <2>1
<1>7. q = a
  BY <1>2, <1>5, <1>6
<1>8. QED
  BY <1>7 DEF q, u

\* What a system call is given, if no seconds are cut off, is the normalised time or that
\* time in whole microseconds.
GivenTime(try, tv) ==
  LET t == Normalised(tv)
  IN  /\ try.timeout.sec = t.sec
      /\ try.timeout.nsec = t.nsec \/ try.timeout.nsec = (t.nsec \div THOUSAND) * THOUSAND

LEMMA PlanGives ==
  ASSUME NEW build, NEW tv, tv.sec \in Nat, tv.usec \in Nat, tv # NoTimeout,
         NEW j \in DOMAIN musl_select(build, tv),
         \/ build.long64
         \/ musl_select(build, tv)[j].nr = "pselect6_time64"
         \/ Normalised(tv).sec \in 0 .. INT32_MAX
  PROVE  GivenTime(musl_select(build, tv)[j], tv)
<1> DEFINE t    == Normalised(tv)
           long == AsLong(build, t.sec)
           to(s, ns) == IF tv = NoTimeout THEN NoTimeout ELSE [sec |-> s, nsec |-> ns]
           wide == Try("pselect6_time64", to(t.sec, t.nsec))
           last == IF build.select THEN Try("select", to(long, (t.nsec \div THOUSAND) * THOUSAND))
                   ELSE Try("pselect6", to(long, t.nsec))
           try  == musl_select(build, tv)[j]
<1>1. try \in {wide, last}
  <2>1. \/ musl_select(build, tv) = <<wide>> \/ musl_select(build, tv) = <<last>>
        \/ musl_select(build, tv) = <<wide, last>>
    BY DEF musl_select
  <2> HIDE DEF wide, last
  <2>2. QED
    BY <2>1
<1>2. CASE try = wide
  <2>1. wide.timeout = [sec |-> t.sec, nsec |-> t.nsec]
    BY DEF Try
  <2>2. try.timeout.sec = t.sec /\ try.timeout.nsec = t.nsec
    BY <1>2, <2>1
  <2>3. QED
    BY <2>2 DEF GivenTime
<1>3. CASE try = last
  <2>1. last.nr # "pselect6_time64"
    BY DEF Try
  <2>2. build.long64 \/ t.sec \in 0 .. INT32_MAX
    BY <1>3, <2>1
  <2>3. long = t.sec
    <3>1. CASE build.long64
      BY <3>1 DEF AsLong
    <3>2. CASE ~build.long64
      <4> DEFINE s == t.sec
      <4>1. s \in 0 .. INT32_MAX /\ INT32_MAX \in Nat
        BY <2>2, <3>2, SyscallAssumption
      <4> HIDE DEF s
      <4>2. s % (2 * (INT32_MAX + 1)) = s
        BY <4>1
      <4>3. AsLong(build, s) = s
        BY <3>2, <4>1, <4>2 DEF AsLong
      <4>4. QED
        BY <4>3 DEF s
    <3>3. QED
      BY <3>1, <3>2
  <2> HIDE DEF long
  <2>4. last.timeout.sec = t.sec /\ last.timeout.nsec \in {t.nsec, (t.nsec \div THOUSAND) * THOUSAND}
    <3> DEFINE ns == (t.nsec \div THOUSAND) * THOUSAND
    <3>1. CASE build.select
      <4>1. last.timeout = [sec |-> long, nsec |-> ns]
        BY <3>1 DEF Try
      <4>2. QED
        BY <2>3, <4>1
    <3>2. CASE ~build.select
      <4>1. last.timeout = [sec |-> long, nsec |-> t.nsec]
        BY <3>2 DEF Try
      <4>2. QED
        BY <2>3, <4>1
    <3>3. QED
      BY <3>1, <3>2
  <2> HIDE DEF last, try
  <2>5. QED
    BY <1>3, <2>4 DEF GivenTime, try
<1>4. QED
  BY <1>1, <1>2, <1>3

\* What one system call waits, when it is given the normalised time.
WaitsLongEnough(fn, tv, to) ==
  LET waits == Nanos(to.sec, to.nsec)
  IN  IF fn = "select" /\ Asked(fn, tv) < Longest
      THEN waits = Asked(fn, tv)
      ELSE waits >= Asked(fn, tv) \/ waits >= Longest

LEMMA GivenKeeps ==
  ASSUME NEW fn \in SelectFns, NEW tv, tv.sec \in Nat, tv.usec \in Nat,
         tv.usec \div MILLION <= TIME_MAX - tv.sec, NEW try, GivenTime(try, tv)
  PROVE  WaitsLongEnough(fn, tv, try.timeout)
<1> DEFINE t == Normalised(tv)
<1>1. PICK rem \in 0 .. MILLION - 1 : t.nsec = rem * THOUSAND
  BY NormalisedKeeps
<1>2. THOUSAND \in Nat \ {0} /\ MILLION \in Nat \ {0} /\ 0 \in 0 .. THOUSAND - 1
  BY SyscallAssumption
<1>3. t.nsec \div THOUSAND = rem
  <2>1. rem \in Int /\ rem * THOUSAND \in Int
    BY <1>1, <1>2
  <2>2. (rem * THOUSAND + 0) \div THOUSAND = rem
    BY <1>2, <2>1, Quotient
  <2>3. QED
    BY <1>1, <2>1, <2>2
<1>4. try.timeout.sec = t.sec /\ try.timeout.nsec = t.nsec
  BY <1>1, <1>3 DEF GivenTime
<1>5. Nanos(try.timeout.sec, try.timeout.nsec) = Nanos(tv.sec, tv.usec * THOUSAND)
  BY <1>4, NormalisedKeeps
<1>6. /\ tv.usec * THOUSAND \in Int /\ tv.usec \in Int /\ tv.sec * MILLION * THOUSAND \in Int
      /\ tv.usec <= tv.usec * THOUSAND
  <2>1. tv.sec * MILLION \in Int
    BY <1>2
  <2>2. tv.sec * MILLION * THOUSAND \in Int
    BY <1>2, <2>1
  <2>3. tv.usec * THOUSAND = tv.usec + tv.usec * (THOUSAND - 1) /\ tv.usec * (THOUSAND - 1) \in Nat
    BY <1>2
  <2>4. QED
    BY <1>2, <2>2, <2>3
<1>7. Nanos(tv.sec, tv.usec) <= Nanos(tv.sec, tv.usec * THOUSAND)
  BY <1>6 DEF Nanos
<1>8. Nanos(tv.sec, tv.usec * THOUSAND) >= Nanos(tv.sec, tv.usec * THOUSAND)
  BY <1>6 DEF Nanos
<1>9. CASE fn = "select"
  BY <1>5, <1>8, <1>9 DEF WaitsLongEnough, Asked
<1>10. CASE fn # "select"
  <2>1. Nanos(tv.sec, tv.usec * THOUSAND) >= Nanos(tv.sec, tv.usec)
    BY <1>6, <1>7 DEF Nanos
  <2>2. QED
    BY <1>5, <1>10, <2>1 DEF WaitsLongEnough, Asked
<1>11. QED
  BY <1>9, <1>10

LEMMA GivenCaps ==
  ASSUME NEW fn \in SelectFns, NEW tv, tv.sec \in Nat, tv.usec \in Nat,
         tv.usec \div MILLION > TIME_MAX - tv.sec, NEW try, GivenTime(try, tv)
  PROVE  WaitsLongEnough(fn, tv, try.timeout)
<1> DEFINE k == MILLION * THOUSAND
           n == (MILLION - 1) * THOUSAND
<1>1. /\ THOUSAND \in Nat \ {0} /\ MILLION \in Nat \ {0} /\ TIME_MAX \in Nat
  BY SyscallAssumption
<1>2. k \in Nat /\ n \in Nat /\ n < k /\ n <= k - 1 /\ k - 1 = n + (THOUSAND - 1)
  <2>1. k = n + THOUSAND /\ n \in Nat
    BY <1>1
  <2>2. QED
    BY <1>1, <2>1
<1>3. ((k - 1) \div THOUSAND) * THOUSAND = n
  <2>1. MILLION - 1 \in Int /\ THOUSAND - 1 \in 0 .. THOUSAND - 1
    BY <1>1
  <2>2. ((MILLION - 1) * THOUSAND + (THOUSAND - 1)) \div THOUSAND = MILLION - 1
    BY <2>1, Quotient
  <2>3. QED
    BY <1>2, <2>2
<1>4. /\ Normalised(tv) = [sec |-> TIME_MAX, nsec |-> k - 1]
      /\ Nanos(TIME_MAX + 1, 0) <= Nanos(tv.sec, tv.usec * THOUSAND)
  BY NormalisedCaps
<1> HIDE DEF k, n
<1>5. try.timeout.sec = TIME_MAX /\ try.timeout.nsec \in {k - 1, n}
  BY <1>3, <1>4 DEF GivenTime
<1>6. TIME_MAX * MILLION * THOUSAND \in Int
  <2>1. TIME_MAX * MILLION \in Int
    BY <1>1
  <2>2. QED
    BY <1>1, <2>1
<1>7. Nanos(try.timeout.sec, try.timeout.nsec) >= Longest
  <2>1. Longest = TIME_MAX * MILLION * THOUSAND + n
    BY DEF Longest, Nanos, n
  <2>2. Nanos(try.timeout.sec, try.timeout.nsec) = TIME_MAX * MILLION * THOUSAND + try.timeout.nsec
    BY <1>5 DEF Nanos
  <2>3. QED
    BY <1>2, <1>5, <1>6, <2>1, <2>2
<1>8. ~(fn = "select" /\ Asked(fn, tv) < Longest)
  <2> SUFFICES ASSUME fn = "select", Asked(fn, tv) < Longest PROVE FALSE
    OBVIOUS
  <2> DEFINE u == tv.usec * THOUSAND
             a == TIME_MAX + 1
  <2>1. Asked(fn, tv) = Nanos(tv.sec, u) /\ u \in Int /\ a \in Int /\ TIME_MAX < a /\ tv.sec \in Int
    BY <1>1 DEF Asked
  <2> HIDE DEF u, a
  <2>2. Nanos(TIME_MAX, n) < Nanos(a, 0)
    <3>1. TIME_MAX \in Int /\ n \in Int /\ n < MILLION * THOUSAND /\ 0 \in Nat
      BY <1>1, <1>2 DEF k
    <3>2. QED
      BY <2>1, <3>1, NanosMonotone
  <2>3. Nanos(TIME_MAX, n) = Longest
    BY DEF Longest, n
  <2>4. Nanos(a, 0) <= Nanos(tv.sec, u)
    BY <1>4 DEF a, u
  <2>5. Nanos(a, 0) \in Int /\ Nanos(tv.sec, u) \in Int /\ Nanos(TIME_MAX, n) \in Int
    <3>1. Nanos(a, 0) \in Int
      BY <2>1, NanosInt
    <3>2. Nanos(tv.sec, u) \in Int
      BY <2>1, NanosInt
    <3>3. Nanos(TIME_MAX, n) \in Int
      BY <1>1, <1>2, NanosInt
    <3>4. QED
      BY <3>1, <3>2, <3>3
  <2>6. QED
    BY <2>1, <2>2, <2>3, <2>4, <2>5
<1>9. QED
  BY <1>7, <1>8 DEF WaitsLongEnough

\* The system calls of a select that is left to the kernel are those of musl_select for
\* the application's timeout, and what was carried out is one of them.
WaitInv ==
  /\ pc \notin {"trap", "done"} => trap.served = <<>>
  /\ trap.plan # <<>> /\ call.fn \in SelectFns =>
       /\ trap.plan = musl_select(trap.build, call.tv)
       /\ call.tv.sec \in Nat /\ call.tv.usec \in Nat
  /\ \A k \in DOMAIN trap.served :
       \E j \in DOMAIN trap.plan : trap.served[k].try = trap.plan[j]

LEMMA WaitInductive == WaitInv /\ TrapInv /\ [Next]_vars => WaitInv'
<1> SUFFICES ASSUME WaitInv, TrapInv, [Next]_vars PROVE WaitInv'
  OBVIOUS
<1> USE DEF PollFns, SelectFns, EpollFns
<1>k. ASSUME UNCHANGED trap, trap.plan = <<>>, trap.served = <<>> PROVE WaitInv'
  BY <1>k DEF WaitInv
<1>1. CASE NextCall
  BY <1>1 DEF NextCall, NoTrap, WaitInv
<1>2. CASE PollCall \/ SelectCall \/ EpollWaitCall
  BY <1>2, <1>k DEF PollCall, SelectCall, EpollWaitCall, Begin, back, TrapInv, WaitInv
<1>3. CASE SocketCall \/ PollOrEpollToKernel
  <2>1. call'.fn \notin SelectFns
    <3>1. CASE SocketCall
      <4>1. call' = [fn |-> "socketcall"]
        BY <3>1 DEF SocketCall
      <4>2. QED
        BY <4>1
    <3>2. CASE PollOrEpollToKernel
      BY <3>2 DEF PollOrEpollToKernel
    <3>3. QED
      BY <1>3, <3>1, <3>2
  <2>3. \E b, plan : trap' = Traps(b, plan)
    BY <1>3 DEF SocketCall, PollOrEpollToKernel, Leave
  <2>4. trap'.served = <<>>
    BY <2>3 DEF Traps
  <2>5. QED
    BY <2>1, <2>4 DEF WaitInv
<1>4. CASE PollScan \/ SelectCheck \/ SelectScan \/ EpollScan \/ Scanned
  BY <1>4, <1>k DEF PollScan, SelectCheck, SelectScan, EpollScan, Scanned, Tested, back, TrapInv, WaitInv
<1>5. CASE Arm \/ TryWait \/ SemWait \/ SemWaitInterrupted \/ GiveUp \/ EpollReport
           \/ ReturnFound \/ epoll_pwait2_unsupported
  BY <1>5, <1>k DEF Arm, TryWait, SemWait, SemWaitInterrupted, GiveUp, EpollReport, Took, Tested,
                    ReturnFound, epoll_pwait2_unsupported, back, TrapInv, WaitInv
<1>6. CASE SelectToKernel
  <2>1. PICK tv \in Timeouts :
          /\ call' = WithTimeout(call, tv)
          /\ \/ UNCHANGED trap
             \/ /\ tv.sec >= 0 /\ tv.usec >= 0
                /\ \E b \in Builds : trap' = Traps(b, musl_select(b, tv))
    BY <1>6 DEF SelectToKernel, Leave
  <2>2. trap.plan = <<>> /\ trap.served = <<>>
    BY <1>6 DEF SelectToKernel, TrapInv, WaitInv
  <2>3. CASE UNCHANGED trap
    BY <1>k, <2>2, <2>3
  <2>4. ASSUME NEW b \in Builds, tv.sec >= 0, tv.usec >= 0, trap' = Traps(b, musl_select(b, tv))
        PROVE  WaitInv'
    <3>1. trap'.plan = musl_select(b, tv) /\ trap'.build = b /\ trap'.served = <<>>
      BY <2>4 DEF Traps
    <3>2. call'.tv = tv
      BY <2>1 DEF WithTimeout
    <3>3. tv.sec \in Nat /\ tv.usec \in Nat
      BY <2>4, MultiplexAssumption
    <3>4. QED
      BY <3>1, <3>2, <3>3 DEF WaitInv
  <2>5. QED
    BY <2>1, <2>3, <2>4
<1>7. CASE Trap
  <2> DEFINE try == trap.plan[trap.next]
  <2>1. IsPlan(trap.plan) /\ trap.next \in DOMAIN trap.plan /\ trap.served = <<>> /\ call' = call
    BY <1>7 DEF Trap, TrapInv
  <2>6. PICK v, next, this :
          /\ trap' = [plan |-> trap.plan, build |-> trap.build, next |-> next,
                      served |-> trap.served \o this]
          /\ this = <<>> \/ this = <<[try |-> try, v |-> v]>>
    <3>1. \E v : LET ret  == syscall(trap.build.arch, v)
                     more == ret = -ENOSYS /\ trap.next < Len(trap.plan)
                     this == IF try.nr \in trap.build.kernel THEN <<[try |-> try, v |-> v]>> ELSE <<>>
                 IN  trap' = [plan |-> trap.plan, build |-> trap.build,
                              next |-> IF more THEN trap.next + 1 ELSE trap.next,
                              served |-> trap.served \o this]
      BY <1>7 DEF Trap
    <3> HIDE DEF try
    <3>2. QED
      BY <3>1
  <2>2. /\ trap'.plan = trap.plan /\ trap'.build = trap.build
        /\ trap'.served = <<>> \o <<>> \/ trap'.served = <<>> \o <<[try |-> try, v |-> v]>>
    BY <2>1, <2>6
  <2>3. trap'.served = <<>> \/ trap'.served = <<[try |-> try, v |-> v]>>
    <3> DEFINE e == [try |-> try, v |-> v]
    <3>1. trap'.served = <<>> \o <<>> \/ trap'.served = <<>> \o <<e>>
      BY <2>2
    <3> HIDE DEF e
    <3>2. <<>> \in Seq({e}) /\ <<e>> \in Seq({e})
      OBVIOUS
    <3>3. <<>> \o <<>> = <<>> /\ <<>> \o <<e>> = <<e>>
      BY <3>2, ConcatEmptySeq
    <3>4. QED
      BY <3>1, <3>3 DEF e
  <2>4. \A k \in DOMAIN trap'.served : trap'.served[k].try = trap.plan[trap.next]
    BY <2>3
  <2>5. QED
    BY <1>7, <2>1, <2>2, <2>4 DEF WaitInv, Trap
<1>8. CASE OtherThreads
  <2>1. UNCHANGED <<pc, call, trap>>
    BY <1>8 DEF OtherThreads, back
  <2>2. QED
    BY <2>1 DEF WaitInv
<1>9. CASE UNCHANGED vars
  <2>1. UNCHANGED <<pc, call, trap>>
    BY <1>9 DEF vars, back
  <2>2. QED
    BY <2>1 DEF WaitInv
<1>10. QED
  BY <1>1, <1>2, <1>3, <1>4, <1>5, <1>6, <1>7, <1>8, <1>9 DEF Next, Step

\* Whatever the units, the widths of a long and of time_t and the kernel's system calls,
\* select waits as long as it was asked to, pselect no shorter (src/select.c:71-110).
THEOREM SelectWaitsAsAsked == Spec => []WaitsAsAsked
<1>1. Init => WaitInv /\ TrapInv
  BY DEF Init, NoTrap, WaitInv, TrapInv, CarriedOutOnce
<1>2. WaitInv => WaitsAsAsked
  <2> SUFFICES ASSUME WaitInv, NEW k \in DOMAIN trap.served, call.fn \in SelectFns,
                      call.tv # NoTimeout,
                      \/ trap.build.long64 \/ trap.served[k].try.nr = "pselect6_time64"
                      \/ Nanos(call.tv.sec, call.tv.usec * THOUSAND) < Nanos(INT32_MAX + 1, 0)
               PROVE  WaitsLongEnough(call.fn, call.tv, trap.served[k].try.timeout)
    BY DEF WaitsAsAsked, WaitsLongEnough
  <2> DEFINE tv == call.tv
  <2>1. PICK j \in DOMAIN trap.plan : trap.served[k].try = trap.plan[j]
    BY DEF WaitInv
  <2>2. /\ trap.plan = musl_select(trap.build, tv) /\ tv.sec \in Nat /\ tv.usec \in Nat
    BY <2>1 DEF WaitInv
  <2>3. /\ INT32_MAX \in Nat /\ TIME_MAX \in Nat /\ INT32_MAX <= TIME_MAX /\ THOUSAND \in Nat
    BY SyscallAssumption
  <2>7. tv.usec * THOUSAND \in Int /\ tv.usec \div MILLION \in Int
    BY <2>2, <2>3, Seconds
  <2> DEFINE short == Nanos(tv.sec, tv.usec * THOUSAND) < Nanos(INT32_MAX + 1, 0)
  <2>4. CASE tv.usec \div MILLION <= TIME_MAX - tv.sec
    <3>1. ASSUME short PROVE Normalised(tv).sec \in 0 .. INT32_MAX
      <4> DEFINE s == Normalised(tv).sec
                 n == Normalised(tv).nsec
                 m == INT32_MAX + 1
      <4>1. /\ s \in Nat /\ m \in Int
            /\ Nanos(s, n) = Nanos(tv.sec, tv.usec * THOUSAND)
            /\ \E rem \in 0 .. MILLION - 1 : n = rem * THOUSAND
        BY <2>2, <2>3, <2>4, <2>7, NormalisedKeeps
      <4>2. n \in Nat
        BY <2>3, <4>1, SyscallAssumption
      <4>3. Nanos(s, n) < Nanos(m, 0)
        BY <3>1, <4>1
      <4> HIDE DEF s, n, m
      <4>4. Nanos(s, n) \in Int /\ Nanos(m, 0) \in Int
        BY <4>1, <4>2, NanosInt
      <4>5. ~(m <= s)
        BY <4>1, <4>2, <4>3, <4>4, NanosOrder
      <4>6. QED
        BY <2>3, <4>1, <4>5 DEF m, s
    <3>2. GivenTime(trap.plan[j], tv)
      BY <2>1, <2>2, <3>1, PlanGives
    <3>3. QED
      BY <2>1, <2>2, <2>4, <3>2, GivenKeeps
  <2>5. CASE tv.usec \div MILLION > TIME_MAX - tv.sec
    <3>1. ~short
      <4> DEFINE m == INT32_MAX + 1
                 a == TIME_MAX + 1
                 u == tv.usec * THOUSAND
                 s == tv.sec
      <4>1. m \in Int /\ a \in Int /\ m <= a /\ u \in Int /\ s \in Int
        BY <2>2, <2>3, <2>7
      <4>2. Nanos(a, 0) <= Nanos(s, u)
        BY <2>2, <2>5, NormalisedCaps
      <4> HIDE DEF m, a, u, s
      <4>3. Nanos(m, 0) <= Nanos(a, 0)
        BY <4>1, NanosOrder
      <4>4. Nanos(m, 0) \in Int /\ Nanos(a, 0) \in Int /\ Nanos(s, u) \in Int
        <5>1. Nanos(m, 0) \in Int
          BY <4>1, NanosInt
        <5>2. Nanos(a, 0) \in Int
          BY <4>1, NanosInt
        <5>3. Nanos(s, u) \in Int
          BY <4>1, NanosInt
        <5>4. QED
          BY <5>1, <5>2, <5>3
      <4>5. ~(Nanos(s, u) < Nanos(m, 0))
        BY <4>2, <4>3, <4>4
      <4>6. QED
        BY <4>5 DEF m, s, u
    <3>2. GivenTime(trap.plan[j], tv)
      BY <2>1, <2>2, <3>1, PlanGives
    <3>3. QED
      BY <2>1, <2>2, <2>5, <3>2, GivenCaps
  <2>6. QED
    BY <2>2, <2>3, <2>4, <2>5, <2>7
<1>3. QED
  BY <1>1, <1>2, WaitInductive, TrapInductive, PTL DEF Spec
-----------------------------------------------------------------------------
(* Every local stays within the array it indexes.                            *)

IsArray(a) ==
  /\ a \in [DOMAIN a -> [fd : Int, events : SUBSET Events, revents : SUBSET Events]]
  /\ IsFiniteSet(DOMAIN a)
  /\ \A k \in DOMAIN a : k \in Nat /\ 0 .. k \subseteq DOMAIN a

\* the functions of a call that libdesock may answer itself
CallFns == PollFns \cup SelectFns \cup EpollFns

LibOK ==
  /\ sem \in 0 .. MaxToken /\ accept_block \in {0, 1}
  /\ fd_table \in Table /\ max_fd \in 0 .. FD_TABLE_SIZE
  /\ took \in {"no", "token", "signal"} /\ touched \subseteq TableFds

LocalsOK ==
  /\ i \in Nat /\ r \in Nat /\ server_sock \in Int
  /\ IsArray(fds) /\ ev \in Seq(Fds) /\ rfds \cup wfds \cup efds \subseteq Nat
  /\ pc = "idle" => i = 0 /\ r = 0 /\ server_sock = -1 /\ fds = <<>> /\ ev = <<>>
  /\ call.fn \in PollFns =>
       server_sock \in (DOMAIN fds) \cup {-1} /\ r <= i /\ 0 .. i - 1 \subseteq DOMAIN fds
  /\ call.fn \in SelectFns => call.n \in Nat
  /\ call.fn \in EpollFns =>
       /\ call.cnt \in Nat \ {0} /\ server_sock \in TableFds \cup {-1}
       /\ r = Len(ev) /\ r <= call.cnt

\* what a place in the code says of the call
PlaceOK ==
  /\ pc \in {"idle", "done", "check", "scan", "arm", "try", "sem_wait", "give_up", "report",
             "return", "trap"}
  /\ pc \in {"scan", "arm", "try", "sem_wait", "give_up", "report", "return"} =>
       call.fn \in CallFns
  /\ pc = "check" => call.fn \in SelectFns
  /\ pc \in {"arm", "try", "sem_wait", "give_up", "report"} =>
       server_sock > -1 /\ (call.fn \in EpollFns => r < call.cnt)
  /\ pc = "give_up" => ~SleepsAt(r)
  /\ pc = "report" => call.fn \in EpollFns

TypeInv == LibOK /\ LocalsOK /\ PlaceOK /\ trap.next \in 1 .. Len(trap.plan) + 1

\* The updates of the table keep its type.
LEMMA TableUpdates ==
  ASSUME NEW table \in Table, NEW f \in TableFds, NEW fs
  PROVE  /\ [table EXCEPT ![f] = clear_fd_table_entry(@)] \in Table
         /\ [table EXCEPT ![f].epfd = -1] \in Table
         /\ \A l \in TableFds : [clone_fd_table_entry(table, f, l) EXCEPT ![f].listening = 0] \in Table
         /\ disarm_oneshot(table, fs) \in Table
<1>1. \A g \in TableFds : table[g] \in Entry
  BY DEF Table
<1>2. ASSUME NEW e \in Entry
      PROVE  /\ clear_fd_table_entry(e) \in Entry /\ [e EXCEPT !.epfd = -1] \in Entry
             /\ [e EXCEPT !.listening = 0] \in Entry
  BY DEF clear_fd_table_entry, Entry, Domains
<1>3. [table EXCEPT ![f] = clear_fd_table_entry(@)] \in Table
  BY <1>1, <1>2 DEF Table
<1>4. [table EXCEPT ![f].epfd = -1] \in Table
  BY <1>1, <1>2 DEF Table
<1>5. ASSUME NEW l \in TableFds
      PROVE  [clone_fd_table_entry(table, f, l) EXCEPT ![f].listening = 0] \in Table
  <2> DEFINE t == [table EXCEPT ![f] = table[l]]
  <2>1. t \in Table /\ t[f] = table[l]
    BY <1>1 DEF Table
  <2>2. [t EXCEPT ![f].listening = 0] = [t EXCEPT ![f] = [table[l] EXCEPT !.listening = 0]]
    BY <2>1 DEF Table
  <2>3. [t EXCEPT ![f].listening = 0] \in Table
    BY <1>1, <1>2, <2>1, <2>2 DEF Table
  <2>4. QED
    BY <2>3 DEF clone_fd_table_entry
<1>6. disarm_oneshot(table, fs) \in Table
  BY <1>1, <1>2 DEF disarm_oneshot, Table
<1>7. QED
  BY <1>3, <1>4, <1>5, <1>6

LEMMA LibStep == LibOK /\ LocalsOK /\ PlaceOK /\ [Next]_vars => LibOK'
<1> SUFFICES ASSUME LibOK, LocalsOK, PlaceOK, [Next]_vars PROVE LibOK'
  OBVIOUS
<1>k. ASSUME UNCHANGED <<fd_table, max_fd, touched>> PROVE fd_table' \in Table
        /\ max_fd' \in 0 .. FD_TABLE_SIZE /\ touched' \subseteq TableFds
  BY <1>k DEF LibOK
<1>1. CASE NextCall
  BY <1>1 DEF NextCall, LibOK, lib
<1>2. CASE PollCall \/ SelectCall \/ EpollWaitCall \/ SocketCall
  BY <1>2 DEF PollCall, SelectCall, EpollWaitCall, SocketCall, Begin, LibOK, lib, hist
<1>3. CASE PollScan \/ SelectCheck \/ SelectScan \/ Scanned
  BY <1>3 DEF PollScan, SelectCheck, SelectScan, Scanned, Tested, LibOK, lib, hist
<1>4. CASE EpollScan
  <2>1. /\ fd_table' = fd_table \/ fd_table' = disarm_oneshot(fd_table, {i})
        /\ UNCHANGED <<sem, accept_block, max_fd, touched, took>>
    BY <1>4 DEF EpollScan, hist
  <2>2. 0 \in TableFds
    BY FdTableAssumption DEF TableFds
  <2>3. QED
    BY <2>1, <2>2, TableUpdates DEF LibOK
<1>5. CASE Arm \/ GiveUp
  BY <1>5 DEF Arm, GiveUp, LibOK, hist
<1>6. CASE TryWait \/ SemWait \/ SemWaitInterrupted
  <2>1. /\ UNCHANGED <<accept_block, fd_table, max_fd, touched>> /\ took' \in {took, "token", "signal"}
        /\ sem' = sem \/ (sem > 0 /\ sem' = sem - 1)
    BY <1>6 DEF TryWait, SemWait, SemWaitInterrupted, Took, Tested, lib, hist
  <2>2. QED
    BY <2>1, MultiplexAssumption DEF LibOK
<1>7. CASE EpollReport
  <2>1. /\ fd_table' = disarm_oneshot(fd_table, {server_sock})
        /\ UNCHANGED <<sem, accept_block, max_fd, touched, took>>
    BY <1>7 DEF EpollReport, hist
  <2>2. 0 \in TableFds
    BY FdTableAssumption DEF TableFds
  <2>3. QED
    BY <2>1, <2>2, TableUpdates DEF LibOK
<1>8. CASE ReturnFound \/ epoll_pwait2_unsupported \/ PollOrEpollToKernel \/ SelectToKernel \/ Trap
  BY <1>8 DEF ReturnFound, epoll_pwait2_unsupported, PollOrEpollToKernel, SelectToKernel, Leave, Trap,
              LibOK, lib, hist
<1>9. CASE OtherThreads
  <2>1. /\ UNCHANGED <<accept_block, took>>
        /\ sem' = sem \/ (sem > 0 /\ sem' = sem - 1) \/ (sem < MaxToken /\ sem' = sem + 1)
        /\ UNCHANGED <<fd_table, max_fd, touched>> \/ OtherWrites
    BY <1>9 DEF OtherThreads, OtherPosts, OtherTakes, OtherWrites
  <2>2. ASSUME OtherWrites
        PROVE  fd_table' \in Table /\ max_fd' \in 0 .. FD_TABLE_SIZE /\ touched' \subseteq TableFds
    <3>1. PICK f \in TableFds :
            /\ touched' = touched \cup {f}
            /\ \/ fd_table' = [fd_table EXCEPT ![f] = clear_fd_table_entry(@)]
               \/ fd_table' = [fd_table EXCEPT ![f].epfd = -1]
               \/ \E l \in TableFds : fd_table' = [clone_fd_table_entry(fd_table, f, l) EXCEPT ![f].listening = 0]
            /\ max_fd' \in {max_fd, f + 1}
      BY <2>2 DEF OtherWrites
    <3>2. fd_table' \in Table
      <4>1. fd_table \in Table
        BY DEF LibOK
      <4>2. /\ [fd_table EXCEPT ![f] = clear_fd_table_entry(@)] \in Table
            /\ [fd_table EXCEPT ![f].epfd = -1] \in Table
            /\ \A l \in TableFds :
                 [clone_fd_table_entry(fd_table, f, l) EXCEPT ![f].listening = 0] \in Table
        BY <4>1, TableUpdates
      <4>3. QED
        BY <3>1, <4>2
    <3>3. f + 1 \in 0 .. FD_TABLE_SIZE
      BY FdTableAssumption DEF TableFds
    <3>4. QED
      BY <3>1, <3>2, <3>3 DEF LibOK
  <2>3. sem' \in 0 .. MaxToken
    BY <2>1, MultiplexAssumption DEF LibOK
  <2>4. QED
    BY <1>k, <2>1, <2>2, <2>3 DEF LibOK
<1>10. CASE UNCHANGED vars
  BY <1>10 DEF vars, lib, hist, LibOK
<1>11. QED
  BY <1>1, <1>2, <1>3, <1>4, <1>5, <1>6, <1>7, <1>8, <1>9, <1>10 DEF Next, Step

LEMMA EmptyArray == IsArray(<<>>)
<1>1. DOMAIN <<>> = {}
  OBVIOUS
<1>2. IsFiniteSet({})
  BY FS_EmptySet
<1>3. QED
  BY <1>1, <1>2 DEF IsArray

LEMMA GivenArray ==
  ASSUME NEW a \in Polls
  PROVE  IsArray(a)
BY MultiplexAssumption DEF IsArray

LEMMA ArrayKept ==
  ASSUME NEW a, IsArray(a), NEW k \in DOMAIN a, NEW s \in SUBSET Events
  PROVE  LET b == [a EXCEPT ![k].revents = s]
         IN  /\ IsArray(b) /\ DOMAIN b = DOMAIN a
             /\ b[k].revents = s /\ b[k].fd = a[k].fd /\ b[k].events = a[k].events
             /\ \A j \in (DOMAIN a) \ {k} : b[j] = a[j]
<1> DEFINE b == [a EXCEPT ![k].revents = s]
           T == [fd : Int, events : SUBSET Events, revents : SUBSET Events]
<1>1. a \in [DOMAIN a -> T] /\ a[k] \in T
  BY DEF IsArray
<1>2. DOMAIN b = DOMAIN a /\ b[k] = [a[k] EXCEPT !.revents = s] /\ \A j \in (DOMAIN a) \ {k} : b[j] = a[j]
  BY <1>1
<1>3. b[k] \in T /\ b[k].revents = s /\ b[k].fd = a[k].fd /\ b[k].events = a[k].events
  BY <1>1, <1>2
<1>4. b \in [DOMAIN b -> T]
  BY <1>1, <1>2, <1>3
<1>5. QED
  BY <1>2, <1>3, <1>4 DEF IsArray

\* Appending to the events filled in.
LEMMA EvAppend ==
  ASSUME ev \in Seq(Fds), NEW f \in TableFds, fd_table \in Table
  PROVE  /\ Append(ev, fd_table[f].data) \in Seq(Fds)
         /\ Len(Append(ev, fd_table[f].data)) = Len(ev) + 1
<1>1. fd_table[f].data \in Fds
  BY DEF Table, Entry
<1>2. QED
  BY <1>1

\* The loops.
LEMMA ScanTypes ==
  ASSUME TypeInv, PollScan \/ SelectScan \/ EpollScan \/ SelectCheck \/ Scanned
  PROVE  LocalsOK' /\ PlaceOK'
<1> USE DEF PollFns, SelectFns, EpollFns
<1>1. LocalsOK /\ PlaceOK /\ LibOK
  BY DEF TypeInv
<1>2. CASE PollScan
  <2> DEFINE new == fds[i].events \cap PollMask(fd_table, fds[i].fd)
  <2>1. /\ pc = "scan" /\ pc' = "scan" /\ call' = call /\ call.fn \in PollFns /\ i \in DOMAIN fds
        /\ fds' = [fds EXCEPT ![i].revents = new]
        /\ r' \in {r, r + 1} /\ server_sock' \in {i, server_sock} /\ i' = i + 1
        /\ UNCHANGED <<rfds, wfds, efds, ev>>
    BY <1>2 DEF PollScan, Tested
  <2>2. IsArray(fds) /\ new \in SUBSET Events /\ 0 .. i \subseteq DOMAIN fds
    <3>1. IsArray(fds)
      BY <1>1 DEF LocalsOK
    <3>2. QED
      BY <2>1, <3>1 DEF IsArray
  <2> HIDE DEF new
  <2>3. IsArray(fds') /\ DOMAIN fds' = DOMAIN fds
    BY <2>1, <2>2, ArrayKept
  <2>4. LocalsOK'
    BY <1>1, <2>1, <2>2, <2>3 DEF LocalsOK
  <2>5. PlaceOK'
    BY <1>1, <2>1 DEF PlaceOK
  <2>6. QED
    BY <2>4, <2>5
<1>3. CASE SelectScan
  <2>1. /\ pc = "scan" /\ pc' = "scan" /\ call' = call /\ call.fn \in SelectFns
        /\ rfds' \subseteq rfds /\ wfds' \subseteq wfds
        /\ r' \in {r, r + 1, r + 1 + 1} /\ server_sock' \in {i, server_sock} /\ i' = i + 1
        /\ UNCHANGED <<fds, efds, ev>>
    BY <1>1, <1>3 DEF SelectScan, Tested, LocalsOK
  <2>2. LocalsOK'
    BY <1>1, <2>1 DEF LocalsOK
  <2>3. PlaceOK'
    BY <1>1, <2>1 DEF PlaceOK
  <2>4. QED
    BY <2>2, <2>3
<1>4. CASE EpollScan
  <2>1. /\ pc = "scan" /\ pc' = "scan" /\ call' = call /\ call.fn \in EpollFns
        /\ i < max_fd /\ r < call.cnt /\ i' = i + 1 /\ server_sock' \in {i, server_sock}
        /\ \/ ev' = Append(ev, fd_table[i].data) /\ r' = r + 1
           \/ ev' = ev /\ r' = r
        /\ UNCHANGED <<fds, rfds, wfds, efds>>
    BY <1>4 DEF EpollScan, MoreEntries
  <2>2. i \in TableFds
    BY <1>1, <2>1, FdTableAssumption DEF LocalsOK, LibOK, TableFds
  <2>3. ev \in Seq(Fds) /\ fd_table \in Table
    BY <1>1 DEF LocalsOK, LibOK
  <2>4. /\ Append(ev, fd_table[i].data) \in Seq(Fds)
        /\ Len(Append(ev, fd_table[i].data)) = Len(ev) + 1
    BY <2>2, <2>3, EvAppend
  <2>5. LocalsOK'
    <3>1. /\ i' \in Nat /\ server_sock' \in TableFds \cup {-1} /\ server_sock' \in Int
          /\ r \in Nat /\ r = Len(ev) /\ call.cnt \in Nat \ {0}
          /\ IsArray(fds) /\ rfds \cup wfds \cup efds \subseteq Nat
      BY <1>1, <2>1, <2>2 DEF LocalsOK
    <3>2. ev' \in Seq(Fds) /\ r' = Len(ev') /\ r' \in Nat /\ r' <= call.cnt
      <4>1. CASE ev' = ev /\ r' = r
        BY <2>1, <2>3, <3>1, <4>1
      <4>2. CASE ev' = Append(ev, fd_table[i].data) /\ r' = r + 1
        <5>1. ev' \in Seq(Fds) /\ r' = Len(ev')
          BY <2>4, <3>1, <4>2
        <5>2. r \in Nat /\ call.cnt \in Nat /\ r < call.cnt
          BY <2>1, <3>1
        <5>3. QED
          BY <4>2, <5>1, <5>2
      <4>3. QED
        BY <2>1, <4>1, <4>2
    <3>3. pc' # "idle" /\ call'.fn \notin PollFns /\ call'.fn \notin SelectFns
      BY <2>1 DEF PollFns, SelectFns, EpollFns
    <3>4. QED
      BY <2>1, <3>1, <3>2, <3>3 DEF LocalsOK
  <2>6. PlaceOK'
    BY <1>1, <2>1 DEF PlaceOK
  <2>7. QED
    BY <2>5, <2>6
<1>5. CASE SelectCheck
  <2>1. /\ pc = "check" /\ pc' \in {"check", "scan"} /\ call' = call /\ i' \in {0, i + 1}
        /\ UNCHANGED <<r, server_sock, fds, rfds, wfds, efds, ev>>
    BY <1>5 DEF SelectCheck, Tested, out
  <2>2. call.fn \in SelectFns
    BY <1>1, <2>1 DEF PlaceOK
  <2>3. /\ call'.fn \notin PollFns /\ call'.fn \notin EpollFns /\ call'.n \in Nat /\ i' \in Nat
        /\ IsArray(fds') /\ pc' # "idle"
    BY <1>1, <2>1, <2>2 DEF LocalsOK
  <2>4. LocalsOK'
    BY <1>1, <2>1, <2>3 DEF LocalsOK
  <2>5. PlaceOK'
    BY <1>1, <2>1, <2>2 DEF PlaceOK, CallFns
  <2>6. QED
    BY <2>4, <2>5
<1>6. CASE Scanned
  <2>1. /\ pc = "scan" /\ call' = call /\ UNCHANGED <<locals, fds, rfds, wfds, ev>>
        /\ efds' \in {{}, efds}
        /\ \/ pc' = "arm" /\ server_sock > -1 /\ (call.fn \in EpollFns => r < call.cnt)
           \/ pc' = "return"
    BY <1>6 DEF Scanned, Tested
  <2>2. LocalsOK'
    BY <1>1, <2>1 DEF LocalsOK, locals
  <2>3. PlaceOK'
    BY <1>1, <2>1 DEF PlaceOK, CallFns, locals
  <2>4. QED
    BY <2>2, <2>3
<1>7. QED
  BY <1>2, <1>3, <1>4, <1>5, <1>6

\* The semaphore.
LEMMA SemTypes ==
  ASSUME TypeInv, Arm \/ TryWait \/ SemWait \/ SemWaitInterrupted \/ GiveUp \/ EpollReport
  PROVE  LocalsOK' /\ PlaceOK'
<1> USE DEF PollFns, SelectFns, EpollFns
<1>1. LocalsOK /\ PlaceOK /\ LibOK
  BY DEF TypeInv
<1>2. CASE Arm \/ TryWait \/ SemWait \/ SemWaitInterrupted
  <2>1. /\ UNCHANGED <<call, locals, out>> /\ pc \in {"arm", "try", "sem_wait"}
        /\ \/ pc' \in {"try", "sem_wait", "return"}
           \/ pc' = "give_up" /\ ~SleepsAt(r)
           \/ pc' = "report" /\ call.fn \in EpollFns
    BY <1>2 DEF Arm, TryWait, SemWait, SemWaitInterrupted, Took, Tested
  <2>2. LocalsOK'
    BY <1>1, <2>1 DEF LocalsOK, locals, out
  <2>3. PlaceOK'
    BY <1>1, <2>1 DEF PlaceOK, CallFns, SleepsAt, locals
  <2>4. QED
    BY <2>2, <2>3
<1>3. CASE GiveUp
  <2>1. /\ pc = "give_up" /\ pc' = "return" /\ UNCHANGED <<call, i, server_sock, ev>>
        /\ fds' = IF call.fn \in PollFns THEN [fds EXCEPT ![server_sock].revents = {}] ELSE fds
        /\ rfds' = IF call.fn \in SelectFns THEN rfds \ {server_sock} ELSE rfds
        /\ r' = IF call.fn \in EpollFns THEN r ELSE r - 1
        /\ UNCHANGED <<wfds, efds>>
    BY <1>3 DEF GiveUp
  <2>2. call.fn \in CallFns /\ ~SleepsAt(r) /\ server_sock > -1
    BY <1>1, <2>1 DEF PlaceOK
  <2>3. call.fn \notin EpollFns => r > 1
    BY <1>1, <2>2 DEF SleepsAt, LocalsOK
  <2>4. IsArray(fds') /\ DOMAIN fds' = DOMAIN fds
    <3>1. CASE call.fn \in PollFns
      <4>1. server_sock \in DOMAIN fds /\ IsArray(fds) /\ {} \in SUBSET Events
        BY <1>1, <2>2, <3>1 DEF LocalsOK
      <4>2. QED
        BY <2>1, <3>1, <4>1, ArrayKept
    <3>2. CASE call.fn \notin PollFns
      BY <1>1, <2>1, <3>2 DEF LocalsOK
    <3>3. QED
      BY <3>1, <3>2
  <2>5. r' \in Nat /\ r' <= r
    BY <1>1, <2>1, <2>3 DEF LocalsOK
  <2>6. LocalsOK'
    BY <1>1, <2>1, <2>4, <2>5 DEF LocalsOK
  <2>7. PlaceOK'
    BY <1>1, <2>1, <2>2 DEF PlaceOK, CallFns
  <2>8. QED
    BY <2>6, <2>7
<1>4. CASE EpollReport
  <2>1. /\ pc = "report" /\ pc' = "return" /\ UNCHANGED <<call, i, server_sock, fds, rfds, wfds, efds>>
        /\ ev' = Append(ev, fd_table[server_sock].data) /\ r' = r + 1
    BY <1>4 DEF EpollReport
  <2>2. call.fn \in EpollFns /\ server_sock > -1 /\ r < call.cnt
    BY <1>1, <2>1 DEF PlaceOK
  <2>3. server_sock \in TableFds /\ ev \in Seq(Fds) /\ fd_table \in Table /\ r = Len(ev)
    BY <1>1, <2>2 DEF LocalsOK, LibOK
  <2>4. /\ Append(ev, fd_table[server_sock].data) \in Seq(Fds)
        /\ Len(Append(ev, fd_table[server_sock].data)) = Len(ev) + 1
    BY <2>3, EvAppend
  <2>5. LocalsOK'
    BY <1>1, <2>1, <2>2, <2>3, <2>4 DEF LocalsOK
  <2>6. PlaceOK'
    BY <1>1, <2>1, <2>2 DEF PlaceOK, CallFns
  <2>7. QED
    BY <2>5, <2>6
<1>5. QED
  BY <1>2, <1>3, <1>4

\* The calls, and what they come back with.
LEMMA CallTypes ==
  ASSUME TypeInv, NextCall \/ PollCall \/ SelectCall \/ EpollWaitCall \/ SocketCall
  PROVE  LocalsOK' /\ PlaceOK'
<1> USE DEF PollFns, SelectFns, EpollFns
<1>1. LocalsOK /\ PlaceOK /\ LibOK
  BY DEF TypeInv
<1>2. CASE NextCall
  <2>1. /\ pc' = "idle" /\ i' = 0 /\ r' = 0 /\ server_sock' = -1 /\ fds' = <<>> /\ ev' = <<>>
        /\ rfds' = {} /\ wfds' = {} /\ efds' = {} /\ call'.fn = "none"
    BY <1>2 DEF NextCall, NoCall
  <2>2. IsArray(fds')
    BY <2>1, EmptyArray
  <2>3. LocalsOK'
    BY <2>1, <2>2 DEF LocalsOK
  <2>4. QED
    BY <2>1, <2>3 DEF PlaceOK
<1>3. CASE PollCall
  <2>1. PICK fn \in PollFns, a \in Polls :
          /\ Begin([fn |-> fn], "scan") /\ fds' = a /\ UNCHANGED <<rfds, wfds, efds>>
    BY <1>3 DEF PollCall
  <2>2. pc = "idle" /\ pc' = "scan" /\ call'.fn \in PollFns /\ UNCHANGED <<i, r, server_sock, ev>>
    BY <2>1 DEF Begin, locals
  <2>3. IsArray(fds')
    BY <2>1, GivenArray
  <2>4. LocalsOK'
    BY <1>1, <2>1, <2>2, <2>3 DEF LocalsOK
  <2>5. QED
    BY <2>2, <2>4 DEF PlaceOK, CallFns
<1>4. CASE SelectCall
  <2>1. PICK fn \in SelectFns, s \in Selects :
          /\ Begin([fn |-> fn, n |-> s.n, rfds |-> s.rfds, wfds |-> s.wfds, efds |-> s.efds,
                    left |-> FALSE, tv |-> NoTimeout], "check")
          /\ rfds' = s.rfds /\ wfds' = s.wfds /\ efds' = s.efds /\ UNCHANGED fds
    BY <1>4 DEF SelectCall
  <2>2. /\ pc = "idle" /\ pc' = "check" /\ call'.fn \in SelectFns /\ call'.n = s.n
        /\ UNCHANGED <<i, r, server_sock, fds, ev>>
    BY <2>1 DEF Begin, locals
  <2>3. call'.n \in Nat /\ rfds' \cup wfds' \cup efds' \subseteq Nat
    BY <2>1, <2>2, MultiplexAssumption
  <2>4. LocalsOK'
    BY <1>1, <2>2, <2>3 DEF LocalsOK
  <2>5. QED
    BY <2>2, <2>4 DEF PlaceOK, CallFns
<1>5. CASE EpollWaitCall
  <2>1. PICK fn \in EpollFns, ep \in Epolls, cnt \in EventSlots :
          /\ Begin([fn |-> fn, ep |-> ep, cnt |-> cnt], "scan")
          /\ UNCHANGED <<fds, rfds, wfds, efds>>
    BY <1>5 DEF EpollWaitCall
  <2>2. /\ pc = "idle" /\ pc' = "scan" /\ call'.fn \in EpollFns /\ call'.cnt = cnt
        /\ UNCHANGED <<i, r, server_sock, ev>>
    BY <2>1 DEF Begin, locals
  <2>3. call'.cnt \in Nat \ {0} /\ r' = 0 /\ ev' = <<>> /\ server_sock' = -1 /\ Len(<<>>) = 0
    BY <1>1, <2>2, MultiplexAssumption DEF LocalsOK
  <2>4. LocalsOK'
    BY <1>1, <2>1, <2>2, <2>3 DEF LocalsOK
  <2>5. QED
    BY <2>2, <2>4 DEF PlaceOK, CallFns
<1>6. CASE SocketCall
  <2>1. /\ pc = "idle" /\ pc' = "trap" /\ call' = [fn |-> "socketcall"]
        /\ UNCHANGED <<i, r, server_sock, fds, rfds, wfds, efds, ev>>
    BY <1>6 DEF SocketCall, locals, out
  <2>2. call'.fn = "socketcall"
    BY <2>1
  <2>3. LocalsOK'
    BY <1>1, <2>1, <2>2 DEF LocalsOK
  <2>4. QED
    BY <2>1, <2>3 DEF PlaceOK
<1>7. QED
  BY <1>2, <1>3, <1>4, <1>5, <1>6

LEMMA EndTypes ==
  ASSUME TypeInv,
         ReturnFound \/ epoll_pwait2_unsupported \/ PollOrEpollToKernel \/ SelectToKernel \/ Trap
  PROVE  LocalsOK' /\ PlaceOK'
<1>1. LocalsOK /\ PlaceOK /\ LibOK
  BY DEF TypeInv
<1>2. /\ pc' \in {"trap", "done"} /\ UNCHANGED <<i, r, server_sock, fds, rfds, wfds, efds, ev>>
      /\ call' = call \/ SelectToKernel
  BY DEF ReturnFound, epoll_pwait2_unsupported, PollOrEpollToKernel, SelectToKernel, Trap, Leave,
         locals, out
<1>3. /\ call'.fn = call.fn
      /\ call.fn \in SelectFns => call'.n = call.n
      /\ call.fn \in EpollFns => call' = call
  <2>1. CASE call' = call
    BY <2>1
  <2>2. CASE SelectToKernel
    <3>1. PICK tv : call' = WithTimeout(call, tv)
      BY <2>2 DEF SelectToKernel
    <3>2. call'.fn = call.fn /\ call'.n = call.n
      BY <3>1 DEF WithTimeout
    <3>3. call.fn \notin EpollFns
      BY <1>1, <2>2 DEF SelectToKernel, PlaceOK, SelectFns, EpollFns
    <3>4. QED
      BY <3>2, <3>3
  <2>3. QED
    BY <1>2, <2>1, <2>2
<1>4. LocalsOK'
  BY <1>1, <1>2, <1>3 DEF LocalsOK
<1>5. PlaceOK'
  BY <1>2 DEF PlaceOK
<1>6. QED
  BY <1>4, <1>5

LEMMA TrapTypes ==
  ASSUME TypeInv, TrapInv, [Next]_vars
  PROVE  trap'.next \in 1 .. Len(trap'.plan) + 1
<1>1. ASSUME NEW b, NEW plan, IsPlan(plan), trap' = Traps(b, plan) PROVE trap'.next \in 1 .. Len(trap'.plan) + 1
  <2>1. trap'.next = 1 /\ trap'.plan = plan /\ Len(plan) \in {1, 2}
    BY <1>1, PlanLength DEF Traps
  <2>2. QED
    BY <2>1
<1>2. CASE NextCall
  <2>1. trap'.next = 1 /\ trap'.plan = <<>> /\ Len(<<>>) = 0
    BY <1>2 DEF NextCall, NoTrap
  <2>2. QED
    BY <2>1
<1>3. CASE SocketCall
  BY <1>1, <1>3, SocketPlan DEF SocketCall
<1>4. CASE PollOrEpollToKernel
  <2>1. \E b, a : trap' = Traps(b, <<a>>)
    BY <1>4 DEF PollOrEpollToKernel, Leave
  <2>2. QED
    BY <1>1, <2>1 DEF IsPlan
<1>5. CASE SelectToKernel
  <2>1. UNCHANGED trap \/ \E b, tv : trap' = Traps(b, musl_select(b, tv))
    BY <1>5 DEF SelectToKernel, Leave
  <2>2. QED
    BY <1>1, <2>1, SelectPlan DEF TypeInv
<1>6. CASE Trap
  <2>1. trap.next \in 1 .. Len(trap.plan) /\ Len(trap.plan) \in {1, 2}
    BY <1>6, PlanLength DEF Trap, TrapInv
  <2>2. /\ trap'.plan = trap.plan
        /\ trap'.next = trap.next \/ (trap'.next = trap.next + 1 /\ trap.next < Len(trap.plan))
    BY <1>6 DEF Trap
  <2>3. QED
    BY <2>1, <2>2
<1>7. CASE ~(NextCall \/ SocketCall \/ PollOrEpollToKernel \/ SelectToKernel \/ Trap)
  <2>1. UNCHANGED trap
    BY <1>7 DEF Next, Step, PollCall, SelectCall, EpollWaitCall, Begin, PollScan, SelectCheck, SelectScan,
                EpollScan, Scanned, Arm, TryWait, SemWait, SemWaitInterrupted, Took, Tested, GiveUp,
                EpollReport, ReturnFound, epoll_pwait2_unsupported, OtherThreads, vars, back
  <2>2. QED
    BY <2>1 DEF TypeInv
<1>8. QED
  BY <1>2, <1>3, <1>4, <1>5, <1>6, <1>7

LEMMA TypeInductive == TypeInv /\ TrapInv /\ [Next]_vars => TypeInv'
<1> SUFFICES ASSUME TypeInv, TrapInv, [Next]_vars PROVE TypeInv'
  OBVIOUS
<1>1. LibOK'
  BY LibStep DEF TypeInv
<1>2. trap'.next \in 1 .. Len(trap'.plan) + 1
  BY TrapTypes
<1>3. LocalsOK' /\ PlaceOK'
  <2>1. ASSUME UNCHANGED <<pc, call, locals, out>> PROVE LocalsOK' /\ PlaceOK'
    <3>1. UNCHANGED <<pc, call, i, r, server_sock, fds, rfds, wfds, efds, ev>>
      BY <2>1 DEF locals, out
    <3>2. LocalsOK /\ PlaceOK
      BY DEF TypeInv
    <3>3. QED
      BY <3>1, <3>2 DEF LocalsOK, PlaceOK, SleepsAt
  <2>2. CASE OtherThreads
    BY <2>1, <2>2 DEF OtherThreads
  <2>3. CASE UNCHANGED vars
    BY <2>1, <2>3 DEF vars
  <2>4. QED
    BY <2>2, <2>3, CallTypes, ScanTypes, SemTypes, EndTypes DEF Next, Step
<1>4. QED
  BY <1>1, <1>2, <1>3 DEF TypeInv

LEMMA InitTypes == Init => TypeInv
<1> SUFFICES ASSUME Init PROVE TypeInv
  OBVIOUS
<1>1. LibOK
  BY MultiplexAssumption DEF Init, LibOK
<1>2. call.fn = "none"
  BY DEF Init, NoCall
<1>3. LocalsOK
  <2>1. IsArray(fds)
    BY EmptyArray DEF Init
  <2>2. QED
    BY <1>2, <2>1 DEF Init, LocalsOK, PollFns, SelectFns, EpollFns
<1>4. PlaceOK
  BY <1>2 DEF Init, PlaceOK
<1>5. trap.next = 1 /\ trap.plan = <<>> /\ Len(<<>>) = 0
  BY DEF Init, NoTrap
<1>6. QED
  BY <1>1, <1>3, <1>4, <1>5 DEF TypeInv

\* For every table, array, set and number of slots, do_poll writes to fds[server_sock] and
\* do_wait to ev[j] within their arrays, and the table keeps its type whatever other
\* threads do meanwhile (src/poll.c:13-46, src/epoll.c:43-95).
THEOREM MultiplexTypeCorrect == Spec => []TypeOK
<1>1. Init => TypeInv /\ TrapInv
  BY InitTypes DEF Init, NoTrap, TrapInv, CarriedOutOnce
<1>2. TypeInv => TypeOK
  <2> SUFFICES ASSUME TypeInv PROVE TypeOK
    OBVIOUS
  <2>1. LibOK /\ LocalsOK /\ PlaceOK
    BY DEF TypeInv
  <2>2. call.fn \in PollFns => r <= Cardinality(DOMAIN fds)
    <3> SUFFICES ASSUME call.fn \in PollFns PROVE r <= Cardinality(DOMAIN fds)
      OBVIOUS
    <3>1. r \in Nat /\ i \in Nat /\ r <= i /\ 0 .. i - 1 \subseteq DOMAIN fds /\ IsFiniteSet(DOMAIN fds)
      BY <2>1 DEF LocalsOK, IsArray
    <3>2. Cardinality(0 .. i - 1) = i
      <4>1. i - 1 \in Int
        BY <3>1
      <4>2. Cardinality(0 .. i - 1) = IF 0 > i - 1 THEN 0 ELSE i - 1 - 0 + 1
        BY <4>1, FS_Interval
      <4>3. QED
        BY <3>1, <4>2
    <3>3. Cardinality(0 .. i - 1) <= Cardinality(DOMAIN fds) /\ Cardinality(DOMAIN fds) \in Nat
      BY <3>1, FS_Subset, FS_CardinalityType
    <3>4. QED
      BY <3>1, <3>2, <3>3
  <2>3. \A k \in DOMAIN fds : fds[k].revents \subseteq Events
    BY <2>1 DEF LocalsOK, IsArray
  <2>4. QED
    BY <2>1, <2>2, <2>3 DEF TypeOK, TypeInv, LibOK, LocalsOK, PlaceOK
<1>3. QED
  BY <1>1, <1>2, TypeInductive, TrapInductive, PTL DEF Spec
-----------------------------------------------------------------------------
(* What a call reports.  While the loop runs, what it has found of an entry   *)
(* that others leave alone is what the entry said when the call began, and   *)
(* the number counted is the number of descriptors found, whatever others do. *)

Loop == pc \in {"scan", "arm", "try", "sem_wait", "give_up"}
Over == pc \in {"arm", "try", "sem_wait", "give_up", "report"}

Same == \A f \in TableFds \ touched : fd_table[f] = before[f]

HistInv ==
  /\ before \in Table
  /\ pc = "idle" => before = fd_table /\ touched = {}
  /\ call.fn \notin EpollFns => Same

LEMMA HistInductive == HistInv /\ TypeInv /\ [Next]_vars => HistInv'
<1> SUFFICES ASSUME HistInv, TypeInv, [Next]_vars PROVE HistInv'
  OBVIOUS
<1> USE DEF PollFns, SelectFns, EpollFns
<1>1. fd_table \in Table /\ touched \subseteq TableFds /\ LocalsOK /\ PlaceOK
  BY DEF TypeInv, LibOK
<1>2. ASSUME UNCHANGED <<fd_table, before, touched>>, pc' # "idle",
             pc = "idle" \/ call'.fn \in EpollFns \/ call.fn \notin EpollFns
      PROVE  HistInv'
  BY <1>2 DEF HistInv, Same
<1>3. CASE NextCall
  BY <1>1, <1>3 DEF NextCall, HistInv, Same, lib
<1>4. CASE PollCall \/ SelectCall \/ EpollWaitCall \/ SocketCall
  BY <1>2, <1>4 DEF PollCall, SelectCall, EpollWaitCall, SocketCall, Begin, lib, hist
<1>5. CASE PollScan \/ SelectCheck \/ SelectScan \/ Scanned \/ Arm \/ TryWait \/ SemWait
            \/ SemWaitInterrupted \/ GiveUp
  <2>1. UNCHANGED <<fd_table, before, touched, call>> /\ pc' # "idle"
    BY <1>5 DEF PollScan, SelectCheck, SelectScan, Scanned, Arm, TryWait, SemWait,
                SemWaitInterrupted, GiveUp, Tested, Took, lib, hist
  <2>2. QED
    BY <1>2, <2>1
<1>6. CASE EpollScan \/ EpollReport
  <2>1. call.fn \in EpollFns /\ call' = call /\ before' = before /\ pc' # "idle"
    BY <1>1, <1>6 DEF EpollScan, EpollReport, PlaceOK, hist
  <2>2. QED
    BY <2>1 DEF HistInv
<1>7. CASE ReturnFound \/ epoll_pwait2_unsupported \/ PollOrEpollToKernel \/ SelectToKernel \/ Trap
  <2>1. UNCHANGED <<fd_table, before, touched>> /\ pc' # "idle"
    BY <1>7 DEF ReturnFound, epoll_pwait2_unsupported, PollOrEpollToKernel, SelectToKernel, Trap,
                Leave, lib, hist
  <2>2. call' = call \/ (SelectToKernel /\ call.fn \in SelectFns)
    BY <1>1, <1>7 DEF ReturnFound, epoll_pwait2_unsupported, PollOrEpollToKernel, SelectToKernel,
                      Trap, PlaceOK
  <2>3. QED
    BY <1>2, <2>1, <2>2
<1>8. CASE OtherThreads
  <2>1. UNCHANGED <<call, before>> /\ pc' = pc /\ pc # "idle"
    BY <1>8 DEF OtherThreads
  <2>2. \/ UNCHANGED <<fd_table, touched>>
        \/ \E f \in TableFds : /\ touched' = touched \cup {f}
                               /\ \A g \in TableFds \ {f} : fd_table'[g] = fd_table[g]
    <3>1. CASE OtherPosts \/ OtherTakes
      BY <3>1 DEF OtherPosts, OtherTakes
    <3>2. CASE OtherWrites
      <4>1. PICK f \in TableFds :
              /\ touched' = touched \cup {f}
              /\ \/ fd_table' = [fd_table EXCEPT ![f] = clear_fd_table_entry(@)]
                 \/ fd_table' = [fd_table EXCEPT ![f].epfd = -1]
                 \/ \E l \in TableFds : fd_table' = [clone_fd_table_entry(fd_table, f, l) EXCEPT ![f].listening = 0]
        BY <3>2 DEF OtherWrites
      <4>2. \A g \in TableFds \ {f} : fd_table'[g] = fd_table[g]
        BY <1>1, <4>1 DEF clone_fd_table_entry, Table
      <4>3. QED
        BY <4>1, <4>2
    <3>3. QED
      BY <1>8, <3>1, <3>2 DEF OtherThreads
  <2>3. Same => Same'
    BY <2>1, <2>2 DEF Same
  <2>4. QED
    BY <2>1, <2>3 DEF HistInv
<1>9. CASE UNCHANGED vars
  BY <1>9 DEF vars, lib, hist, HistInv, Same
<1>10. QED
  BY <1>3, <1>4, <1>5, <1>6, <1>7, <1>8, <1>9 DEF Next, Step

LEMMA SameEntries ==
  ASSUME Same, NEW f, f \notin touched
  PROVE  /\ DESOCK_FD(fd_table, f) <=> DESOCK_FD(before, f)
         /\ LISTENING_FD(fd_table, f) <=> LISTENING_FD(before, f)
         /\ PollMask(fd_table, f) = PollMask(before, f)
BY DEF Same, DESOCK_FD, LISTENING_FD, VALID_FD, PollMask
-----------------------------------------------------------------------------
(* poll *)

PollSeen ==
  \A k \in DOMAIN fds :
    k < i /\ fds[k].fd \notin touched =>
      fds[k].revents = fds[k].events \cap PollMask(before, fds[k].fd)

PollFound == {k \in DOMAIN fds : k < i /\ fds[k].revents # {}}

PollNumber == (\A k \in DOMAIN fds : "in" \in fds[k].events) => r = Cardinality(PollFound)

PollInv ==
  call.fn \in PollFns =>
    /\ Loop => PollSeen /\ PollNumber
    /\ Over \/ pc = "return" => i \notin DOMAIN fds
    /\ pc = "return" => PollExact /\ PollNumber
    /\ Answered => PollExact /\ CountIsReport

LEMMA PollFoundFinite ==
  ASSUME LocalsOK
  PROVE  IsFiniteSet(PollFound) /\ IsFiniteSet(DOMAIN fds) /\ Cardinality(PollFound) \in Nat
<1>1. IsFiniteSet(DOMAIN fds) /\ PollFound \subseteq DOMAIN fds
  BY DEF LocalsOK, IsArray, PollFound
<1>2. QED
  BY <1>1, FS_Subset, FS_CardinalityType

LEMMA PollScanReports ==
  ASSUME PollInv, HistInv, TypeInv, PollScan
  PROVE  PollInv'
<1> USE DEF PollFns, SelectFns, EpollFns
<1> DEFINE f == fds[i].fd
           new == fds[i].events \cap PollMask(fd_table, f)
<1>1. LocalsOK /\ PlaceOK
  BY DEF TypeInv
<1>2. /\ pc = "scan" /\ pc' = "scan" /\ call' = call /\ call.fn \in PollFns /\ i \in DOMAIN fds
      /\ fds' = [fds EXCEPT ![i].revents = new] /\ i' = i + 1
      /\ r' = IF DESOCK_FD(fd_table, f) THEN r + 1 ELSE r
      /\ UNCHANGED <<before, touched>>
  BY DEF PollScan, Tested, hist
<1>3. /\ IsArray(fds) /\ i \in Nat /\ r \in Nat /\ \A k \in DOMAIN fds : k \in Nat
      /\ new \in SUBSET Events
  BY <1>1, <1>2 DEF LocalsOK, IsArray
<1>4. /\ DOMAIN fds' = DOMAIN fds /\ fds'[i].revents = new /\ fds'[i].fd = f
      /\ fds'[i].events = fds[i].events /\ \A k \in (DOMAIN fds) \ {i} : fds'[k] = fds[k]
  <2> HIDE DEF new
  <2>1. QED
    BY <1>2, <1>3, ArrayKept
<1>5. PollSeen /\ PollNumber /\ Same
  BY <1>2 DEF PollInv, HistInv, Loop
<1>6. PollSeen'
  <2> SUFFICES ASSUME NEW k \in DOMAIN fds, k < i + 1, fds'[k].fd \notin touched
               PROVE  fds'[k].revents = fds'[k].events \cap PollMask(before, fds'[k].fd)
    BY <1>2, <1>4 DEF PollSeen
  <2>1. CASE k = i
    BY <1>4, <1>5, <2>1, SameEntries
  <2>2. CASE k # i
    BY <1>3, <1>4, <1>5, <2>2 DEF PollSeen
  <2>3. QED
    BY <2>1, <2>2
<1>7. PollNumber'
  <2> SUFFICES ASSUME \A k \in DOMAIN fds : "in" \in fds'[k].events
               PROVE  r' = Cardinality(PollFound')
    BY <1>4 DEF PollNumber
  <2>1. \A k \in DOMAIN fds : "in" \in fds[k].events
    BY <1>4
  <2>2. r = Cardinality(PollFound)
    BY <1>5, <2>1 DEF PollNumber
  <2>3. IsFiniteSet(PollFound) /\ i \notin PollFound
    BY <1>1, <1>3, PollFoundFinite DEF PollFound
  <2>4. new # {} <=> DESOCK_FD(fd_table, f)
    BY <1>2, <2>1 DEF PollMask
  <2>5. PollFound' = IF new # {} THEN PollFound \cup {i} ELSE PollFound
    BY <1>2, <1>3, <1>4 DEF PollFound
  <2>6. Cardinality(PollFound \cup {i}) = Cardinality(PollFound) + 1
    BY <2>3, FS_AddElement
  <2>7. QED
    BY <1>2, <2>2, <2>4, <2>5, <2>6
<1>8. QED
  BY <1>2, <1>6, <1>7 DEF PollInv, Loop, Over, Answered

\* From what was found to what is reported.
LEMMA PollReports ==
  ASSUME PollSeen, i \notin DOMAIN fds, LocalsOK, \A k \in DOMAIN fds : ~Withheld(k)
  PROVE  PollExact
<1> SUFFICES ASSUME NEW k \in DOMAIN fds, fds[k].fd \notin touched
             PROVE  fds[k].revents =
                      {e \in fds[k].events :
                         /\ DESOCK_FD(before, fds[k].fd) /\ ~Withheld(k)
                         /\ e = "in" \/ (e = "out" /\ ~LISTENING_FD(before, fds[k].fd))}
  BY DEF PollExact
<1>1. k < i
  BY DEF LocalsOK, IsArray
<1>2. fds[k].revents = fds[k].events \cap PollMask(before, fds[k].fd)
  BY <1>1 DEF PollSeen
<1>3. QED
  BY <1>2 DEF PollMask

LEMMA PollGiveUpReports ==
  ASSUME PollInv, TypeInv, TokenInv, GiveUp, call.fn \in PollFns
  PROVE  PollInv'
<1> USE DEF PollFns, SelectFns, EpollFns
<1>1. LocalsOK /\ PlaceOK
  BY DEF TypeInv
<1>2. /\ pc = "give_up" /\ pc' = "return" /\ UNCHANGED <<call, i, server_sock, before, touched, took>>
      /\ fds' = [fds EXCEPT ![server_sock].revents = {}] /\ r' = r - 1
  BY DEF GiveUp, hist
<1>3. /\ server_sock \in DOMAIN fds /\ server_sock < i /\ took = "no" /\ IsArray(fds)
      /\ "in" \in fds[server_sock].events => "in" \in fds[server_sock].revents
      /\ r \in Nat /\ i \notin DOMAIN fds /\ PollSeen /\ PollNumber
  BY <1>1, <1>2 DEF PlaceOK, LocalsOK, TokenInv, ServerFound, PollInv, Loop, Over
<1>4. /\ DOMAIN fds' = DOMAIN fds /\ fds'[server_sock].revents = {}
      /\ fds'[server_sock].fd = fds[server_sock].fd
      /\ fds'[server_sock].events = fds[server_sock].events
      /\ \A k \in (DOMAIN fds) \ {server_sock} : fds'[k] = fds[k]
  <2>1. {} \in SUBSET Events
    OBVIOUS
  <2>2. PICK b : b = [fds EXCEPT ![server_sock].revents = {}]
    OBVIOUS
  <2>3. /\ DOMAIN b = DOMAIN fds
        /\ b[server_sock].revents = {} /\ b[server_sock].fd = fds[server_sock].fd
        /\ b[server_sock].events = fds[server_sock].events
        /\ \A j \in (DOMAIN fds) \ {server_sock} : b[j] = fds[j]
    <3>1. IsArray(fds) /\ server_sock \in DOMAIN fds
      BY <1>3
    <3>2. PICK none : none = {}
      OBVIOUS
    <3>3. PICK c : c = [fds EXCEPT ![server_sock].revents = none]
      OBVIOUS
    <3>4. none \in SUBSET Events
      BY <2>1, <3>2
    <3>5. /\ DOMAIN c = DOMAIN fds
          /\ c[server_sock].revents = none /\ c[server_sock].fd = fds[server_sock].fd
          /\ c[server_sock].events = fds[server_sock].events
          /\ \A j \in (DOMAIN fds) \ {server_sock} : c[j] = fds[j]
      BY <3>1, <3>3, <3>4, ArrayKept
    <3>6. QED
      BY <2>2, <3>2, <3>3, <3>5
  <2>4. QED
    BY <1>2, <2>2, <2>3
<1>5. PollExact'
  <2> SUFFICES ASSUME NEW k \in DOMAIN fds, fds'[k].fd \notin touched
               PROVE  fds'[k].revents =
                        {e \in fds'[k].events :
                           /\ DESOCK_FD(before, fds'[k].fd) /\ ~Withheld(k)
                           /\ e = "in" \/ (e = "out" /\ ~LISTENING_FD(before, fds'[k].fd))}
    BY <1>2, <1>4 DEF PollExact, Withheld
  <2>1. CASE k = server_sock
    BY <1>3, <1>4, <2>1 DEF Withheld
  <2>2. CASE k # server_sock
    <3>1. k < i /\ fds'[k] = fds[k] /\ ~Withheld(k)
      BY <1>1, <1>3, <1>4, <2>2 DEF LocalsOK, IsArray, Withheld
    <3>2. fds[k].revents = fds[k].events \cap PollMask(before, fds[k].fd)
      BY <1>3, <3>1 DEF PollSeen
    <3>3. QED
      BY <3>1, <3>2 DEF PollMask
  <2>3. QED
    BY <2>1, <2>2
<1>6. PollNumber'
  <2> SUFFICES ASSUME \A k \in DOMAIN fds : "in" \in fds'[k].events
               PROVE  r' = Cardinality(PollFound')
    BY <1>4 DEF PollNumber
  <2>1. \A k \in DOMAIN fds : "in" \in fds[k].events
    BY <1>4
  <2>2. r = Cardinality(PollFound)
    BY <1>3, <2>1 DEF PollNumber
  <2>3. IsFiniteSet(PollFound) /\ server_sock \in PollFound /\ Cardinality(PollFound) \in Nat
    BY <1>1, <1>3, <2>1, PollFoundFinite DEF PollFound
  <2>4. PollFound' = PollFound \ {server_sock}
    BY <1>2, <1>4 DEF PollFound
  <2>5. Cardinality(PollFound \ {server_sock}) = Cardinality(PollFound) - 1
    BY <2>3, FS_RemoveElement
  <2>6. QED
    BY <1>2, <2>2, <2>4, <2>5
<1>7. QED
  BY <1>2, <1>3, <1>4, <1>5, <1>6 DEF PollInv, Loop, Over, Answered

LEMMA PollInductive == PollInv /\ HistInv /\ TypeInv /\ TokenInv /\ TrapInv /\ [Next]_vars => PollInv'
<1> SUFFICES ASSUME PollInv, HistInv, TypeInv, TokenInv, TrapInv, [Next]_vars PROVE PollInv'
  OBVIOUS
<1> USE DEF PollFns, SelectFns, EpollFns
<1>a. LocalsOK /\ PlaceOK
  BY DEF TypeInv
<1>k. ASSUME call'.fn \notin PollFns PROVE PollInv'
  BY <1>k DEF PollInv
<1>1. CASE NextCall \/ SelectCall \/ EpollWaitCall \/ SocketCall
  <2>1. call'.fn \notin PollFns
    <3>1. CASE NextCall
      BY <3>1 DEF NextCall, NoCall
    <3>2. CASE SelectCall
      BY <3>2 DEF SelectCall, Begin
    <3>3. CASE EpollWaitCall
      BY <3>3 DEF EpollWaitCall, Begin
    <3>4. CASE SocketCall
      <4>1. call' = [fn |-> "socketcall"]
        BY <3>4 DEF SocketCall
      <4>2. QED
        BY <4>1
    <3>5. QED
      BY <1>1, <3>1, <3>2, <3>3, <3>4
  <2>2. QED
    BY <1>k, <2>1
<1>2. CASE PollCall
  <2>1. /\ pc = "idle" /\ pc' = "scan" /\ i' = i /\ r' = r
    BY <1>2 DEF PollCall, Begin, locals
  <2>2. i' = 0 /\ r' = 0
    BY <1>a, <2>1 DEF LocalsOK
  <2>3. IsArray(fds')
    BY <1>2, GivenArray DEF PollCall
  <2>4. \A k \in DOMAIN fds' : ~(k < i')
    BY <2>2, <2>3 DEF IsArray
  <2>5. PollSeen'
    BY <2>4 DEF PollSeen
  <2>6. PollFound' = {} /\ Cardinality({}) = 0
    BY <2>4, FS_EmptySet DEF PollFound
  <2>7. PollNumber'
    BY <2>2, <2>6 DEF PollNumber
  <2>8. QED
    BY <2>1, <2>5, <2>7 DEF PollInv, Loop, Over, Answered
<1>3. CASE PollScan
  BY <1>3, PollScanReports
<1>4. CASE SelectCheck \/ SelectScan \/ EpollScan \/ EpollReport \/ SelectToKernel
  <2>1. call.fn \in SelectFns \cup EpollFns
    BY <1>4, <1>a DEF SelectCheck, SelectScan, EpollScan, EpollReport, SelectToKernel, PlaceOK
  <2>2. call'.fn = call.fn
    <3>1. call' = call \/ \E tv : call' = WithTimeout(call, tv)
      BY <1>4 DEF SelectCheck, SelectScan, EpollScan, EpollReport, SelectToKernel, Tested
    <3>2. ASSUME NEW tv, call' = WithTimeout(call, tv) PROVE call'.fn = call.fn
      BY <3>2 DEF WithTimeout
    <3>3. QED
      BY <3>1, <3>2
  <2>3. QED
    BY <1>k, <2>1, <2>2
<1>5. CASE Scanned
  <2>1. /\ pc = "scan" /\ UNCHANGED <<call, i, r, server_sock, fds, before, touched, took>>
        /\ pc' = "arm" \/ (pc' = "return" /\ ~(server_sock > -1 /\ (call.fn \in EpollFns => r < call.cnt)))
        /\ call.fn \in PollFns => i \notin DOMAIN fds
    BY <1>5 DEF Scanned, Tested, locals, hist
  <2>2. SUFFICES ASSUME call.fn \in PollFns PROVE PollInv'
    BY <1>k, <2>1
  <2>3. PollSeen /\ PollNumber
    BY <2>1, <2>2 DEF PollInv, Loop
  <2>4. (PollSeen /\ PollNumber)'
    BY <2>1, <2>3 DEF PollSeen, PollNumber, PollFound
  <2>5. ASSUME pc' = "return" PROVE PollExact'
    <3>1. server_sock = -1
      BY <1>a, <2>1, <2>2, <2>5 DEF LocalsOK, IsArray
    <3>2. \A k \in DOMAIN fds : ~Withheld(k)
      BY <1>a, <3>1 DEF LocalsOK, IsArray, Withheld
    <3>3. PollExact
      BY <1>a, <2>1, <2>2, <2>3, <3>2, PollReports
    <3>4. QED
      BY <2>1, <3>3 DEF PollExact, Withheld
  <2>6. QED
    BY <2>1, <2>2, <2>4, <2>5 DEF PollInv, Loop, Over, Answered
<1>6. CASE Arm
  <2>1. pc = "arm" /\ pc' = "try" /\ UNCHANGED <<call, i, r, fds, before, touched>>
    BY <1>6 DEF Arm, locals, out, hist
  <2>2. QED
    BY <2>1 DEF PollInv, Loop, Over, Answered, PollSeen, PollNumber, PollFound
<1>7. CASE TryWait \/ SemWait \/ SemWaitInterrupted
  <2>1. /\ pc \in {"try", "sem_wait"} /\ UNCHANGED <<call, i, r, server_sock, fds, before, touched>>
        /\ \/ pc' \in {"sem_wait", "give_up"}
           \/ pc' = (IF call.fn \in EpollFns THEN "report" ELSE "return") /\ took' # "no"
    BY <1>7 DEF TryWait, SemWait, SemWaitInterrupted, Took, Tested, locals, out, hist
  <2>2. SUFFICES ASSUME call.fn \in PollFns PROVE PollInv'
    BY <1>k, <2>1
  <2>3. PollSeen /\ PollNumber /\ i \notin DOMAIN fds
    BY <2>1, <2>2 DEF PollInv, Loop, Over
  <2>4. (PollSeen /\ PollNumber)'
    BY <2>1, <2>3 DEF PollSeen, PollNumber, PollFound
  <2>5. ASSUME pc' = "return" PROVE PollExact'
    <3>1. (\A k \in DOMAIN fds : ~Withheld(k))'
      BY <2>1, <2>5 DEF Withheld
    <3>2. LocalsOK'
      BY <1>7, SemTypes
    <3>3. (i \notin DOMAIN fds)'
      BY <2>1, <2>3
    <3>4. (PollSeen /\ i \notin DOMAIN fds /\ LocalsOK /\ (\A k \in DOMAIN fds : ~Withheld(k)) => PollExact)'
      BY PollReports, PTL
    <3>5. QED
      BY <2>4, <3>1, <3>2, <3>3, <3>4
  <2>6. QED
    BY <2>1, <2>2, <2>3, <2>4, <2>5 DEF PollInv, Loop, Over, Answered
<1>8. CASE GiveUp
  <2>1. call' = call
    BY <1>8 DEF GiveUp
  <2>2. QED
    BY <1>8, <1>k, <2>1, PollGiveUpReports
<1>9. CASE ReturnFound \/ epoll_pwait2_unsupported
  <2>1. pc = "return" /\ pc' = "done" /\ UNCHANGED <<call, i, r, server_sock, fds, before, touched, took>>
    BY <1>9 DEF ReturnFound, epoll_pwait2_unsupported, locals, out, hist
  <2>2. SUFFICES ASSUME call.fn \in PollFns PROVE PollInv'
    BY <1>k, <2>1
  <2>3. PollExact /\ PollNumber /\ i \notin DOMAIN fds
    BY <2>1, <2>2 DEF PollInv
  <2>4. PollExact'
    BY <2>1, <2>3 DEF PollExact, Withheld
  <2>5. result' = [ret |-> r, errno |-> 0]
    BY <1>9, <2>2 DEF ReturnFound, epoll_pwait2_unsupported
  <2>6. PollFound = {k \in DOMAIN fds : fds[k].revents # {}}
    BY <1>a, <2>3 DEF PollFound, LocalsOK, IsArray
  <2>7. CountIsReport'
    BY <2>1, <2>2, <2>3, <2>5, <2>6 DEF CountIsReport, PollNumber
  <2>8. QED
    BY <2>1, <2>2, <2>4, <2>7 DEF PollInv, Loop, Over
<1>10. CASE PollOrEpollToKernel
  BY <1>10 DEF PollOrEpollToKernel, Leave, PollInv, Loop, Over, Answered
<1>11. CASE Trap
  <2>1. pc = "trap" /\ pc' \in {"trap", "done"} /\ trap'.plan = trap.plan
    BY <1>11 DEF Trap
  <2>2. trap.plan # <<>>
    BY <2>1, PlanLength DEF TrapInv
  <2>3. QED
    BY <2>1, <2>2 DEF PollInv, Loop, Over, Answered, NoTrap
<1>12. CASE OtherThreads
  <2>1. /\ UNCHANGED <<pc, call, i, r, server_sock, fds, before, took>> /\ touched \subseteq touched'
        /\ pc \in {"check", "scan", "arm", "try", "sem_wait", "give_up", "report"}
    BY <1>12 DEF OtherThreads, OtherPosts, OtherTakes, OtherWrites, locals, out
  <2>2. PollSeen => PollSeen'
    BY <2>1 DEF PollSeen
  <2>3. PollNumber => PollNumber'
    BY <2>1 DEF PollNumber, PollFound
  <2>4. QED
    BY <2>1, <2>2, <2>3 DEF PollInv, Loop, Over, Answered
<1>13. CASE UNCHANGED vars
  BY <1>13 DEF vars, locals, out, back, hist, PollInv, Loop, Over, Answered, PollSeen, PollNumber,
               PollFound, PollExact, Withheld, CountIsReport
<1>14. QED
  BY <1>1, <1>2, <1>3, <1>4, <1>5, <1>6, <1>7, <1>8, <1>9, <1>10, <1>11, <1>12, <1>13 DEF Next, Step
-----------------------------------------------------------------------------
(* select *)

SelectSeen ==
  /\ \A f \in call.rfds \ touched : f \in rfds <=> f >= i \/ DESOCK_FD(before, f)
  /\ \A f \in call.wfds \ touched :
       f \in wfds <=> f >= i \/ (DESOCK_FD(before, f) /\ ~LISTENING_FD(before, f))
  /\ rfds \subseteq call.rfds /\ wfds \subseteq call.wfds

BelowI(s) == {f \in s : f < i}

SelectNumber == r = Cardinality(BelowI(rfds)) + Cardinality(BelowI(wfds))

\* unless others interfere, what has_desock_fds saw is counted, or a listener in wfds
SelectAny ==
  \/ touched # {}
  \/ \E f \in call.wfds : LISTENING_FD(before, f)
  \/ \E f \in call.rfds \cup call.wfds : f < call.n /\ DESOCK_FD(before, f) /\ (f < i => r >= 1)

SelectInv ==
  call.fn \in SelectFns =>
    /\ call.rfds \cup call.wfds \subseteq Nat
    /\ pc = "check" \/ call.left => rfds = call.rfds /\ wfds = call.wfds /\ efds = call.efds
    /\ Loop \/ pc = "return" => i <= call.n
    /\ pc # "idle" /\ (call.left => pc \in {"trap", "done"})
    /\ Loop => /\ SelectSeen /\ SelectNumber /\ SelectAny
               /\ server_sock > -1 => server_sock \in rfds /\ server_sock < i
    /\ Over \/ pc = "return" => i >= call.n /\ efds = {}
    /\ pc = "return" => SelectExact /\ SelectNumber /\ (r >= 1 \/ SelectAny)
    /\ Answered => SelectExact /\ CountIsReport /\ ZeroIsTheKernels

LEMMA BelowFinite ==
  ASSUME NEW s, s \subseteq Nat, i \in Nat
  PROVE  IsFiniteSet(BelowI(s)) /\ Cardinality(BelowI(s)) \in Nat
<1>1. ASSUME NEW f \in BelowI(s) PROVE f \in 0 .. i
  <2>1. f \in s /\ f < i
    BY DEF BelowI
  <2>2. QED
    BY <2>1
<1>2. IsFiniteSet(0 .. i)
  BY FS_Interval
<1>3. BelowI(s) \subseteq 0 .. i
  BY <1>1
<1>4. QED
  BY <1>2, <1>3, FS_Subset, FS_CardinalityType

\* one iteration more
LEMMA BelowNext ==
  ASSUME NEW s, s \subseteq Nat, i \in Nat
  PROVE  /\ i \in s => Cardinality({f \in s : f < i + 1}) = Cardinality(BelowI(s)) + 1
         /\ Cardinality({f \in s \ {i} : f < i + 1}) = Cardinality(BelowI(s))
<1>1. IsFiniteSet(BelowI(s)) /\ i \notin BelowI(s)
  <2>1. i \notin BelowI(s)
    BY DEF BelowI
  <2>2. QED
    BY <2>1, BelowFinite
<1>0. \A f \in s : f < i + 1 <=> f < i \/ f = i
  OBVIOUS
<1>2. ASSUME i \in s PROVE Cardinality({f \in s : f < i + 1}) = Cardinality(BelowI(s)) + 1
  <2>1. {f \in s : f < i + 1} = BelowI(s) \cup {i}
    BY <1>0, <1>2 DEF BelowI
  <2>2. QED
    BY <1>1, <2>1, FS_AddElement
<1>3. {f \in s \ {i} : f < i + 1} = BelowI(s)
  <2>1. ~(i < i)
    OBVIOUS
  <2>2. QED
    BY <1>0, <2>1 DEF BelowI
<1>4. QED
  BY <1>2, <1>3

LEMMA SelectScanReports ==
  ASSUME SelectInv, HistInv, TypeInv, SelectScan
  PROVE  SelectInv'
<1> USE DEF PollFns, SelectFns, EpollFns
<1> DEFINE reads  == i \in rfds /\ DESOCK_FD(fd_table, i)
           writes == i \in wfds /\ DESOCK_FD(fd_table, i) /\ ~LISTENING_FD(fd_table, i)
<1>1. LocalsOK /\ PlaceOK
  BY DEF TypeInv
<1>2. /\ pc = "scan" /\ pc' = "scan" /\ call' = call /\ call.fn \in SelectFns /\ i < call.n
      /\ rfds' = IF reads THEN rfds ELSE rfds \ {i}
      /\ wfds' = IF writes THEN wfds ELSE wfds \ {i}
      /\ r' = r + (IF reads THEN 1 ELSE 0) + (IF writes THEN 1 ELSE 0)
      /\ server_sock' = IF reads /\ LISTENING_FD(fd_table, i) THEN i ELSE server_sock
      /\ i' = i + 1 /\ UNCHANGED <<before, touched, trap>>
  BY DEF SelectScan, Tested, hist, back
<1>3. /\ i \in Nat /\ r \in Nat /\ call.n \in Nat /\ server_sock \in Int
      /\ rfds \in SUBSET Nat /\ wfds \in SUBSET Nat /\ call.rfds \cup call.wfds \subseteq Nat
  BY <1>1, <1>2 DEF LocalsOK, SelectInv
<1>4. /\ SelectSeen /\ SelectNumber /\ SelectAny /\ Same /\ ~call.left
      /\ server_sock > -1 => server_sock \in rfds /\ server_sock < i
  BY <1>2 DEF SelectInv, HistInv, Loop
<1>5. SelectSeen'
  <2>1. ASSUME NEW f \in call.rfds \ touched
        PROVE  f \in rfds' <=> f >= i + 1 \/ DESOCK_FD(before, f)
    <3>1. f \in Nat /\ (f \in rfds <=> f >= i \/ DESOCK_FD(before, f))
      BY <1>3, <1>4 DEF SelectSeen
    <3>2. CASE f = i
      BY <1>2, <1>3, <1>4, <3>1, <3>2, SameEntries
    <3>3. CASE f # i
      BY <1>2, <1>3, <3>1, <3>3
    <3>4. QED
      BY <3>2, <3>3
  <2>2. ASSUME NEW f \in call.wfds \ touched
        PROVE  f \in wfds' <=> f >= i + 1 \/ (DESOCK_FD(before, f) /\ ~LISTENING_FD(before, f))
    <3>1. f \in Nat /\ (f \in wfds <=> f >= i \/ (DESOCK_FD(before, f) /\ ~LISTENING_FD(before, f)))
      BY <1>3, <1>4 DEF SelectSeen
    <3>2. CASE f = i
      BY <1>2, <1>3, <1>4, <3>1, <3>2, SameEntries
    <3>3. CASE f # i
      BY <1>2, <1>3, <3>1, <3>3
    <3>4. QED
      BY <3>2, <3>3
  <2>3. QED
    BY <1>2, <1>4, <2>1, <2>2 DEF SelectSeen
<1>6. SelectNumber'
  <2>0. (reads => i \in rfds) /\ (writes => i \in wfds)
    OBVIOUS
  <2> HIDE DEF reads, writes
  <2>1. /\ BelowI(rfds)' = {f \in rfds' : f < i + 1}
        /\ BelowI(wfds)' = {f \in wfds' : f < i + 1}
    BY <1>2 DEF BelowI
  <2>2. rfds \subseteq Nat /\ wfds \subseteq Nat
    BY <1>3
  <2>3. Cardinality(BelowI(rfds)') = Cardinality(BelowI(rfds)) + (IF reads THEN 1 ELSE 0)
    <3>0. Cardinality(BelowI(rfds)) \in Nat
      BY <1>3, <2>2, BelowFinite
    <3>1. CASE reads
      BY <1>2, <1>3, <2>0, <2>1, <2>2, <3>1, BelowNext
    <3>2. CASE ~reads
      <4>1. BelowI(rfds)' = {f \in rfds \ {i} : f < i + 1}
        BY <1>2, <2>1, <3>2
      <4>2. Cardinality({f \in rfds \ {i} : f < i + 1}) = Cardinality(BelowI(rfds))
        BY <1>3, <2>2, BelowNext
      <4>3. QED
        BY <3>0, <3>2, <4>1, <4>2
    <3>3. QED
      BY <3>1, <3>2
  <2>4. Cardinality(BelowI(wfds)') = Cardinality(BelowI(wfds)) + (IF writes THEN 1 ELSE 0)
    <3>0. Cardinality(BelowI(wfds)) \in Nat
      BY <1>3, <2>2, BelowFinite
    <3>1. CASE writes
      BY <1>2, <1>3, <2>0, <2>1, <2>2, <3>1, BelowNext
    <3>2. CASE ~writes
      <4>1. BelowI(wfds)' = {f \in wfds \ {i} : f < i + 1}
        BY <1>2, <2>1, <3>2
      <4>2. Cardinality({f \in wfds \ {i} : f < i + 1}) = Cardinality(BelowI(wfds))
        BY <1>3, <2>2, BelowNext
      <4>3. QED
        BY <3>0, <3>2, <4>1, <4>2
    <3>3. QED
      BY <3>1, <3>2
  <2>6. Cardinality(BelowI(rfds)) \in Nat /\ Cardinality(BelowI(wfds)) \in Nat
    BY <1>3, <2>2, BelowFinite
  <2>7. QED
    BY <1>2, <1>4, <2>3, <2>4, <2>6 DEF SelectNumber
<1>7. SelectAny'
  <2>1. CASE touched # {} \/ \E f \in call.wfds : LISTENING_FD(before, f)
    BY <1>2, <2>1 DEF SelectAny
  <2>2. CASE touched = {} /\ \A f \in call.wfds : ~LISTENING_FD(before, f)
    <3>1. PICK f \in call.rfds \cup call.wfds :
            f < call.n /\ DESOCK_FD(before, f) /\ (f < i => r >= 1)
      BY <1>4, <2>2 DEF SelectAny
    <3>2. f < i + 1 => r' >= 1
      <4>1. CASE f # i
        BY <1>2, <1>3, <3>1, <4>1
      <4>2. CASE f = i
        <5>1. DESOCK_FD(fd_table, i) /\ (LISTENING_FD(fd_table, i) <=> LISTENING_FD(before, i))
          BY <1>4, <2>2, <3>1, <4>2, SameEntries
        <5>2. (f \in call.rfds => i \in rfds) /\ (f \in call.wfds => i \in wfds)
          BY <1>3, <1>4, <2>2, <3>1, <4>2 DEF SelectSeen
        <5>3. reads \/ writes
          BY <2>2, <3>1, <4>2, <5>1, <5>2
        <5>4. QED
          BY <1>2, <1>3, <5>3
      <4>3. QED
        BY <4>1, <4>2
    <3>3. QED
      BY <1>2, <3>1, <3>2 DEF SelectAny
  <2>3. QED
    BY <2>1, <2>2
<1>8. server_sock' > -1 => server_sock' \in rfds' /\ server_sock' < i + 1
  <2>1. CASE reads /\ LISTENING_FD(fd_table, i)
    BY <1>2, <1>3, <2>1
  <2>2. CASE ~(reads /\ LISTENING_FD(fd_table, i))
    <3>1. server_sock' = server_sock
      BY <1>2, <2>2
    <3>2. server_sock > -1 => server_sock # i /\ server_sock \in rfds'
      BY <1>2, <1>3, <1>4
    <3>3. QED
      BY <1>3, <1>4, <3>1, <3>2
  <2>3. QED
    BY <2>1, <2>2
<1>9. QED
  BY <1>2, <1>3, <1>4, <1>5, <1>6, <1>7, <1>8 DEF SelectInv, Loop, Over, Answered

\* From what was found to what is reported.
LEMMA SelectReports ==
  ASSUME SelectSeen, i = call.n, efds = {}, \A f : ~Withheld(f)
  PROVE  SelectExact
BY DEF SelectSeen, SelectExact

LEMMA SelectGiveUpReports ==
  ASSUME SelectInv, TypeInv, TokenInv, GiveUp, call.fn \in SelectFns
  PROVE  SelectInv'
<1> USE DEF PollFns, SelectFns, EpollFns
<1>1. LocalsOK /\ PlaceOK
  BY DEF TypeInv
<1>2. /\ pc = "give_up" /\ pc' = "return" /\ UNCHANGED <<call, i, server_sock, before, touched, took, wfds, efds>>
      /\ rfds' = rfds \ {server_sock} /\ r' = r - 1
  BY DEF GiveUp, hist
<1>3. /\ server_sock > -1 /\ server_sock \in rfds /\ server_sock < i /\ took = "no"
      /\ i \in Nat /\ call.n \in Nat /\ i = call.n /\ efds = {}
      /\ r \in Nat /\ r > 1 /\ SelectSeen /\ SelectNumber /\ ~call.left
      /\ rfds \subseteq Nat /\ wfds \subseteq Nat /\ call.rfds \cup call.wfds \subseteq Nat
  BY <1>1, <1>2 DEF PlaceOK, SleepsAt, LocalsOK, TokenInv, SelectInv, Loop, Over
<1>4. SelectExact'
  <2>1. \A f \in call.rfds \ touched :
          f \in rfds' <=> f >= call.n \/ (DESOCK_FD(before, f) /\ f # server_sock)
    BY <1>2, <1>3 DEF SelectSeen
  <2>2. \A f : Withheld(f)' <=> f = server_sock
    BY <1>2, <1>3 DEF Withheld
  <2>3. \A f \in call.wfds \ touched :
          f \in wfds <=> f >= call.n \/ (DESOCK_FD(before, f) /\ ~LISTENING_FD(before, f))
    BY <1>3 DEF SelectSeen
  <2>4. rfds' \subseteq call.rfds /\ wfds \subseteq call.wfds
    BY <1>2, <1>3 DEF SelectSeen
  <2>5. QED
    BY <1>2, <1>3, <2>1, <2>2, <2>3, <2>4 DEF SelectExact
<1>5. SelectNumber'
  <2>1. IsFiniteSet(BelowI(rfds)) /\ server_sock \in BelowI(rfds)
        /\ Cardinality(BelowI(rfds)) \in Nat /\ Cardinality(BelowI(wfds)) \in Nat
    BY <1>3, BelowFinite DEF BelowI
  <2>2. BelowI(rfds)' = BelowI(rfds) \ {server_sock} /\ BelowI(wfds)' = BelowI(wfds)
    BY <1>2 DEF BelowI
  <2>3. Cardinality(BelowI(rfds) \ {server_sock}) = Cardinality(BelowI(rfds)) - 1
    BY <2>1, FS_RemoveElement
  <2>4. QED
    <3>1. r = Cardinality(BelowI(rfds)) + Cardinality(BelowI(wfds))
      BY <1>3 DEF SelectNumber
    <3>2. r - 1 = Cardinality(BelowI(rfds) \ {server_sock}) + Cardinality(BelowI(wfds))
      BY <2>1, <2>3, <3>1
    <3>3. r' = Cardinality(BelowI(rfds)') + Cardinality(BelowI(wfds)')
      BY <1>2, <2>2, <3>2
    <3>4. QED
      BY <3>3 DEF SelectNumber
<1>6. r' >= 1
  BY <1>2, <1>3
<1>7. QED
  BY <1>2, <1>3, <1>4, <1>5, <1>6 DEF SelectInv, Loop, Over, Answered

LEMMA SelectReturns ==
  ASSUME SelectInv, TypeInv, ReturnFound, call.fn \in SelectFns
  PROVE  SelectInv'
<1> USE DEF PollFns, SelectFns, EpollFns
<1>1. LocalsOK
  BY DEF TypeInv
<1>2. /\ pc = "return" /\ pc' = "done" /\ result' = [ret |-> r, errno |-> 0]
      /\ UNCHANGED <<call, i, r, server_sock, rfds, wfds, efds, before, touched, took>>
  BY DEF ReturnFound, locals, out, hist
<1>3. /\ SelectExact /\ SelectNumber /\ (r >= 1 \/ SelectAny) /\ i \in Nat /\ call.n \in Nat
      /\ i = call.n /\ ~call.left /\ call.rfds \cup call.wfds \subseteq Nat
  BY <1>1, <1>2 DEF SelectInv, LocalsOK
<1>4. SelectExact'
  BY <1>2, <1>3 DEF SelectExact, Withheld
<1>5. CountIsReport'
  BY <1>2, <1>3 DEF CountIsReport, SelectNumber, BelowI
<1>6. ZeroIsTheKernels'
  <2> SUFFICES ASSUME result'.ret = 0 PROVE touched # {} \/ \E f \in call.wfds : LISTENING_FD(before, f)
    BY <1>2 DEF ZeroIsTheKernels
  <2>1. r = 0
    BY <1>2
  <2>2. SelectAny
    BY <1>3, <2>1
  <2>3. \A f \in call.rfds \cup call.wfds : ~(f < call.n /\ (f < i => r >= 1))
    BY <1>3, <2>1
  <2>4. QED
    BY <2>2, <2>3 DEF SelectAny
<1>7. QED
  BY <1>2, <1>3, <1>4, <1>5, <1>6 DEF SelectInv, Loop, Over

LEMMA SelectInductive ==
  SelectInv /\ HistInv /\ TypeInv /\ TokenInv /\ SleepInv /\ TrapInv /\ [Next]_vars => SelectInv'
<1> SUFFICES ASSUME SelectInv, HistInv, TypeInv, TokenInv, SleepInv, TrapInv, [Next]_vars
             PROVE  SelectInv'
  OBVIOUS
<1> USE DEF PollFns, SelectFns, EpollFns
<1>a. LocalsOK /\ PlaceOK
  BY DEF TypeInv
<1>k. ASSUME call'.fn \notin SelectFns PROVE SelectInv'
  BY <1>k DEF SelectInv
<1>1. CASE NextCall \/ PollCall \/ EpollWaitCall \/ SocketCall
  <2>1. call'.fn \notin SelectFns
    <3>1. CASE NextCall
      BY <3>1 DEF NextCall, NoCall
    <3>2. CASE PollCall
      BY <3>2 DEF PollCall, Begin
    <3>3. CASE EpollWaitCall
      BY <3>3 DEF EpollWaitCall, Begin
    <3>4. CASE SocketCall
      <4>1. call' = [fn |-> "socketcall"]
        BY <3>4 DEF SocketCall
      <4>2. QED
        BY <4>1
    <3>5. QED
      BY <1>1, <3>1, <3>2, <3>3, <3>4
  <2>2. QED
    BY <1>k, <2>1
<1>2. CASE SelectCall
  <2>1. PICK fn \in SelectFns, s \in Selects :
          /\ Begin([fn |-> fn, n |-> s.n, rfds |-> s.rfds, wfds |-> s.wfds, efds |-> s.efds,
                    left |-> FALSE, tv |-> NoTimeout], "check")
          /\ rfds' = s.rfds /\ wfds' = s.wfds /\ efds' = s.efds
    BY <1>2 DEF SelectCall
  <2>2. /\ pc' = "check" /\ call'.fn = fn /\ ~call'.left
        /\ call'.rfds = s.rfds /\ call'.wfds = s.wfds /\ call'.efds = s.efds
    BY <2>1 DEF Begin
  <2>3. s.rfds \cup s.wfds \subseteq Nat
    BY MultiplexAssumption
  <2>4. QED
    BY <2>1, <2>2, <2>3 DEF SelectInv, Loop, Over, Answered
<1>3. CASE PollScan \/ EpollScan \/ EpollReport \/ PollOrEpollToKernel \/ epoll_pwait2_unsupported
  <2>1. call.fn \notin SelectFns /\ call' = call
    BY <1>3, <1>a DEF PollScan, EpollScan, EpollReport, PollOrEpollToKernel, epoll_pwait2_unsupported,
                      PlaceOK, Tested
  <2>2. QED
    BY <1>k, <2>1
<1>4. CASE SelectCheck
  <2>1. /\ pc = "check" /\ i < call.n /\ call.fn \in SelectFns /\ call' = call
        /\ UNCHANGED <<r, server_sock, rfds, wfds, efds, before, touched>>
        /\ \/ pc' = "scan" /\ i' = 0 /\ i \in rfds \cup wfds /\ DESOCK_FD(fd_table, i)
           \/ pc' = "check"
    BY <1>4, <1>a DEF SelectCheck, Tested, PlaceOK, out, hist
  <2>2. /\ rfds = call.rfds /\ wfds = call.wfds /\ efds = call.efds /\ ~call.left
        /\ call.rfds \cup call.wfds \subseteq Nat /\ call.n \in Nat /\ r = 0 /\ server_sock = -1 /\ Same
    BY <1>a, <2>1 DEF SelectInv, SleepInv, HistInv, LocalsOK
  <2>3. CASE pc' = "check"
    BY <2>1, <2>2, <2>3 DEF SelectInv, Loop, Over, Answered
  <2>4. CASE pc' = "scan"
    <3>1. i' = 0 /\ i \in rfds \cup wfds /\ DESOCK_FD(fd_table, i)
      BY <2>1, <2>4
    <3>2. SelectSeen'
      <4>1. \A f \in call.rfds \cup call.wfds : f >= 0
        BY <2>2
      <4>2. QED
        BY <2>1, <2>2, <3>1, <4>1 DEF SelectSeen
    <3>3. SelectNumber'
      <4>1. \A f \in call.rfds \cup call.wfds : ~(f < 0)
        BY <2>2
      <4>2. BelowI(rfds)' = {} /\ BelowI(wfds)' = {}
        BY <2>1, <2>2, <3>1, <4>1 DEF BelowI
      <4>3. QED
        BY <2>1, <2>2, <4>2, FS_EmptySet DEF SelectNumber
    <3>4. SelectAny'
      <4> SUFFICES ASSUME touched = {} PROVE SelectAny'
        BY <2>1 DEF SelectAny
      <4>1. DESOCK_FD(before, i)
        BY <2>2, <3>1, SameEntries
      <4>2. i \in call.rfds \cup call.wfds /\ i < call.n /\ ~(i < 0)
        BY <2>1, <2>2, <3>1
      <4>3. QED
        BY <2>1, <3>1, <4>1, <4>2 DEF SelectAny
    <3>5. QED
      BY <2>1, <2>2, <2>4, <3>1, <3>2, <3>3, <3>4 DEF SelectInv, Loop, Over, Answered
  <2>5. QED
    BY <2>1, <2>3, <2>4
<1>5. CASE SelectScan
  BY <1>5, SelectScanReports
<1>6. CASE Scanned
  <2>1. /\ pc = "scan" /\ UNCHANGED <<call, i, r, server_sock, rfds, wfds, before, touched, took>>
        /\ pc' = "arm" \/ (pc' = "return" /\ ~(server_sock > -1 /\ (call.fn \in EpollFns => r < call.cnt)))
        /\ call.fn \in SelectFns => i >= call.n /\ efds' = {}
    BY <1>6 DEF Scanned, Tested, locals, hist
  <2>2. SUFFICES ASSUME call.fn \in SelectFns PROVE SelectInv'
    BY <1>k, <2>1
  <2>3. /\ SelectSeen /\ SelectNumber /\ SelectAny /\ ~call.left
        /\ call.rfds \cup call.wfds \subseteq Nat
        /\ server_sock > -1 => server_sock \in rfds /\ server_sock < i
        /\ i \in Nat /\ call.n \in Nat /\ i <= call.n /\ server_sock \in Int
    BY <1>a, <2>1, <2>2 DEF SelectInv, Loop, LocalsOK
  <2>4. (SelectSeen /\ SelectNumber /\ SelectAny)'
    BY <2>1, <2>3 DEF SelectSeen, SelectNumber, SelectAny, BelowI
  <2>5. ASSUME pc' = "return" PROVE SelectExact'
    <3>1. ~(server_sock > -1)
      BY <2>1, <2>2, <2>5
    <3>2. \A f \in Nat : ~Withheld(f)'
      BY <2>1, <2>3, <3>1 DEF Withheld
    <3>3. i = call.n
      BY <2>1, <2>2, <2>3
    <3>4. \A f \in call.rfds \cup call.wfds : ~Withheld(f)'
      BY <2>3, <3>2
    <3>5. QED
      BY <2>1, <2>2, <2>3, <3>3, <3>4 DEF SelectSeen, SelectExact
  <2>6. QED
    BY <2>1, <2>2, <2>3, <2>4, <2>5 DEF SelectInv, Loop, Over, Answered
<1>7. CASE Arm \/ TryWait \/ SemWait \/ SemWaitInterrupted
  <2>1. /\ pc \in {"arm", "try", "sem_wait"}
        /\ UNCHANGED <<call, i, r, server_sock, rfds, wfds, efds, before, touched>>
        /\ \/ pc' \in {"try", "sem_wait", "give_up"}
           \/ pc' = (IF call.fn \in EpollFns THEN "report" ELSE "return") /\ took' # "no"
    BY <1>7 DEF Arm, TryWait, SemWait, SemWaitInterrupted, Took, Tested, locals, out, hist
  <2>2. SUFFICES ASSUME call.fn \in SelectFns PROVE SelectInv'
    BY <1>k, <2>1
  <2>3. /\ SelectSeen /\ SelectNumber /\ SelectAny /\ ~call.left
        /\ call.rfds \cup call.wfds \subseteq Nat
        /\ server_sock > -1 => server_sock \in rfds /\ server_sock < i
        /\ i \in Nat /\ call.n \in Nat /\ i <= call.n /\ i >= call.n /\ efds = {}
    BY <1>a, <2>1, <2>2 DEF SelectInv, Loop, Over, LocalsOK
  <2>4. (SelectSeen /\ SelectNumber /\ SelectAny)'
    BY <2>1, <2>3 DEF SelectSeen, SelectNumber, SelectAny, BelowI
  <2>5. ASSUME pc' = "return" PROVE SelectExact'
    <3>1. \A f : ~Withheld(f)'
      BY <2>1, <2>5 DEF Withheld
    <3>2. i = call.n
      BY <2>3
    <3>3. QED
      BY <2>1, <2>3, <3>1, <3>2 DEF SelectSeen, SelectExact
  <2>6. QED
    BY <2>1, <2>2, <2>3, <2>4, <2>5 DEF SelectInv, Loop, Over, Answered
<1>8. CASE GiveUp
  <2>1. call' = call
    BY <1>8 DEF GiveUp
  <2>2. QED
    BY <1>8, <1>k, <2>1, SelectGiveUpReports
<1>9. CASE ReturnFound
  <2>1. call' = call
    BY <1>9 DEF ReturnFound
  <2>2. QED
    BY <1>9, <1>k, <2>1, SelectReturns
<1>10. CASE SelectToKernel
  <2>1. PICK tv : call' = WithTimeout(call, tv)
    BY <1>10 DEF SelectToKernel
  <2>2. /\ call'.fn = call.fn /\ call'.rfds = call.rfds /\ call'.wfds = call.wfds
        /\ call'.efds = call.efds /\ call'.left
    BY <2>1 DEF WithTimeout
  <2>3. pc = "check" /\ pc' \in {"done", "trap"} /\ UNCHANGED <<rfds, wfds, efds>>
    BY <1>10 DEF SelectToKernel, Leave, out
  <2>4. QED
    BY <2>2, <2>3 DEF SelectInv, Loop, Over, Answered
<1>11. CASE Trap
  <2>1. /\ pc = "trap" /\ pc' \in {"trap", "done"} /\ trap'.plan = trap.plan /\ UNCHANGED <<call, rfds, wfds, efds>>
    BY <1>11 DEF Trap, out
  <2>2. trap.plan # <<>>
    BY <2>1, PlanLength DEF TrapInv
  <2>3. QED
    BY <2>1, <2>2 DEF SelectInv, Loop, Over, Answered, NoTrap
<1>12. CASE OtherThreads
  <2>1. /\ UNCHANGED <<pc, call, i, r, server_sock, rfds, wfds, efds, before, took>> /\ touched \subseteq touched'
        /\ pc \in {"check", "scan", "arm", "try", "sem_wait", "give_up", "report"}
    BY <1>12 DEF OtherThreads, OtherPosts, OtherTakes, OtherWrites, locals, out
  <2>2. SelectSeen => SelectSeen'
    BY <2>1 DEF SelectSeen
  <2>3. SelectNumber => SelectNumber'
    BY <2>1 DEF SelectNumber, BelowI
  <2>4. SelectAny => SelectAny'
    BY <2>1 DEF SelectAny
  <2>5. QED
    BY <2>1, <2>2, <2>3, <2>4 DEF SelectInv, Loop, Over, Answered
<1>13. CASE UNCHANGED vars
  BY <1>13 DEF vars, locals, out, back, hist, SelectInv, Loop, Over, Answered, SelectSeen, SelectNumber,
               SelectAny, BelowI, SelectExact, Withheld, CountIsReport, ZeroIsTheKernels
<1>14. QED
  BY <1>1, <1>2, <1>3, <1>4, <1>5, <1>6, <1>7, <1>8, <1>9, <1>10, <1>11, <1>12, <1>13 DEF Next, Step
-----------------------------------------------------------------------------
(* epoll_wait *)

EpollStreams == {f \in Registered(before, call.ep, max_fd) : before[f].listening = 0}
EpollServers == {f \in Registered(before, call.ep, max_fd) : before[f].listening = 1}

EpollSeen ==
  /\ i <= max_fd
  /\ r = Cardinality(BelowI(EpollStreams))
  /\ \A f \in BelowI(EpollStreams) :
       ev[Cardinality({g \in EpollStreams : g <= f})] = before[f].data
  /\ fd_table = disarm_oneshot(before, BelowI(EpollStreams))
  /\ IF server_sock = -1 THEN BelowI(EpollServers) = {}
     ELSE /\ server_sock \in BelowI(EpollServers)
          /\ \A f \in BelowI(EpollServers) : f <= server_sock

EpollInv ==
  call.fn \in EpollFns =>
    /\ touched = {} =>
         /\ Loop \/ pc = "report" => EpollSeen
         /\ Over => i >= max_fd
         /\ pc = "return" \/ Answered => EpollExact
    /\ Answered => CountIsReport

\* Where the event of a descriptor is: the events come in the order of the descriptors.
LEMMA Position ==
  ASSUME NEW s, s \subseteq Nat, i \in Nat
  PROVE  /\ \A f \in BelowI(s) : Cardinality({g \in s : g <= f}) \in 1 .. Cardinality(BelowI(s))
         /\ i \in s => Cardinality({g \in s : g <= i}) = Cardinality(BelowI(s)) + 1
<1>1. ASSUME NEW f \in BelowI(s)
      PROVE  Cardinality({g \in s : g <= f}) \in 1 .. Cardinality(BelowI(s))
  <2> DEFINE upto == {g \in s : g <= f}
  <2>1. f \in s /\ f < i /\ f \in Nat /\ f <= f
    BY DEF BelowI
  <2>2. \A g \in s : g <= f => g < i
    BY <2>1
  <2>3. upto \subseteq BelowI(s) /\ f \in upto
    BY <2>1, <2>2 DEF BelowI
  <2>4. IsFiniteSet(BelowI(s)) /\ Cardinality(BelowI(s)) \in Nat
    BY BelowFinite
  <2>5. IsFiniteSet(upto) /\ Cardinality(upto) <= Cardinality(BelowI(s)) /\ Cardinality(upto) \in Nat
    BY <2>3, <2>4, FS_Subset, FS_CardinalityType
  <2>6. Cardinality(upto) # 0
    BY <2>3, <2>5, FS_EmptySet
  <2> HIDE DEF upto
  <2>7. Cardinality(upto) \in 1 .. Cardinality(BelowI(s))
    BY <2>4, <2>5, <2>6
  <2>8. QED
    BY <2>7 DEF upto
<1>2. ASSUME i \in s PROVE Cardinality({g \in s : g <= i}) = Cardinality(BelowI(s)) + 1
  <2>1. \A g \in s : g <= i <=> g < i + 1
    OBVIOUS
  <2>2. {g \in s : g <= i} = {g \in s : g < i + 1}
    BY <2>1
  <2>3. QED
    BY <1>2, <2>2, BelowNext
<1>3. QED
  BY <1>1, <1>2

LEMMA DisarmMore ==
  ASSUME NEW table \in Table, NEW fs, NEW f, f \notin fs
  PROVE  disarm_oneshot(disarm_oneshot(table, fs), {f}) = disarm_oneshot(table, fs \cup {f})
<1> DEFINE one == disarm_oneshot(table, fs)
<1>1. \A g \in TableFds : g = f => one[g] = table[g]
  BY DEF disarm_oneshot
<1>2. disarm_oneshot(one, {f}) =
        [g \in TableFds |-> IF g = f /\ one[g].oneshot THEN [one[g] EXCEPT !.epfd = -1] ELSE one[g]]
  BY DEF disarm_oneshot
<1>3. \A g \in TableFds :
        (IF g = f /\ one[g].oneshot THEN [one[g] EXCEPT !.epfd = -1] ELSE one[g])
          = (IF g \in fs \cup {f} /\ table[g].oneshot THEN [table[g] EXCEPT !.epfd = -1] ELSE table[g])
  <2> SUFFICES ASSUME NEW g \in TableFds
               PROVE  (IF g = f /\ one[g].oneshot THEN [one[g] EXCEPT !.epfd = -1] ELSE one[g])
                        = (IF g \in fs \cup {f} /\ table[g].oneshot
                           THEN [table[g] EXCEPT !.epfd = -1] ELSE table[g])
    OBVIOUS
  <2>1. CASE g = f
    BY <1>1, <2>1
  <2>2. CASE g # f
    BY <2>2 DEF disarm_oneshot
  <2>3. QED
    BY <2>1, <2>2
<1>4. QED
  BY <1>2, <1>3 DEF disarm_oneshot

LEMMA DisarmNone ==
  ASSUME NEW table \in Table
  PROVE  disarm_oneshot(table, {}) = table
BY DEF disarm_oneshot, Table

LEMMA EpollSets ==
  /\ EpollStreams \subseteq Nat /\ EpollServers \subseteq Nat
  /\ EpollStreams \subseteq TableFds /\ EpollServers \subseteq TableFds
  /\ \A f \in EpollStreams \cup EpollServers : f < max_fd
  /\ EpollStreams \cap EpollServers = {}
BY DEF EpollStreams, EpollServers, Registered, TableFds

\* The loop ends when every entry was looked at, or every slot is filled: what it found is
\* what a scan of the table in one step would give.
LEMMA HitsFound ==
  ASSUME EpollSeen, LibOK, LocalsOK, call.fn \in EpollFns, ~MoreEntries(r)
  PROVE  Hits(before, call.ep, max_fd, call.cnt) = BelowI(EpollStreams)
<1> DEFINE upto(f) == {g \in EpollStreams : g <= f}
<1>1. /\ i \in Nat /\ r \in Nat /\ call.cnt \in Nat /\ max_fd \in Nat /\ r <= call.cnt
      /\ i <= max_fd /\ r = Cardinality(BelowI(EpollStreams))
      /\ i >= max_fd \/ r = call.cnt
  BY DEF LocalsOK, LibOK, EpollSeen, MoreEntries
<1>2. Hits(before, call.ep, max_fd, call.cnt) = {f \in EpollStreams : Cardinality(upto(f)) <= call.cnt}
  BY DEF Hits, EpollStreams
<1>3. ASSUME NEW f \in BelowI(EpollStreams) PROVE f \in EpollStreams /\ Cardinality(upto(f)) <= call.cnt
  <2>1. Cardinality(upto(f)) \in 1 .. r
    BY <1>1, EpollSets, Position
  <2>2. QED
    BY <1>1, <2>1 DEF BelowI
<1>4. ASSUME NEW f \in EpollStreams, f \notin BelowI(EpollStreams) PROVE ~(Cardinality(upto(f)) <= call.cnt)
  <2>1. f \in Nat /\ f >= i /\ f < max_fd /\ f \in TableFds /\ f <= f
    BY <1>1, <1>4, EpollSets DEF BelowI
  <2>2. r = call.cnt
    BY <1>1, <2>1
  <2>3. \A g \in BelowI(EpollStreams) : g <= f
    BY <1>1, <2>1, EpollSets DEF BelowI
  <2>4. BelowI(EpollStreams) \cup {f} \subseteq upto(f)
    BY <2>1, <2>3 DEF BelowI
  <2>5. IsFiniteSet(upto(f))
    <3>1. IsFiniteSet(TableFds)
      BY FdTableAssumption, FS_Interval DEF TableFds
    <3>2. upto(f) \subseteq TableFds
      BY EpollSets
    <3>3. QED
      BY <3>1, <3>2, FS_Subset
  <2>6. Cardinality(BelowI(EpollStreams) \cup {f}) = r + 1
    <3>1. IsFiniteSet(BelowI(EpollStreams))
      BY <1>1, EpollSets, BelowFinite
    <3>2. QED
      BY <1>1, <1>4, <3>1, FS_AddElement
  <2>7. r + 1 <= Cardinality(upto(f)) /\ Cardinality(upto(f)) \in Nat
    BY <2>4, <2>5, <2>6, FS_Subset, FS_CardinalityType
  <2> HIDE DEF upto
  <2>8. QED
    BY <1>1, <2>2, <2>7
<1> HIDE DEF upto
<1>5. QED
  BY <1>2, <1>3, <1>4 DEF BelowI

LEMMA EpollScanReports ==
  ASSUME EpollInv, HistInv, TypeInv, EpollScan
  PROVE  EpollInv'
<1> USE DEF PollFns, SelectFns, EpollFns
<1> DEFINE found  == fd_table[i].desock = 1 /\ fd_table[i].epfd = call.ep
           stream == found /\ fd_table[i].listening = 0
<1>1. LocalsOK /\ PlaceOK /\ LibOK
  BY DEF TypeInv
<1>2. /\ pc = "scan" /\ pc' = "scan" /\ call' = call /\ call.fn \in EpollFns
      /\ i < max_fd /\ r < call.cnt /\ i' = i + 1
      /\ server_sock' = IF found /\ ~stream THEN i ELSE server_sock
      /\ ev' = IF stream THEN Append(ev, fd_table[i].data) ELSE ev
      /\ r' = IF stream THEN r + 1 ELSE r
      /\ fd_table' = IF stream THEN disarm_oneshot(fd_table, {i}) ELSE fd_table
      /\ UNCHANGED <<max_fd, before, touched>>
  BY DEF EpollScan, MoreEntries, hist
<1>3. SUFFICES ASSUME touched = {} PROVE EpollSeen'
  BY <1>2 DEF EpollInv, Loop, Over, Answered
<1>4. EpollSeen /\ before \in Table
  BY <1>2, <1>3 DEF EpollInv, HistInv, Loop
<1>5. /\ i \in Nat /\ r \in Nat /\ max_fd \in Nat /\ i \in TableFds /\ server_sock \in Int
      /\ ev \in Seq(Fds) /\ r = Len(ev) /\ fd_table \in Table
  BY <1>1, <1>2, FdTableAssumption DEF LocalsOK, LibOK, TableFds
<1>6. i \notin BelowI(EpollStreams) /\ fd_table[i] = before[i] /\ before[i].listening \in {0, 1}
  <2>1. i \notin BelowI(EpollStreams)
    BY <1>5 DEF BelowI
  <2>2. fd_table[i] = before[i]
    BY <1>4, <1>5, <2>1 DEF EpollSeen, disarm_oneshot
  <2>3. before[i].listening \in {0, 1}
    BY <1>4, <1>5 DEF Table, Entry
  <2>4. QED
    BY <2>1, <2>2, <2>3
<1>7. (stream <=> i \in EpollStreams) /\ (found /\ ~stream <=> i \in EpollServers)
  BY <1>2, <1>5, <1>6 DEF EpollStreams, EpollServers, Registered
<1> HIDE DEF found, stream
<1>8. /\ EpollStreams' = EpollStreams /\ EpollServers' = EpollServers
      /\ BelowI(EpollStreams)' = {f \in EpollStreams : f < i + 1}
      /\ BelowI(EpollServers)' = {f \in EpollServers : f < i + 1}
  BY <1>2 DEF EpollStreams, EpollServers, Registered, BelowI
<1>9. \A f \in EpollStreams \cup EpollServers : f < i + 1 <=> f < i \/ f = i
  BY <1>5, EpollSets
<1>10. i' <= max_fd
  BY <1>2, <1>5
<1>11. CASE stream
  <2>1. i \in EpollStreams /\ i \notin EpollServers
    BY <1>7, <1>11
  <2>2. BelowI(EpollStreams)' = BelowI(EpollStreams) \cup {i} /\ BelowI(EpollServers)' = BelowI(EpollServers)
    BY <1>8, <1>9, <2>1 DEF BelowI
  <2>3. r' = Cardinality(BelowI(EpollStreams)')
    <3>1. IsFiniteSet(BelowI(EpollStreams))
      BY <1>5, EpollSets, BelowFinite
    <3>2. QED
      BY <1>2, <1>4, <1>6, <1>11, <2>2, <3>1, FS_AddElement DEF EpollSeen
  <2>4. ev' = Append(ev, before[i].data) /\ before[i].data \in Fds
    BY <1>2, <1>4, <1>5, <1>6, <1>11 DEF Table, Entry
  <2>5. ASSUME NEW f \in BelowI(EpollStreams) \cup {i}
        PROVE  ev'[Cardinality({g \in EpollStreams : g <= f})] = before[f].data
    <3>1. CASE f = i
      <4>1. Cardinality({g \in EpollStreams : g <= i}) = r + 1
        BY <1>4, <1>5, <2>1, EpollSets, Position DEF EpollSeen
      <4>2. ev'[Len(ev) + 1] = before[i].data
        BY <1>5, <2>4
      <4>3. QED
        BY <1>5, <3>1, <4>1, <4>2
    <3>2. CASE f \in BelowI(EpollStreams)
      <4> DEFINE p == Cardinality({g \in EpollStreams : g <= f})
      <4>1. p \in 1 .. Len(ev) /\ ev[p] = before[f].data
        BY <1>4, <1>5, <3>2, EpollSets, Position DEF EpollSeen
      <4> HIDE DEF p
      <4>2. ev'[p] = ev[p]
        BY <1>5, <2>4, <4>1
      <4>3. QED
        BY <4>1, <4>2 DEF p
    <3>3. QED
      BY <3>1, <3>2
  <2>6. fd_table' = disarm_oneshot(before, BelowI(EpollStreams) \cup {i})
    BY <1>2, <1>4, <1>6, <1>11, DisarmMore DEF EpollSeen
  <2>7. server_sock' = server_sock
    BY <1>2, <1>11
  <2>8. IF server_sock = -1 THEN BelowI(EpollServers) = {}
        ELSE server_sock \in BelowI(EpollServers) /\ \A f \in BelowI(EpollServers) : f <= server_sock
    BY <1>4 DEF EpollSeen
  <2>9. QED
    BY <1>2, <1>8, <1>10, <2>2, <2>3, <2>5, <2>6, <2>7, <2>8 DEF EpollSeen
<1>12. CASE ~stream
  <2>1. i \notin EpollStreams /\ BelowI(EpollStreams)' = BelowI(EpollStreams)
    BY <1>7, <1>8, <1>9, <1>12 DEF BelowI
  <2>2. UNCHANGED <<ev, r, fd_table>>
    BY <1>2, <1>12
  <2>3. /\ r' = Cardinality(BelowI(EpollStreams)')
        /\ \A f \in BelowI(EpollStreams)' : ev'[Cardinality({g \in EpollStreams' : g <= f})] = before'[f].data
        /\ fd_table' = disarm_oneshot(before', BelowI(EpollStreams)')
    BY <1>2, <1>4, <1>8, <2>1, <2>2 DEF EpollSeen
  <2>4. IF server_sock' = -1 THEN BelowI(EpollServers)' = {}
        ELSE /\ server_sock' \in BelowI(EpollServers)'
             /\ \A f \in BelowI(EpollServers)' : f <= server_sock'
    <3>1. CASE found
      <4>1. i \in EpollServers /\ server_sock' = i /\ i # -1 /\ i <= i /\ i < i + 1
        BY <1>2, <1>5, <1>7, <1>12, <3>1
      <4>2. \A f \in BelowI(EpollServers)' : f <= i
        <5>1. \A f \in EpollServers : f \in Nat
          BY EpollSets
        <5>2. \A f \in EpollServers : f < i + 1 => f <= i
          BY <1>5, <5>1
        <5>3. QED
          BY <1>8, <5>2
      <4>3. QED
        BY <1>8, <4>1, <4>2
    <3>2. CASE ~found
      <4>1. i \notin EpollServers /\ server_sock' = server_sock
        BY <1>2, <1>7, <3>2
      <4>2. BelowI(EpollServers)' = BelowI(EpollServers)
        BY <1>8, <1>9, <4>1 DEF BelowI
      <4>3. QED
        BY <1>4, <4>1, <4>2 DEF EpollSeen
    <3>3. QED
      BY <3>1, <3>2
  <2>5. QED
    BY <1>2, <1>10, <2>3, <2>4 DEF EpollSeen
<1>13. QED
  BY <1>11, <1>12

\* What epoll_wait reports when the server socket is left out.
LEMMA EpollReportsStreams ==
  ASSUME EpollSeen, LibOK, LocalsOK, call.fn \in EpollFns, ~MoreEntries(r), took = "no"
  PROVE  EpollExact
<1> DEFINE hits == Hits(before, call.ep, max_fd, call.cnt)
<1>1. hits = BelowI(EpollStreams)
  BY HitsFound
<1>2. hits \subseteq EpollStreams
  BY <1>1 DEF BelowI
<1>3. Len(ev) = Cardinality(hits) /\ Cardinality(hits) \in Nat /\ Cardinality({}) = 0
  BY <1>1, FS_EmptySet DEF EpollSeen, LocalsOK
<1>4. ASSUME NEW f \in hits PROVE ev[Cardinality({g \in hits : g <= f})] = before[f].data
  <2>1. f \in BelowI(EpollStreams) /\ f < i /\ f \in Nat /\ i \in Nat
    BY <1>1, EpollSets DEF BelowI, LocalsOK
  <2>2. \A g \in EpollStreams : g <= f => g < i
    BY <2>1, EpollSets
  <2>3. {g \in hits : g <= f} = {g \in EpollStreams : g <= f}
    BY <1>1, <2>2 DEF BelowI
  <2>4. QED
    BY <2>1, <2>3 DEF EpollSeen
<1>5. fd_table = disarm_oneshot(before, hits \cup {})
  BY <1>1 DEF EpollSeen
<1> HIDE DEF hits
<1>6. QED
  BY <1>3, <1>4, <1>5 DEF EpollExact, hits

\* The server socket gets the slot after the connections.
LEMMA EpollReportsServer ==
  ASSUME EpollInv, HistInv, TypeInv, TokenInv, EpollReport, touched = {}
  PROVE  EpollExact'
<1> USE DEF EpollFns
<1> DEFINE hits == Hits(before, call.ep, max_fd, call.cnt)
           servers == WaitServer(before, call.ep, max_fd, call.cnt)
<1>1. LocalsOK /\ PlaceOK /\ LibOK
  BY DEF TypeInv
<1>2. /\ pc = "report" /\ ev' = Append(ev, fd_table[server_sock].data)
      /\ fd_table' = disarm_oneshot(fd_table, {server_sock})
      /\ UNCHANGED <<max_fd, call, before, took>>
  BY DEF EpollReport, hist
<1>3. /\ call.fn \in EpollFns /\ took # "no" /\ server_sock > -1 /\ r < call.cnt /\ i >= max_fd
      /\ EpollSeen /\ before \in Table
  BY <1>1, <1>2 DEF PlaceOK, TokenInv, EpollInv, HistInv, Over
<1>4. /\ i \in Nat /\ r \in Nat /\ max_fd \in Nat /\ call.cnt \in Nat /\ r = Len(ev)
      /\ ev \in Seq(Fds) /\ server_sock \in TableFds
  BY <1>1, <1>3 DEF LocalsOK, LibOK
<1>5. hits = BelowI(EpollStreams)
  BY <1>1, <1>3, <1>4, HitsFound DEF MoreEntries
<1>6. BelowI(EpollServers) = EpollServers
  <2>1. \A f \in EpollServers : f < i
    BY <1>3, <1>4, EpollSets
  <2>2. QED
    BY <2>1 DEF BelowI
<1>7. server_sock \in EpollServers /\ \A f \in EpollServers : f <= server_sock
  BY <1>3, <1>4, <1>6 DEF EpollSeen
<1>8. server_sock \notin hits /\ Cardinality(hits) = r /\ Cardinality(hits) # call.cnt
  BY <1>3, <1>4, <1>5, <1>7, EpollSets DEF BelowI, EpollSeen
<1>9. servers = {server_sock}
  <2>1. servers = {f \in EpollServers : \A g \in EpollServers : g <= f}
    BY <1>8 DEF WaitServer, EpollServers
  <2>2. \A f \in EpollServers : server_sock <= f => f = server_sock
    BY <1>4, <1>7, EpollSets
  <2>3. QED
    BY <1>7, <2>1, <2>2
<1>10. before[server_sock].data \in Fds /\ ev' = Append(ev, before[server_sock].data)
  <2>1. fd_table[server_sock] = before[server_sock]
    BY <1>3, <1>4, <1>5, <1>8 DEF EpollSeen, disarm_oneshot
  <2>2. before[server_sock].data \in Fds
    BY <1>3, <1>4 DEF Table, Entry
  <2>3. QED
    BY <1>2, <2>1, <2>2
<1>11. Len(ev') = r + 1 /\ ev'[Len(ev')] = before[server_sock].data
  BY <1>4, <1>10
<1>12. ASSUME NEW f \in hits PROVE ev'[Cardinality({g \in hits : g <= f})] = before[f].data
  <2>1. f \in BelowI(EpollStreams) /\ f < i /\ f \in Nat
    BY <1>5, EpollSets DEF BelowI
  <2>2. \A g \in EpollStreams : g <= f => g < i
    BY <1>4, <2>1, EpollSets
  <2>3. {g \in hits : g <= f} = {g \in EpollStreams : g <= f}
    BY <1>5, <2>2 DEF BelowI
  <2> DEFINE p == Cardinality({g \in hits : g <= f})
  <2>4. p \in 1 .. Len(ev) /\ ev[p] = before[f].data
    BY <1>3, <1>4, <2>1, <2>3, EpollSets, Position DEF EpollSeen
  <2> HIDE DEF p
  <2>5. ev'[p] = ev[p]
    BY <1>4, <1>10, <2>4
  <2>6. QED
    BY <2>4, <2>5 DEF p
<1>13. fd_table' = disarm_oneshot(before, hits \cup {server_sock})
  BY <1>2, <1>3, <1>5, <1>8, DisarmMore DEF EpollSeen
<1>14. Cardinality({server_sock}) = 1
  BY FS_Singleton
<1>15. Len(ev') = Cardinality(hits) + Cardinality(servers)
  BY <1>8, <1>9, <1>11, <1>14
<1> HIDE DEF hits, servers
<1>16. QED
  <2>1. /\ hits' = hits /\ servers' = servers
    BY <1>2 DEF hits, servers
  <2>2. \A f \in servers : ev'[Len(ev')] = before[f].data
    BY <1>9, <1>11
  <2>3. QED
    BY <1>2, <1>3, <1>9, <1>12, <1>13, <1>15, <2>1, <2>2 DEF EpollExact, hits, servers

LEMMA EpollInductive ==
  EpollInv /\ HistInv /\ TypeInv /\ TokenInv /\ TrapInv /\ [Next]_vars => EpollInv'
<1> SUFFICES ASSUME EpollInv, HistInv, TypeInv, TokenInv, TrapInv, [Next]_vars PROVE EpollInv'
  OBVIOUS
<1> USE DEF PollFns, SelectFns, EpollFns
<1>a. LocalsOK /\ PlaceOK /\ LibOK
  BY DEF TypeInv
<1>k. ASSUME call'.fn \notin EpollFns PROVE EpollInv'
  BY <1>k DEF EpollInv
<1>l. ASSUME UNCHANGED <<call, i, r, server_sock, ev, fd_table, max_fd, before, touched>>,
             EpollSeen
      PROVE  EpollSeen'
  BY <1>l DEF EpollSeen, EpollStreams, EpollServers, Registered, BelowI
<1>1. CASE NextCall \/ PollCall \/ SelectCall \/ SocketCall
  <2>1. call'.fn \notin EpollFns
    <3>1. CASE NextCall
      BY <3>1 DEF NextCall, NoCall
    <3>2. CASE PollCall
      BY <3>2 DEF PollCall, Begin
    <3>3. CASE SelectCall
      BY <3>3 DEF SelectCall, Begin
    <3>4. CASE SocketCall
      <4>1. call' = [fn |-> "socketcall"]
        BY <3>4 DEF SocketCall
      <4>2. QED
        BY <4>1
    <3>5. QED
      BY <1>1, <3>1, <3>2, <3>3, <3>4
  <2>2. QED
    BY <1>k, <2>1
<1>2. CASE EpollWaitCall
  <2>1. /\ pc = "idle" /\ pc' = "scan" /\ UNCHANGED <<i, r, server_sock, ev, fd_table, max_fd, before, touched>>
    BY <1>2 DEF EpollWaitCall, Begin, locals, lib, hist
  <2>2. i' = 0 /\ r' = 0 /\ server_sock' = -1 /\ before = fd_table /\ fd_table \in Table /\ max_fd \in Nat
    BY <1>a, <2>1 DEF LocalsOK, LibOK, HistInv
  <2>3. EpollStreams' \subseteq Nat /\ EpollServers' \subseteq Nat
    BY DEF EpollStreams, EpollServers, Registered, TableFds
  <2>4. BelowI(EpollStreams)' = {} /\ BelowI(EpollServers)' = {}
    <3>1. \A f \in Nat : ~(f < i')
      BY <2>2
    <3>2. QED
      BY <2>3, <3>1 DEF BelowI
  <2>5. fd_table' = disarm_oneshot(before', {})
    BY <2>1, <2>2, DisarmNone
  <2>6. EpollSeen'
    BY <2>1, <2>2, <2>4, <2>5, FS_EmptySet DEF EpollSeen
  <2>7. QED
    BY <2>1, <2>6 DEF EpollInv, Loop, Over, Answered
<1>3. CASE PollScan \/ SelectCheck \/ SelectScan \/ SelectToKernel
  <2>1. call.fn \notin EpollFns
    BY <1>3, <1>a DEF PollScan, SelectCheck, SelectScan, SelectToKernel, PlaceOK
  <2>2. call'.fn = call.fn
    <3>1. call' = call \/ \E tv : call' = WithTimeout(call, tv)
      BY <1>3 DEF PollScan, SelectCheck, SelectScan, SelectToKernel, Tested
    <3>2. ASSUME NEW tv, call' = WithTimeout(call, tv) PROVE call'.fn = call.fn
      BY <3>2 DEF WithTimeout
    <3>3. QED
      BY <3>1, <3>2
  <2>3. QED
    BY <1>k, <2>1, <2>2
<1>4. CASE EpollScan
  BY <1>4, EpollScanReports
<1>5. CASE Scanned
  <2>1. /\ pc = "scan" /\ UNCHANGED <<call, i, r, server_sock, ev, fd_table, max_fd, before, touched, took>>
        /\ \/ pc' = "arm" /\ (call.fn \in EpollFns => r < call.cnt)
           \/ pc' = "return"
        /\ call.fn \in EpollFns => ~MoreEntries(r)
    BY <1>5 DEF Scanned, Tested, locals, lib, hist
  <2>2. SUFFICES ASSUME call.fn \in EpollFns, touched = {} PROVE EpollInv'
    BY <1>k, <2>1 DEF EpollInv, Answered
  <2>3. EpollSeen /\ took = "no" /\ r \in Nat /\ i \in Nat /\ max_fd \in Nat /\ call.cnt \in Nat
    BY <1>a, <2>1, <2>2 DEF EpollInv, Loop, TokenInv, LocalsOK, LibOK
  <2>4. EpollExact
    BY <1>a, <2>1, <2>2, <2>3, EpollReportsStreams
  <2>5. EpollExact'
    BY <2>1, <2>4 DEF EpollExact
  <2>6. pc' = "arm" => i >= max_fd
    BY <2>1, <2>2, <2>3 DEF MoreEntries
  <2>7. QED
    BY <1>l, <2>1, <2>3, <2>5, <2>6 DEF EpollInv, Loop, Over, Answered
<1>6. CASE Arm \/ TryWait \/ SemWait \/ SemWaitInterrupted
  <2>1. /\ pc \in {"arm", "try", "sem_wait"}
        /\ UNCHANGED <<call, i, r, server_sock, ev, fd_table, max_fd, before, touched>>
        /\ \/ pc' \in {"try", "sem_wait", "give_up"}
           \/ pc' = (IF call.fn \in EpollFns THEN "report" ELSE "return")
    BY <1>6 DEF Arm, TryWait, SemWait, SemWaitInterrupted, Took, Tested, locals, out, lib, hist
  <2>2. QED
    BY <1>l, <2>1 DEF EpollInv, Loop, Over, Answered
<1>7. CASE GiveUp
  <2>1. /\ pc = "give_up" /\ pc' = "return" /\ UNCHANGED <<call, ev, fd_table, max_fd, before, touched, took>>
    BY <1>7 DEF GiveUp, hist
  <2>2. SUFFICES ASSUME call.fn \in EpollFns, touched = {} PROVE EpollInv'
    BY <1>k, <2>1 DEF EpollInv, Answered
  <2>3. EpollSeen /\ took = "no" /\ i >= max_fd /\ i \in Nat /\ max_fd \in Nat
    BY <1>a, <2>1, <2>2 DEF EpollInv, Loop, Over, TokenInv, LocalsOK, LibOK
  <2>4. ~MoreEntries(r)
    BY <2>3 DEF MoreEntries
  <2>5. EpollExact
    BY <1>a, <2>2, <2>3, <2>4, EpollReportsStreams
  <2>6. EpollExact'
    BY <2>1, <2>5 DEF EpollExact
  <2>7. QED
    BY <2>1, <2>6 DEF EpollInv, Loop, Over, Answered
<1>8. CASE EpollReport
  <2>1. pc' = "return" /\ UNCHANGED <<call, touched>>
    BY <1>8 DEF EpollReport, hist
  <2>2. touched = {} => EpollExact'
    BY <1>8, EpollReportsServer
  <2>3. QED
    BY <2>1, <2>2 DEF EpollInv, Loop, Over, Answered
<1>9. CASE ReturnFound \/ epoll_pwait2_unsupported
  <2>1. /\ pc = "return" /\ pc' = "done" /\ UNCHANGED <<call, ev, r, fd_table, max_fd, before, touched, took>>
        /\ result' = [ret |-> r, errno |-> 0] \/ result' = [ret |-> -1, errno |-> ENOSYS]
    BY <1>9 DEF ReturnFound, epoll_pwait2_unsupported, locals, out, lib, hist
  <2>2. SUFFICES ASSUME call.fn \in EpollFns PROVE EpollInv'
    BY <1>k, <2>1
  <2>3. touched = {} => EpollExact'
    BY <2>1, <2>2 DEF EpollInv, EpollExact
  <2>4. CountIsReport'
    <3>1. result'.errno = 0 => result'.ret = Len(ev)
      BY <1>a, <2>1, <2>2 DEF ENOSYS, LocalsOK
    <3>2. QED
      BY <2>1, <2>2, <3>1 DEF CountIsReport
  <2>5. QED
    BY <2>1, <2>3, <2>4 DEF EpollInv, Loop, Over
<1>10. CASE PollOrEpollToKernel
  BY <1>10 DEF PollOrEpollToKernel, Leave, EpollInv, Loop, Over, Answered
<1>11. CASE Trap
  <2>1. pc = "trap" /\ pc' \in {"trap", "done"} /\ trap'.plan = trap.plan
    BY <1>11 DEF Trap
  <2>2. trap.plan # <<>>
    BY <2>1, PlanLength DEF TrapInv
  <2>3. QED
    BY <2>1, <2>2 DEF EpollInv, Loop, Over, Answered, NoTrap
<1>12. CASE OtherThreads
  <2>1. /\ UNCHANGED <<pc, call, i, r, server_sock, ev, before>>
        /\ UNCHANGED <<fd_table, max_fd, touched>> \/ touched' # {}
        /\ pc \in {"check", "scan", "arm", "try", "sem_wait", "give_up", "report"}
    BY <1>12 DEF OtherThreads, OtherPosts, OtherTakes, OtherWrites, locals, out
  <2>2. QED
    BY <1>l, <2>1 DEF EpollInv, Loop, Over, Answered
<1>13. CASE UNCHANGED vars
  <2>1. UNCHANGED <<pc, call, i, r, server_sock, ev, fd_table, max_fd, before, touched, took, trap, result, fds, rfds, wfds>>
    BY <1>13 DEF vars, lib, locals, out, back, hist
  <2>2. QED
    BY <1>l, <2>1 DEF EpollInv, Loop, Over, Answered, EpollExact, CountIsReport
<1>14. QED
  BY <1>1, <1>2, <1>3, <1>4, <1>5, <1>6, <1>7, <1>8, <1>9, <1>10, <1>11, <1>12, <1>13 DEF Next, Step
-----------------------------------------------------------------------------
ReportInv == PollInv /\ SelectInv /\ EpollInv

\* everything the reports rest on
AllInv == TypeInv /\ TrapInv /\ SleepInv /\ TokenInv /\ HistInv /\ ReportInv

LEMMA InitAll == Init => AllInv
<1> SUFFICES ASSUME Init PROVE AllInv
  OBVIOUS
<1>1. TypeInv
  BY InitTypes
<1>2. pc = "idle" /\ call.fn = "none" /\ before = fd_table /\ touched = {} /\ took = "no"
  BY DEF Init, NoCall
<1>3. TrapInv /\ SleepInv /\ TokenInv
  BY DEF Init, TokenInv, TokenForReport, Answered, SleepInv, NoTrap, TrapInv, CarriedOutOnce
<1>4. HistInv
  BY <1>1, <1>2 DEF HistInv, Same, TypeInv, LibOK
<1>5. ReportInv
  BY <1>2 DEF ReportInv, PollInv, SelectInv, EpollInv, PollFns, SelectFns, EpollFns
<1>6. QED
  BY <1>1, <1>3, <1>4, <1>5 DEF AllInv

LEMMA AllInvariant == Spec => []AllInv
<1>1. AllInv /\ [Next]_vars => AllInv'
  BY TypeInductive, TrapInductive, SleepInductive, TokenInductive, HistInductive, PollInductive,
     SelectInductive, EpollInductive DEF AllInv, ReportInv
<1>2. QED
  BY <1>1, InitAll, PTL DEF Spec

\* However many entries other threads write while a loop runs, what the application is
\* told of every other descriptor is what its entry said at the call: the loops of poll,
\* select and do_wait come to one look at the table (src/poll.c:13-46, src/select.c:27-69,
\* src/epoll.c:43-95).
THEOREM LoopsAreOneLook == Spec => []ReportIsExact
<1>1. AllInv => ReportIsExact
  BY DEF AllInv, ReportInv, PollInv, SelectInv, EpollInv, ReportIsExact
<1>2. QED
  BY <1>1, AllInvariant, PTL

\* And the number returned is the number of descriptors reported, whatever is written
\* meanwhile (src/poll.c:22-46, src/select.c:38-69, src/epoll.c:53-95).
THEOREM CountsAgree == Spec => []CountIsReport
<1>1. AllInv => CountIsReport
  <2> SUFFICES ASSUME AllInv, Answered PROVE CountIsReport
    BY DEF CountIsReport
  <2>1. call.fn \in PollFns \cup SelectFns \cup EpollFns
    BY DEF Answered
  <2>2. QED
    BY <2>1 DEF AllInv, ReportInv, PollInv, SelectInv, EpollInv
<1>2. QED
  BY <1>1, AllInvariant, PTL

\* A call that libdesock answers itself has found something; only select returns 0, and
\* only if another thread interfered or a listener is waited for in wfds (src/poll.c:53-57,
\* src/select.c:12-25, src/epoll.c:97-101).
THEOREM ZeroFromKernelOnly == Spec => []ZeroIsTheKernels
<1> DEFINE NotZero == pc = "done" /\ trap = NoTrap /\ call.fn \in PollFns \cup EpollFns => result.ret # 0
<1>1. AllInv /\ NotZero /\ [Next]_vars => NotZero'
  <2> SUFFICES ASSUME AllInv, NotZero, [Next]_vars, pc' = "done", trap' = NoTrap,
                      call'.fn \in PollFns \cup EpollFns
               PROVE  result'.ret # 0
    OBVIOUS
  <2> USE DEF PollFns, SelectFns, EpollFns
  <2>0. PlaceOK /\ LocalsOK
    BY DEF AllInv, TypeInv
  <2>1. CASE ReturnFound
    <3>1. call' = call /\ result' = [ret |-> r, errno |-> 0] /\ (r > 0 \/ call.fn \in SelectFns)
      BY <2>1 DEF ReturnFound
    <3>2. QED
      BY <2>0, <3>1 DEF LocalsOK
  <2>2. CASE epoll_pwait2_unsupported
    BY <2>2 DEF epoll_pwait2_unsupported
  <2>3. CASE SelectToKernel
    <3>1. PICK tv : call' = WithTimeout(call, tv)
      BY <2>3 DEF SelectToKernel
    <3>2. call.fn \in SelectFns
      BY <2>0, <2>3 DEF SelectToKernel, PlaceOK
    <3>3. QED
      BY <3>1, <3>2 DEF WithTimeout
  <2>4. CASE Trap
    <3>1. trap'.plan = trap.plan /\ pc = "trap"
      BY <2>4 DEF Trap
    <3>2. trap.plan # <<>>
      BY <3>1, PlanLength DEF AllInv, TrapInv
    <3>3. QED
      BY <3>1, <3>2 DEF NoTrap
  <2>5. CASE OtherThreads \/ UNCHANGED vars
    BY <2>5 DEF OtherThreads, vars, back
  <2>6. CASE ~(ReturnFound \/ epoll_pwait2_unsupported \/ SelectToKernel \/ Trap \/ OtherThreads
               \/ UNCHANGED vars)
    BY <2>6 DEF Next, Step, NextCall, PollCall, SelectCall, EpollWaitCall, SocketCall, Begin, PollScan,
                SelectCheck, SelectScan, EpollScan, Scanned, Tested, Arm, TryWait, SemWait,
                SemWaitInterrupted, Took, GiveUp, EpollReport, PollOrEpollToKernel, Leave
  <2>7. QED
    BY <2>1, <2>2, <2>3, <2>4, <2>5, <2>6
<1>2. Init => NotZero
  BY DEF Init
<1>3. AllInv /\ NotZero => ZeroIsTheKernels
  <2> SUFFICES ASSUME AllInv, NotZero, Answered, result.ret = 0 PROVE ZeroIsTheKernels
    BY DEF ZeroIsTheKernels
  <2>1. call.fn \in SelectFns
    BY DEF Answered
  <2>2. QED
    BY <2>1 DEF AllInv, ReportInv, SelectInv
<1>4. QED
  BY <1>1, <1>2, <1>3, AllInvariant, PTL DEF Spec
==============================================================================
