--------------------------- MODULE Blocking_proofs --------------------------
(***************************************************************************)
(* Applications that open files, accept connections, ask for their         *)
(* addresses and close both (no poll, no dup, no signal handlers), with    *)
(* any number of threads and any size of the tables.  Tokens and their     *)
(* holders never exceed MAX_CONNS, so at most MAX_CONNS connections are    *)
(* open at a time; what accept returns is a socket served from the hooks   *)
(* for as long as the application has it; if there are descriptors enough, *)
(* no token is lost; and every behaviour is one that module Pool allows.   *)
(* For every application without multiplexers: the only places where a     *)
(* token may be lost.                                                      *)
(***************************************************************************)
EXTENDS ConnPool_proofs, WellFoundedInduction

BlockingApp ==
  /\ Signals = {}
  /\ \A t \in Threads :
       Calls[t] \subseteq
         {"socket", "bind", "connect", "listen", "open", "accept", "getname", "close"}

NoMultiplexers == \A t \in Threads : ~EventLoop(t)

-----------------------------------------------------------------------------
(* Counting holders *)

LEMMA FdsFinite == IsFiniteSet(Fds)
BY FdTableAssumption, FS_Interval DEF Fds

\* A copy of a set whose elements carry a tag is as large as the set.
LEMMA TaggedCardinality ==
  ASSUME NEW S, IsFiniteSet(S), NEW tag
  PROVE  /\ IsFiniteSet({<<tag, x>> : x \in S})
         /\ Cardinality({<<tag, x>> : x \in S}) = Cardinality(S)
<1> DEFINE T == {<<tag, x>> : x \in S}
           b == [x \in S |-> <<tag, x>>]
<1>1. b \in Bijection(S, T)
  <2>1. b \in [S -> T]
    OBVIOUS
  <2>2. \A x, y \in S : b[x] = b[y] => x = y
    OBVIOUS
  <2>3. \A y \in T : \E x \in S : b[x] = y
    OBVIOUS
  <2>4. QED
    BY <2>1, <2>2, <2>3 DEF Bijection, Injection, Surjection, IsInjective
<1>2. ExistsBijection(S, T)
  BY <1>1 DEF ExistsBijection
<1>3. QED
  BY <1>2, FS_Bijection

\* The holders are the connections and the threads that owe a token.
HoldersAdd ==
  /\ IsFiniteSet(Conns) /\ Cardinality(Conns) \in Nat
  /\ IsFiniteSet(Owing) /\ Cardinality(Owing) \in Nat
  /\ Cardinality(Holders) = Cardinality(Conns) + Cardinality(Owing)

LEMMA HoldersCount == HoldersAdd
<1>1. IsFiniteSet(Conns) /\ IsFiniteSet(Owing)
  BY FdsFinite, ConnPoolAssumption, FS_Subset DEF Conns, Owing
<1>2. Cardinality(Conns) \in Nat /\ Cardinality(Owing) \in Nat
  BY <1>1, FS_CardinalityType
<1> DEFINE C == {<<"fd", f>> : f \in Conns}
           O == {<<"thread", t>> : t \in Owing}
<1>3. /\ IsFiniteSet(C) /\ Cardinality(C) = Cardinality(Conns)
      /\ IsFiniteSet(O) /\ Cardinality(O) = Cardinality(Owing)
  BY <1>1, TaggedCardinality
<1>4. C \cap O = {}
  OBVIOUS
<1>5. Cardinality(C \cup O) = Cardinality(C) + Cardinality(O) - Cardinality(C \cap O)
  <2> HIDE DEF C, O
  <2>1. QED
    BY <1>3, FS_Union
<1>6. Cardinality(C \cap O) = 0
  BY <1>4, FS_EmptySet
<1>7. Holders = C \cup O
  BY DEF Holders
<1>8. QED
  BY <1>1, <1>2, <1>3, <1>5, <1>6, <1>7 DEF HoldersAdd

-----------------------------------------------------------------------------
(* What such an application never does, and what its calls look like inside *)

AcceptLabels == {"block", "sem_wait", "set_block", "dup", "clone", "unlisten", "fill"}

\* a thread is at label l of function fn
Inside(l, fn) ==
  \/ l = "idle" /\ fn = "none"
  \/ l = "name" /\ fn = "getname"
  \/ l \in AcceptLabels /\ fn = "accept"
  \/ l = "copy" /\ fn = "dup"
  \/ l \in {"check_max", "write_max"} /\ fn \in {"accept", "socket", "dup"}
  \/ l \in CloseLabels /\ fn = "close"

\* no poll, select or epoll_wait: the flag stays up and nothing is reported
Plain ==
  /\ accept_block = 1
  /\ \A t \in Threads : ready[t] = {} /\ Inside(pc[t], call[t])

Blocking ==
  /\ Plain
  /\ \A f \in Fds : origin[f] # "copy"
  /\ \A t \in Threads : call[t] # "dup"

\* a thread at label l inside function fn owes a token
OwesAt(l, fn) ==
  \/ l \in {"set_block", "dup", "clone", "unlisten", "fill", "getvalue", "post"}
  \/ l \in {"check_max", "write_max"} /\ fn = "accept"

OwingChar == Plain => Owing = {t \in Threads : OwesAt(pc[t], call[t])}

LEMMA OwingIs == OwingChar
BY DEF OwingChar, Plain, Inside, Owing, Reserving, Accepting, Posting, OwesAt, AcceptLabels,
       CloseLabels

\* The calls that are left without multiplexers.
PlainStep(t) ==
  \/ OpenCall(t) \/ SocketCall(t) \/ BindCall(t) \/ ConnectCall(t) \/ ListenCall(t)
  \/ AcceptCall(t) \/ GetNameCall(t) \/ CloseCall(t) \/ DupCall(t) \/ Dup2Call(t)
  \/ EpollCtlCall(t)
  \/ AcceptBlock(t) \/ SemWait(t) \/ SemWaitInterrupted(t) \/ AcceptSetBlock(t)
  \/ AcceptDupFails(t) \/ AcceptDup(t) \/ AcceptClone(t) \/ AcceptUnlisten(t)
  \/ FillSockaddr(t) \/ CheckMax(t) \/ WriteMax(t)
  \/ CloseGetValue(t) \/ ClosePost(t) \/ CloseClear(t) \/ CloseSysClose(t) \/ CopyEntry(t)

LEMMA OnlyPlainSteps ==
  ASSUME NoMultiplexers, Plain, NEW t \in Threads, AppCall(t) \/ LibStep(t)
  PROVE  PlainStep(t)
<1>1. ~(PollCall(t) \/ SelectCall(t) \/ EpollWaitCall(t))
  BY DEF NoMultiplexers, EventLoop, PollCall, SelectCall, EpollWaitCall, MayWait, MayCall
<1>2. ~(MuxArm(t) \/ MuxTry(t) \/ MuxUnblock(t) \/ MuxReport(t))
  BY DEF Plain, Inside, AcceptLabels, CloseLabels, MuxArm, MuxTry, MuxUnblock, MuxReport
<1>3. QED
  BY <1>1, <1>2 DEF AppCall, LibStep, PlainStep

\* A step that takes t to label l of function fn and touches neither the flag nor a report.
LEMMA PlainMove ==
  ASSUME TypeInv, Plain, NEW t \in Threads, NEW fn, NEW l, Inside(l, fn),
         \/ \E f, g : Enter(t, fn, f, g, l)
         \/ Goto(t, l) /\ fn = call[t],
         accept_block' = 1, UNCHANGED ready
  PROVE  Plain'
BY DEF TypeInv, CpuOK, Plain, Enter, Goto, Inside

LEMMA PlainStays ==
  ASSUME Plain, UNCHANGED <<accept_block, ready, cpu>>
  PROVE  Plain'
BY DEF Plain, Inside, cpu

\* Every step keeps the flag up and the threads inside the calls listed above.
LEMMA PlainInductive ==
  ASSUME TypeInv, Plain, NEW t \in Threads, PlainStep(t)
  PROVE  Plain'
<1>0. /\ accept_block = 1 /\ ready[t] = {} /\ Inside(pc[t], call[t])
      /\ ready \in [Threads -> SUBSET Fds]
  BY DEF Plain, TypeInv, WorldOK
<1>r. Inside("idle", "none")
  BY DEF Inside
<1>i. ASSUME NEW l \in {"block", "sem_wait", "set_block", "dup", "clone", "unlisten", "fill"}
      PROVE  /\ Inside(l, "accept")
             /\ pc[t] = l /\ l # "fill" => call[t] = "accept"
             /\ pc[t] = "fill" => call[t] = "accept"
  BY <1>0, <1>i DEF Inside, AcceptLabels, CloseLabels
<1>1. CASE \/ OpenCall(t) \/ BindCall(t) \/ ConnectCall(t) \/ ListenCall(t) \/ EpollCtlCall(t)
  BY <1>0, <1>1, PlainStays DEF OpenCall, BindCall, ConnectCall, MarkDesock, ListenCall,
                                EpollCtlCall, lib
<1>2. CASE SocketCall(t)
  <2>1. Inside("check_max", "socket") /\ accept_block' = 1 /\ UNCHANGED ready
    BY <1>0, <1>2 DEF Inside, SocketCall
  <2>2. QED
    BY <1>0, <1>2, <2>1, PlainMove, PlainStays DEF SocketCall
<1>3. CASE AcceptCall(t) \/ GetNameCall(t)
  <2>1. Inside("block", "accept") /\ Inside("name", "getname")
    BY DEF Inside, AcceptLabels
  <2>2. accept_block' = 1 /\ UNCHANGED ready
    BY <1>0, <1>3 DEF AcceptCall, GetNameCall, lib
  <2>3. QED
    BY <1>3, <2>1, <2>2, PlainMove DEF AcceptCall, GetNameCall
<1>4. CASE CloseCall(t)
  <2>1. PICK f : Enter(t, "close", f, NoFd, CloseLabel(f))
    BY <1>4 DEF CloseCall
  <2>2. Inside(CloseLabel(f), "close")
    BY DEF CloseLabel, CloseLabels, Inside
  <2>3. accept_block' = 1 /\ UNCHANGED ready
    BY <1>0, <1>4 DEF CloseCall, lib
  <2>4. QED
    BY <2>1, <2>2, <2>3, PlainMove
<1>5. CASE DupCall(t) \/ Dup2Call(t)
  <2>1. Inside("copy", "dup") /\ accept_block' = 1 /\ UNCHANGED ready
    BY <1>0, <1>5 DEF Inside, DupCall, Dup2Call, lib
  <2>2. UNCHANGED cpu \/ \E f, g : Enter(t, "dup", f, g, "copy")
    BY <1>5 DEF DupCall, Dup2Call
  <2>3. QED
    BY <1>0, <2>1, <2>2, PlainMove, PlainStays
<1>6. CASE \/ AcceptBlock(t) \/ SemWait(t) \/ SemWaitInterrupted(t) \/ AcceptClone(t)
           \/ AcceptUnlisten(t)
  <2>1. call[t] = "accept"
    BY <1>6, <1>i DEF AcceptBlock, SemWait, SemWaitInterrupted, AcceptClone, AcceptUnlisten
  <2>2. \E l \in {"sem_wait", "set_block", "unlisten", "fill"} : Goto(t, l)
    BY <1>6, <2>1 DEF AcceptBlock, SemWait, SemWaitInterrupted, AcceptClone, AcceptUnlisten
  <2>3. accept_block' = 1 /\ UNCHANGED ready
    BY <1>0, <1>6 DEF AcceptBlock, SemWait, SemWaitInterrupted, AcceptClone, AcceptUnlisten, lib
  <2>4. QED
    BY <1>i, <2>1, <2>2, <2>3, PlainMove
<1>7. CASE AcceptSetBlock(t)
  <2>1. call[t] = "accept" /\ Goto(t, "dup") /\ accept_block' = 1 /\ Inside("dup", "accept")
    BY <1>7, <1>i DEF AcceptSetBlock
  <2>2. UNCHANGED ready
    BY <1>0, <1>7 DEF AcceptSetBlock
  <2>3. QED
    BY <2>1, <2>2, PlainMove
<1>8. CASE AcceptDup(t)
  <2>1. call[t] = "accept" /\ Inside("clone", "accept") /\ accept_block' = 1 /\ UNCHANGED ready
    BY <1>0, <1>8, <1>i DEF AcceptDup, lib
  <2>2. \E f, g : Enter(t, call[t], f, g, "clone")
    BY <1>8 DEF AcceptDup
  <2>3. QED
    BY <2>1, <2>2, PlainMove
<1>9. CASE AcceptDupFails(t) \/ WriteMax(t) \/ CloseSysClose(t)
  <2>1. accept_block' = 1 /\ UNCHANGED ready
    BY <1>0, <1>9 DEF AcceptDupFails, WriteMax, CloseSysClose, lib
  <2>2. Return(t)
    BY <1>9 DEF AcceptDupFails, WriteMax, CloseSysClose, Finish
  <2>3. QED
    BY <1>r, <2>1, <2>2, PlainMove DEF Return
<1>10. CASE CheckMax(t)
  <2>1. accept_block' = 1 /\ UNCHANGED ready
    BY <1>0, <1>10 DEF CheckMax, lib
  <2>2. Inside("write_max", call[t])
    BY <1>0, <1>10 DEF CheckMax, Inside, AcceptLabels, CloseLabels
  <2>3. Return(t) \/ Goto(t, "write_max")
    BY <1>10 DEF CheckMax, Finish
  <2>4. QED
    BY <1>r, <2>1, <2>2, <2>3, PlainMove DEF Return
<1>11. CASE CloseGetValue(t) \/ ClosePost(t) \/ CloseClear(t)
  <2>1. accept_block' = 1 /\ UNCHANGED ready
    BY <1>0, <1>11 DEF CloseGetValue, ClosePost, CloseClear, lib
  <2>2. call[t] = "close"
    BY <1>0, <1>11 DEF CloseGetValue, ClosePost, CloseClear, Inside, AcceptLabels, CloseLabels
  <2>3. \E l \in CloseLabels : Goto(t, l)
    BY <1>11 DEF CloseGetValue, ClosePost, CloseClear, CloseLabels
  <2>4. QED
    BY <2>1, <2>2, <2>3, PlainMove DEF Inside
<1>12. CASE FillSockaddr(t)
  <2>1. accept_block' = 1 /\ UNCHANGED ready
    BY <1>0, <1>12 DEF FillSockaddr, lib
  <2>2. CASE pc[t] = "fill" /\ Goto(t, "check_max")
    <3>1. Inside("check_max", call[t])
      BY <1>i, <2>2 DEF Inside
    <3>2. QED
      BY <2>1, <2>2, <3>1, PlainMove
  <2>3. CASE Return(t)
    BY <1>r, <2>1, <2>3, PlainMove DEF Return
  <2>4. QED
    BY <1>12, <2>2, <2>3 DEF FillSockaddr
<1>13. CASE CopyEntry(t)
  <2>1. accept_block' = 1 /\ UNCHANGED ready /\ Goto(t, "check_max")
    BY <1>0, <1>13 DEF CopyEntry
  <2>2. call[t] = "dup"
    BY <1>0, <1>13 DEF CopyEntry, Inside, AcceptLabels, CloseLabels
  <2>3. QED
    BY <2>1, <2>2, PlainMove DEF Inside
<1>14. QED
  BY <1>1, <1>2, <1>3, <1>4, <1>5, <1>6, <1>7, <1>8, <1>9, <1>10, <1>11, <1>12, <1>13 DEF PlainStep

\* The calls that are left without copies and signal handlers.
BlockingStep(t) ==
  \/ OpenCall(t) \/ SocketCall(t) \/ BindCall(t) \/ ConnectCall(t) \/ ListenCall(t)
  \/ AcceptCall(t) \/ GetNameCall(t) \/ CloseCall(t)
  \/ AcceptBlock(t) \/ SemWait(t) \/ AcceptSetBlock(t)
  \/ AcceptDupFails(t) \/ AcceptDup(t) \/ AcceptClone(t) \/ AcceptUnlisten(t)
  \/ FillSockaddr(t) \/ CheckMax(t) \/ WriteMax(t)
  \/ CloseGetValue(t) \/ ClosePost(t) \/ CloseClear(t) \/ CloseSysClose(t)

LEMMA BlockingIsPlain == BlockingApp => NoMultiplexers
BY DEF BlockingApp, NoMultiplexers, EventLoop

LEMMA OnlyBlockingSteps ==
  ASSUME BlockingApp, Blocking, NEW t \in Threads, AppCall(t) \/ LibStep(t)
  PROVE  BlockingStep(t)
<1>1. ~(DupCall(t) \/ Dup2Call(t) \/ EpollCtlCall(t))
  BY DEF BlockingApp, DupCall, Dup2Call, EpollCtlCall, MayCall
<1>2. ~(SemWaitInterrupted(t) \/ CopyEntry(t))
  BY DEF BlockingApp, Blocking, Plain, Inside, AcceptLabels, CloseLabels, SemWaitInterrupted,
         CopyEntry
<1>3. PlainStep(t)
  BY BlockingIsPlain, OnlyPlainSteps DEF Blocking
<1>4. QED
  BY <1>1, <1>2, <1>3 DEF PlainStep, BlockingStep

\* Every step keeps to that.
LEMMA BlockingInductive ==
  ASSUME BlockingApp, TypeInv, Blocking, [Next]_vars
  PROVE  Blocking'
<1>0. /\ pc \in [Threads -> Labels] /\ call \in [Threads -> CallNames]
      /\ origin \in [Fds -> Origins]
  BY DEF TypeInv, CpuOK, WorldOK
<1> DEFINE NoCopies == \A f \in Fds : origin'[f] # "copy"
           NoDups   == \A u \in Threads : call'[u] # "dup"
<1>1. CASE UNCHANGED vars
  BY <1>1 DEF vars, lib, app, cpu, Blocking, Plain, Inside
<1>2. ASSUME NEW t \in Threads, AppCall(t) \/ LibStep(t) PROVE Blocking'
  <2>1. BlockingStep(t)
    BY <1>2, OnlyBlockingSteps
  <2>2. Plain'
    BY <2>1, PlainInductive DEF Blocking, BlockingStep, PlainStep
  <2>3. NoDups
    <3>1. \/ UNCHANGED call
          \/ \E fn, f, g, l : Enter(t, fn, f, g, l) /\ fn # "dup"
      <4>1. CASE \/ OpenCall(t) \/ SocketCall(t) \/ BindCall(t) \/ ConnectCall(t) \/ ListenCall(t)
                 \/ AcceptCall(t) \/ GetNameCall(t) \/ CloseCall(t)
        BY <4>1 DEF OpenCall, SocketCall, BindCall, ConnectCall, MarkDesock, ListenCall, AcceptCall,
                    GetNameCall, CloseCall, cpu
      <4>2. CASE \/ AcceptBlock(t) \/ SemWait(t) \/ AcceptSetBlock(t) \/ AcceptClone(t)
                 \/ AcceptUnlisten(t) \/ CloseGetValue(t) \/ ClosePost(t) \/ CloseClear(t)
        BY <4>2 DEF AcceptBlock, SemWait, AcceptSetBlock, AcceptClone, AcceptUnlisten,
                    CloseGetValue, ClosePost, CloseClear, Goto
      <4>3. CASE AcceptDup(t)
        BY <4>3 DEF AcceptDup, Blocking
      <4>4. CASE \/ AcceptDupFails(t) \/ FillSockaddr(t) \/ CheckMax(t) \/ WriteMax(t)
                 \/ CloseSysClose(t)
        BY <4>4 DEF AcceptDupFails, FillSockaddr, CheckMax, WriteMax, CloseSysClose, Finish, Return,
                    Goto
      <4>5. QED
        BY <2>1, <4>1, <4>2, <4>3, <4>4 DEF BlockingStep
    <3>2. QED
      BY <1>0, <3>1 DEF Enter, Blocking
  <2>4. NoCopies
    <3>1. UNCHANGED origin \/ \E f, kind : HandOver(f, kind) /\ kind # "copy"
      <4>1. CASE \/ OpenCall(t) \/ SocketCall(t) \/ BindCall(t) \/ ConnectCall(t) \/ ListenCall(t)
                 \/ AcceptCall(t) \/ GetNameCall(t) \/ CloseCall(t)
        BY <4>1 DEF OpenCall, SocketCall, BindCall, ConnectCall, MarkDesock, ListenCall, AcceptCall,
                    GetNameCall, CloseCall, app
      <4>2. CASE \/ AcceptBlock(t) \/ SemWait(t) \/ AcceptSetBlock(t) \/ AcceptClone(t)
                 \/ AcceptUnlisten(t) \/ CloseGetValue(t) \/ ClosePost(t) \/ CloseClear(t)
                 \/ AcceptDup(t) \/ AcceptDupFails(t) \/ FillSockaddr(t) \/ CloseSysClose(t)
        BY <4>2 DEF AcceptBlock, SemWait, AcceptSetBlock, AcceptClone, AcceptUnlisten, AcceptDup,
                    CloseGetValue, ClosePost, CloseClear, AcceptDupFails, FillSockaddr,
                    CloseSysClose, app
      <4>3. CASE CheckMax(t) \/ WriteMax(t)
        <5>1. call[t] \in {"accept", "socket"}
          BY <4>3 DEF CheckMax, WriteMax, Blocking, Plain, Inside, AcceptLabels, CloseLabels
        <5>2. QED
          BY <4>3, <5>1 DEF CheckMax, WriteMax, Finish
      <4>4. QED
        BY <2>1, <4>1, <4>2, <4>3 DEF BlockingStep
    <3>2. QED
      BY <1>0, <3>1 DEF HandOver, Blocking
  <2>5. QED
    BY <2>2, <2>3, <2>4 DEF Blocking
<1>3. QED
  BY <1>1, <1>2 DEF Next

-----------------------------------------------------------------------------
(* The five ways in which a step moves tokens. *)

TokenMove(t) ==
  \* none moves, or one is lost
  \/ sem' = sem /\ Conns' \subseteq Conns /\ Owing' \subseteq Owing
  \* sem_wait
  \/ sem > 0 /\ sem' = sem - 1 /\ Conns' = Conns /\ Owing' \subseteq Owing \cup {t}
  \* accept returns
  \/ /\ sem' = sem /\ t \in Owing /\ Owing' = Owing \ {t}
     /\ \E f \in Fds : Conns' = Conns \cup {f}
  \* close is called
  \/ /\ sem' = sem /\ Owing' \subseteq Owing \cup {t}
     /\ \E f \in Conns : Conns' = Conns \ {f}
  \* sem_post
  \/ sem' = sem + 1 /\ Conns' = Conns /\ t \in Owing /\ Owing' = Owing \ {t}

\* Each of them keeps the sum within its bound.
LEMMA TokenArithmetic ==
  ASSUME TypeInv, TypeInv', TokensBounded, NEW t \in Threads, TokenMove(t)
  PROVE  TokensBounded'
<1>1. sem \in Nat /\ sem' \in Nat /\ MAX_CONNS \in Nat
  BY ConnPoolAssumption DEF TypeInv, WorldOK
<1>h. HoldersAdd /\ HoldersAdd'
  BY HoldersCount, PTL
<1>2. sem + Cardinality(Conns) + Cardinality(Owing) <= MAX_CONNS
  BY <1>1, <1>h DEF HoldersAdd, TokensBounded
<1>3. /\ IsFiniteSet(Conns') /\ Cardinality(Conns') \in Nat
      /\ IsFiniteSet(Owing') /\ Cardinality(Owing') \in Nat
      /\ Cardinality(Holders') = Cardinality(Conns') + Cardinality(Owing')
  BY <1>h DEF HoldersAdd
<1>c. /\ IsFiniteSet(Conns) /\ Cardinality(Conns) \in Nat
      /\ IsFiniteSet(Owing) /\ Cardinality(Owing) \in Nat
      /\ Cardinality(Holders) = Cardinality(Conns) + Cardinality(Owing)
  BY <1>h DEF HoldersAdd
<1>4. SUFFICES sem' + Cardinality(Conns') + Cardinality(Owing') <= MAX_CONNS
  BY <1>1, <1>3 DEF TokensBounded
<1>5. ASSUME NEW S, IsFiniteSet(S), NEW T, T \subseteq S
      PROVE  Cardinality(T) <= Cardinality(S)
  BY <1>5, FS_Subset
<1>a. ASSUME NEW S, IsFiniteSet(S), NEW x
      PROVE  /\ IsFiniteSet(S \cup {x})
             /\ Cardinality(S \cup {x}) <= Cardinality(S) + 1
  <2>1. /\ IsFiniteSet(S \cup {x})
        /\ Cardinality(S \cup {x}) = IF x \in S THEN Cardinality(S) ELSE Cardinality(S) + 1
    BY <1>a, FS_AddElement
  <2>2. Cardinality(S) \in Nat
    BY <1>a, FS_CardinalityType
  <2>3. QED
    BY <2>1, <2>2
<1>6. /\ IsFiniteSet(Owing \cup {t})
      /\ Cardinality(Owing \cup {t}) <= Cardinality(Owing) + 1
  BY <1>c, <1>a
<1>7. CASE sem' = sem /\ Conns' \subseteq Conns /\ Owing' \subseteq Owing
  <2>1. Cardinality(Conns') <= Cardinality(Conns) /\ Cardinality(Owing') <= Cardinality(Owing)
    BY <1>5, <1>7, <1>c
  <2>2. QED
    BY <1>1, <1>2, <1>3, <1>7, <2>1, <1>c
<1>8. CASE sem > 0 /\ sem' = sem - 1 /\ Conns' = Conns /\ Owing' \subseteq Owing \cup {t}
  <2>1. Cardinality(Owing') <= Cardinality(Owing \cup {t})
    BY <1>5, <1>6, <1>8
  <2>2. QED
    BY <1>1, <1>2, <1>3, <1>6, <1>8, <2>1, <1>c, FS_CardinalityType
<1>9. ASSUME sem' = sem, t \in Owing, Owing' = Owing \ {t}, NEW f \in Fds, Conns' = Conns \cup {f}
      PROVE  sem' + Cardinality(Conns') + Cardinality(Owing') <= MAX_CONNS
  <2>1. Cardinality(Owing') = Cardinality(Owing) - 1
    BY <1>9, <1>c, FS_RemoveElement
  <2>2. Cardinality(Conns') <= Cardinality(Conns) + 1
    BY <1>9, <1>c, <1>a
  <2>3. QED
    BY <1>1, <1>2, <1>3, <1>9, <2>1, <2>2, <1>c
<1>10. ASSUME sem' = sem, Owing' \subseteq Owing \cup {t}, NEW f \in Conns, Conns' = Conns \ {f}
       PROVE  sem' + Cardinality(Conns') + Cardinality(Owing') <= MAX_CONNS
  <2>1. Cardinality(Owing') <= Cardinality(Owing \cup {t})
    BY <1>5, <1>6, <1>10
  <2>2. Cardinality(Conns') = Cardinality(Conns) - 1
    BY <1>10, <1>c, FS_RemoveElement
  <2>3. Cardinality(Owing') <= Cardinality(Owing) + 1
    <3>1. Cardinality(Owing \cup {t}) \in Nat
      BY <1>6, FS_CardinalityType
    <3>2. QED
      BY <1>3, <1>6, <1>c, <2>1, <3>1
  <2>4. QED
    BY <1>1, <1>2, <1>3, <1>10, <2>2, <2>3, <1>c
<1>11. CASE sem' = sem + 1 /\ Conns' = Conns /\ t \in Owing /\ Owing' = Owing \ {t}
  <2>1. Cardinality(Owing') = Cardinality(Owing) - 1
    BY <1>11, <1>c, FS_RemoveElement
  <2>2. QED
    BY <1>1, <1>2, <1>3, <1>11, <2>1, <1>c
<1>12. QED
  BY <1>7, <1>8, <1>9, <1>10, <1>11 DEF TokenMove

\* A thread that moves on owes a token afterwards or not; the others stay as they are.
LEMMA OwingMove ==
  ASSUME TypeInv, Plain, Plain', NEW t \in Threads, NEW fn, NEW f, NEW g, NEW l,
         Enter(t, fn, f, g, l) \/ (Goto(t, l) /\ fn = call[t])
  PROVE  Owing' = IF OwesAt(l, fn) THEN Owing \cup {t} ELSE Owing \ {t}
<1>1. pc \in [Threads -> Labels] /\ call \in [Threads -> CallNames]
  BY DEF TypeInv, CpuOK
<1>2. /\ Owing = {u \in Threads : OwesAt(pc[u], call[u])}
      /\ Owing' = {u \in Threads : OwesAt(pc'[u], call'[u])}
  <2>1. OwingChar /\ OwingChar'
    BY OwingIs, PTL
  <2>2. QED
    BY <2>1 DEF OwingChar, OwesAt
<1>3. \A u \in Threads : /\ pc'[u] = IF u = t THEN l ELSE pc[u]
                         /\ call'[u] = IF u = t THEN fn ELSE call[u]
  BY <1>1 DEF Enter, Goto
<1>4. \A u \in Threads : u \in Owing' <=> IF u = t THEN OwesAt(l, fn) ELSE u \in Owing
  BY <1>2, <1>3
<1>5. Owing \subseteq Threads /\ Owing' \subseteq Threads
  BY DEF Owing
<1>6. QED
  BY <1>4, <1>5

LEMMA OwingStays ==
  ASSUME Plain, Plain', UNCHANGED cpu
  PROVE  Owing' = Owing
<1>1. OwingChar /\ OwingChar'
  BY OwingIs, PTL
<1>2. QED
  BY <1>1 DEF OwingChar, OwesAt, cpu

LEMMA ConnsMove ==
  ASSUME TypeInv, NEW f \in Fds, NEW kind, HandOver(f, kind)
  PROVE  Conns' = IF kind = "conn" THEN Conns \cup {f} ELSE Conns \ {f}
BY DEF TypeInv, WorldOK, HandOver, Conns

\* Every step of such an application moves tokens in one of the five ways.
LEMMA TokenStep ==
  ASSUME BlockingApp, TypeInv, OwnInv, Blocking, Plain, Plain', NEW t \in Threads, BlockingStep(t)
  PROVE  TokenMove(t)
<1>0. sem \in Nat
  BY DEF TypeInv, WorldOK
<1>c. ASSUME UNCHANGED origin PROVE Conns' = Conns
  BY <1>c DEF Conns
<1>f. ASSUME pc[t] \in {"check_max", "write_max"}, Finish(t), sem' = sem
      PROVE  TokenMove(t)
  <2>1. new[t] \in Fds
    BY <1>f DEF TypeInv, CpuOK, FrameOK, NewLabels
  <2>2. Owing' = Owing \ {t}
    <3>1. ~OwesAt("idle", "none")
      BY DEF OwesAt
    <3>2. QED
      BY <1>f, <3>1, OwingMove DEF Finish, Return
  <2>3. CASE call[t] = "accept"
    <3>1. Conns' = Conns \cup {new[t]}
      BY <1>f, <2>1, <2>3, ConnsMove DEF Finish
    <3>2. t \in Owing
      BY <1>f, <2>3, OwingIs DEF OwingChar, OwesAt
    <3>3. QED
      BY <1>f, <2>1, <2>2, <3>1, <3>2 DEF TokenMove
  <2>4. CASE call[t] # "accept"
    <3>1. Conns' = Conns \ {new[t]}
      BY <1>f, <2>1, <2>4, ConnsMove DEF Finish
    <3>2. QED
      BY <1>f, <2>2, <3>1 DEF TokenMove
  <2>5. QED
    BY <2>3, <2>4
<1>1. CASE OpenCall(t) \/ BindCall(t) \/ ConnectCall(t) \/ ListenCall(t)
  <2>1. sem' = sem /\ UNCHANGED cpu
    BY <1>1 DEF OpenCall, BindCall, ConnectCall, MarkDesock, ListenCall, lib
  <2>2. UNCHANGED origin \/ \E f \in Fds, kind \in {"file", "listener"} : HandOver(f, kind)
    BY <1>1 DEF OpenCall, BindCall, ConnectCall, MarkDesock, ListenCall, app, LowestFree,
                HeldDesocked, Held
  <2>3. Conns' \subseteq Conns
    BY <1>c, <2>2, ConnsMove
  <2>4. QED
    BY <2>1, <2>3, OwingStays DEF TokenMove
<1>2. CASE SocketCall(t)
  <2>1. sem' = sem
    BY <1>2 DEF SocketCall
  <2>2. CASE \E f : Enter(t, "socket", NoFd, f, "check_max") /\ UNCHANGED origin
    <3>1. Owing' = Owing \ {t}
      BY <2>2, OwingMove DEF OwesAt
    <3>2. QED
      BY <1>c, <2>1, <2>2, <3>1 DEF TokenMove
  <2>3. CASE \E f \in Fds : HandOver(f, "socket") /\ UNCHANGED cpu
    <3>1. Conns' \subseteq Conns
      BY <2>3, ConnsMove
    <3>2. QED
      BY <2>1, <2>3, <3>1, OwingStays DEF TokenMove
  <2>4. QED
    BY <1>2, <2>2, <2>3 DEF SocketCall, LowestFree
<1>3. CASE AcceptCall(t) \/ GetNameCall(t)
  <2>1. sem' = sem /\ UNCHANGED origin
    BY <1>3 DEF AcceptCall, GetNameCall, lib, app
  <2>2. Owing' = Owing \ {t}
    BY <1>3, OwingMove DEF AcceptCall, GetNameCall, OwesAt
  <2>3. QED
    BY <1>c, <2>1, <2>2 DEF TokenMove
<1>4. CASE CloseCall(t)
  <2>1. PICK f \in Fds : /\ HandOver(f, "none")
                         /\ Enter(t, "close", f, NoFd, CloseLabel(f))
                         /\ origin[f] \in {"conn", "copy", "file"}
    BY <1>4 DEF CloseCall, Held, MayCall, BlockingApp
  <2>2. sem' = sem
    BY <1>4 DEF CloseCall, lib
  <2>3. Conns' = Conns \ {f}
    BY <2>1, ConnsMove
  <2>4. CASE origin[f] = "conn"
    <3>1. Owing' \subseteq Owing \cup {t}
      BY <2>1, OwingMove
    <3>2. QED
      BY <2>2, <2>3, <2>4, <3>1 DEF TokenMove, Conns
  <2>5. CASE origin[f] = "file"
    <3>1. ~DESOCK_FD(fd_table, f)
      BY <2>5 DEF OwnInv, VacantIsClear, Vacant
    <3>2. CloseLabel(f) \in {"clear", "sysclose"}
      BY <3>1 DEF CloseLabel, DESOCK_FD
    <3>3. ~OwesAt(CloseLabel(f), "close")
      BY <3>2 DEF OwesAt
    <3>4. Owing' = Owing \ {t}
      BY <2>1, <3>3, OwingMove
    <3>5. QED
      BY <2>2, <2>3, <3>4 DEF TokenMove
  <2>6. QED
    BY <2>1, <2>4, <2>5 DEF Blocking, Plain, Inside
<1>5. CASE AcceptBlock(t)
  <2>1. Goto(t, "sem_wait") /\ sem' = sem /\ UNCHANGED origin
    BY <1>5 DEF AcceptBlock, Blocking, Plain, Inside, lib, app
  <2>2. Owing' \subseteq Owing
    <3>1. ~OwesAt("sem_wait", call[t])
      BY DEF OwesAt
    <3>2. QED
      BY <2>1, <3>1, OwingMove
  <2>3. QED
    BY <1>c, <2>1, <2>2 DEF TokenMove
<1>6. CASE SemWait(t)
  <2>1. sem > 0 /\ sem' = sem - 1 /\ UNCHANGED origin /\ \E l : Goto(t, l)
    BY <1>6 DEF SemWait, app
  <2>2. Owing' \subseteq Owing \cup {t}
    BY <2>1, OwingMove
  <2>3. QED
    BY <1>c, <2>1, <2>2 DEF TokenMove
<1>7. CASE \/ AcceptSetBlock(t) \/ AcceptDup(t) \/ AcceptClone(t) \/ AcceptUnlisten(t)
           \/ CloseGetValue(t)
  <2>1. sem' = sem /\ UNCHANGED origin
    BY <1>7 DEF AcceptSetBlock, AcceptDup, AcceptClone, AcceptUnlisten, CloseGetValue, lib, app
  <2>2. t \in Owing
    BY <1>7, OwingIs DEF OwingChar, AcceptSetBlock, AcceptDup, AcceptClone, AcceptUnlisten,
                         CloseGetValue, OwesAt
  <2>3. \E fn, f, g, l : Enter(t, fn, f, g, l) \/ (Goto(t, l) /\ fn = call[t])
    BY <1>7 DEF AcceptSetBlock, AcceptDup, AcceptClone, AcceptUnlisten, CloseGetValue
  <2>4. Owing' \subseteq Owing
    BY <2>2, <2>3, OwingMove
  <2>5. QED
    BY <1>c, <2>1, <2>4 DEF TokenMove
<1>8. CASE AcceptDupFails(t) \/ CloseSysClose(t) \/ CloseClear(t)
  <2>1. sem' = sem /\ UNCHANGED origin
    BY <1>8 DEF AcceptDupFails, CloseSysClose, CloseClear, lib, app
  <2>2. \E l \in {"idle", "sysclose"} :
          Enter(t, "none", NoFd, NoFd, l) \/ Goto(t, l)
    BY <1>8 DEF AcceptDupFails, CloseSysClose, CloseClear, Return
  <2>3. Owing' \subseteq Owing
    BY <2>2, OwingMove DEF OwesAt
  <2>4. QED
    BY <1>c, <2>1, <2>3 DEF TokenMove
<1>9. CASE CheckMax(t)
  <2>1. CASE Finish(t)
    BY <1>9, <1>f, <2>1 DEF CheckMax, lib
  <2>2. CASE Goto(t, "write_max") /\ UNCHANGED origin
    <3>1. OwesAt("write_max", call[t]) => t \in Owing
      BY <1>9, OwingIs DEF OwingChar, CheckMax, OwesAt
    <3>2. Owing' \subseteq Owing
      BY <2>2, <3>1, OwingMove
    <3>3. QED
      BY <1>9, <1>c, <2>2, <3>2 DEF CheckMax, lib, TokenMove
  <2>3. QED
    BY <1>9, <2>1, <2>2 DEF CheckMax
<1>10. CASE WriteMax(t)
  BY <1>10, <1>f DEF WriteMax
<1>11. CASE ClosePost(t)
  <2>1. sem' = sem + 1 /\ UNCHANGED origin /\ Goto(t, "clear")
    BY <1>11 DEF ClosePost, app
  <2>2. t \in Owing
    BY <1>11, OwingIs DEF OwingChar, ClosePost, OwesAt
  <2>3. Owing' = Owing \ {t}
    <3>1. ~OwesAt("clear", call[t])
      BY DEF OwesAt
    <3>2. QED
      BY <2>1, <3>1, OwingMove
  <2>4. QED
    BY <1>c, <2>1, <2>2, <2>3 DEF TokenMove
<1>12. CASE FillSockaddr(t)
  <2>1. sem' = sem /\ UNCHANGED origin
    BY <1>12 DEF FillSockaddr, lib, app
  <2>2. CASE pc[t] = "fill" /\ Goto(t, "check_max")
    <3>1. t \in Owing
      BY <2>2, OwingIs DEF OwingChar, OwesAt
    <3>2. Owing' \subseteq Owing
      BY <2>2, <3>1, OwingMove
    <3>3. QED
      BY <1>c, <2>1, <3>2 DEF TokenMove
  <2>3. CASE Return(t)
    <3>1. Owing' = Owing \ {t}
      BY <2>3, OwingMove DEF Return, OwesAt
    <3>2. QED
      BY <1>c, <2>1, <3>1 DEF TokenMove
  <2>4. QED
    BY <1>12, <2>2, <2>3 DEF FillSockaddr
<1>13. QED
  BY <1>1, <1>2, <1>3, <1>4, <1>5, <1>6, <1>7, <1>8, <1>9, <1>10, <1>11, <1>12 DEF BlockingStep

-----------------------------------------------------------------------------
(* Where tokens are lost: any application without multiplexers, copies and    *)
(* signal handlers included.                                                  *)

\* the steps at which TokensLostOnlyHere allows a loss
Lossy(t) ==
  \/ AcceptDupFails(t)
  \/ Dup2Call(t) /\ \E f \in Conns : origin'[f] # "conn"
  \/ CloseGetValue(t) /\ sem >= MAX_CONNS
  \/ CloseCall(t) /\ arg'[t] \in Conns \ HeldDesocked

\* The five ways in which a step moves tokens and loses none.
TokenKeep(t) ==
  \* none moves, or an interrupted sem_wait makes up one
  \/ sem' = sem /\ Conns' = Conns /\ Owing \subseteq Owing'
  \* sem_wait
  \/ sem' = sem - 1 /\ Conns' = Conns /\ t \notin Owing /\ Owing' = Owing \cup {t}
  \* accept returns
  \/ /\ sem' = sem /\ Owing' = Owing \ {t}
     /\ \E f \in Fds \ Conns : Conns' = Conns \cup {f}
  \* close is called
  \/ /\ sem' = sem /\ t \notin Owing /\ Owing' = Owing \cup {t}
     /\ \E f \in Conns : Conns' = Conns \ {f}
  \* sem_post
  \/ sem' = sem + 1 /\ Conns' = Conns /\ Owing' = Owing \ {t}

LEMMA KeepArithmetic ==
  ASSUME TypeInv, TypeInv', NEW t \in Threads, TokenKeep(t)
  PROVE  sem' + Cardinality(Holders') >= sem + Cardinality(Holders)
<1>1. sem \in Nat /\ sem' \in Nat
  BY DEF TypeInv, WorldOK
<1>2. /\ IsFiniteSet(Conns) /\ Cardinality(Conns) \in Nat
      /\ IsFiniteSet(Owing) /\ Cardinality(Owing) \in Nat
      /\ Cardinality(Holders) = Cardinality(Conns) + Cardinality(Owing)
  BY HoldersCount DEF HoldersAdd
<1>3. /\ IsFiniteSet(Conns') /\ Cardinality(Conns') \in Nat
      /\ IsFiniteSet(Owing') /\ Cardinality(Owing') \in Nat
      /\ Cardinality(Holders') = Cardinality(Conns') + Cardinality(Owing')
  <2>1. HoldersAdd'
    BY HoldersCount, PTL
  <2>2. QED
    BY <2>1 DEF HoldersAdd
<1>4. SUFFICES sem' + Cardinality(Conns') + Cardinality(Owing')
                 >= sem + Cardinality(Conns) + Cardinality(Owing)
  BY <1>1, <1>2, <1>3
<1>5. CASE sem' = sem /\ Conns' = Conns /\ Owing \subseteq Owing'
  <2>1. Cardinality(Owing) <= Cardinality(Owing')
    BY <1>3, <1>5, FS_Subset
  <2>2. QED
    BY <1>1, <1>2, <1>3, <1>5, <2>1
<1>6. CASE sem' = sem - 1 /\ Conns' = Conns /\ t \notin Owing /\ Owing' = Owing \cup {t}
  <2>1. Cardinality(Owing') = Cardinality(Owing) + 1
    BY <1>2, <1>6, FS_AddElement
  <2>2. QED
    BY <1>1, <1>2, <1>3, <1>6, <2>1
<1>7. Cardinality(Owing \ {t}) >= Cardinality(Owing) - 1
  <2>1. Cardinality(Owing \ {t}) =
          IF t \in Owing THEN Cardinality(Owing) - 1 ELSE Cardinality(Owing)
    BY <1>2, FS_RemoveElement
  <2>2. QED
    BY <1>2, <2>1
<1>8. CASE /\ sem' = sem /\ Owing' = Owing \ {t}
           /\ \E f \in Fds \ Conns : Conns' = Conns \cup {f}
  <2>1. Cardinality(Conns') = Cardinality(Conns) + 1
    BY <1>2, <1>8, FS_AddElement
  <2>2. QED
    BY <1>1, <1>2, <1>3, <1>7, <1>8, <2>1
<1>9. CASE /\ sem' = sem /\ t \notin Owing /\ Owing' = Owing \cup {t}
           /\ \E f \in Conns : Conns' = Conns \ {f}
  <2>1. Cardinality(Conns') = Cardinality(Conns) - 1
    BY <1>2, <1>9, FS_RemoveElement
  <2>2. Cardinality(Owing') = Cardinality(Owing) + 1
    BY <1>2, <1>9, FS_AddElement
  <2>3. QED
    BY <1>1, <1>2, <1>3, <1>9, <2>1, <2>2
<1>10. CASE sem' = sem + 1 /\ Conns' = Conns /\ Owing' = Owing \ {t}
  BY <1>1, <1>2, <1>3, <1>7, <1>10
<1>11. QED
  BY <1>5, <1>6, <1>8, <1>9, <1>10 DEF TokenKeep

\* A connection is not marked as a listener, from the step of accept that unmarks it
\* on, even if its listener's entry is gone: close will not take it for a listener.
Filled(t) == \/ pc[t] = "fill"
             \/ pc[t] \in {"check_max", "write_max"} /\ call[t] = "accept"

Unlisted ==
  /\ \A f \in Conns \cap TableFds : fd_table[f].listening = 0
  /\ \A t \in Threads : Filled(t) => fd_table[new[t]].listening = 0

\* What a step of t must do to keep that.
LEMMA UnlistedKept ==
  ASSUME TypeInv, Unlisted, NEW t \in Threads, Moves(t),
         \A f \in TableFds \cap Fds :
           \/ fd_table'[f].listening \in {0, fd_table[f].listening}
           \/ origin[f] # "conn" /\ \A u \in Threads \ {t} : ~Creates(u, f),
         \A f \in TableFds \cap Fds :
           origin'[f] = "conn" => \/ origin[f] = "conn"
                                  \/ Filled(t) /\ f = new[t] /\ UNCHANGED fd_table,
         Filled(t)' => fd_table'[new'[t]].listening = 0
  PROVE  Unlisted'
<1>1. \A f \in Conns' \cap TableFds : fd_table'[f].listening = 0
  <2> TAKE f \in Conns' \cap TableFds
  <2>1. f \in TableFds \cap Fds /\ origin'[f] = "conn"
    BY DEF Conns
  <2>2. CASE origin[f] = "conn"
    BY <2>1, <2>2 DEF Unlisted, Conns
  <2>3. CASE Filled(t) /\ f = new[t] /\ UNCHANGED fd_table
    BY <2>3 DEF Unlisted
  <2>4. QED
    BY <2>1, <2>2, <2>3
<1>2. ASSUME NEW u \in Threads \ {t}, Filled(u)' PROVE fd_table'[new'[u]].listening = 0
  <2>1. Filled(u) /\ new'[u] = new[u]
    BY <1>2 DEF TypeInv, CpuOK, Moves, Enter, Goto, cpu, Filled
  <2>2. new[u] \in TableFds \cap Fds /\ Creates(u, new[u])
    BY <2>1 DEF TypeInv, CpuOK, FrameOK, Filled, Creates, NewLabels
  <2>3. fd_table[new[u]].listening = 0
    BY <2>1 DEF Unlisted
  <2>4. QED
    BY <2>1, <2>2, <2>3
<1>3. QED
  BY <1>1, <1>2 DEF Unlisted

LEMMA UnlistedStep ==
  ASSUME TypeInv, OwnInv, Plain, Unlisted, NEW t \in Threads, Moves(t), PlainStep(t)
  PROVE  Unlisted'
<1>0. /\ kernel \in [Fds -> {"closed", "file", "sock"}]
      /\ origin \in [Fds -> Origins]
      /\ fd_table \in [TableFds -> Entry]
      /\ CpuOK /\ OwnersOpen /\ OneOwner /\ Inside(pc[t], call[t])
  BY DEF TypeInv, WorldOK, TableOK, Table, OwnInv, Plain
\* a step that changes no mark and makes no connection
<1>q. ASSUME \A f \in TableFds \cap Fds : fd_table'[f].listening = fd_table[f].listening,
             UNCHANGED origin \/ \E f, kind : HandOver(f, kind) /\ kind # "conn",
             \/ ~Filled(t)'
             \/ Filled(t) /\ Filled(t)' /\ new'[t] = new[t]
      PROVE  Unlisted'
  <2>1. Filled(t)' => fd_table'[new'[t]].listening = 0
    <3>1. Filled(t) => new[t] \in TableFds \cap Fds
      BY <1>0 DEF CpuOK, FrameOK, Filled, NewLabels
    <3>2. QED
      BY <1>q, <3>1 DEF Unlisted
  <2>2. \A f \in Fds : origin'[f] = "conn" => origin[f] = "conn"
    BY <1>0, <1>q DEF HandOver
  <2>3. QED
    BY <1>q, <2>1, <2>2, UnlistedKept
\* a step that writes the entry of a descriptor that is t's own, or was free
<1>w. ASSUME NEW g \in Fds, Owns(t, g) \/ kernel[g] = "closed", NEW e,
             fd_table' = [fd_table EXCEPT ![g] = e], UNCHANGED origin,
             Filled(t)' => fd_table'[new'[t]].listening = 0
      PROVE  Unlisted'
  <2>1. origin[g] # "conn" /\ \A u \in Threads \ {t} : ~Creates(u, g)
    BY <1>0, <1>w DEF OwnersOpen, OneOwner, Owns, Held
  <2>2. \A f \in TableFds \cap Fds : f # g => fd_table'[f] = fd_table[f]
    BY <1>0, <1>w
  <2>3. QED
    BY <1>w, <2>1, <2>2, UnlistedKept
<1>e. ASSUME NEW fn, NEW f, NEW g, NEW l, Enter(t, fn, f, g, l)
      PROVE  Filled(t)' <=> l = "fill" \/ (l \in {"check_max", "write_max"} /\ fn = "accept")
  BY <1>0, <1>e DEF CpuOK, Enter, Filled
<1>g. ASSUME NEW l, Goto(t, l)
      PROVE  /\ Filled(t)' <=>
                  l = "fill" \/ (l \in {"check_max", "write_max"} /\ call[t] = "accept")
             /\ new'[t] = new[t]
  BY <1>0, <1>g DEF CpuOK, Goto, Filled
<1>s. ASSUME UNCHANGED cpu PROVE /\ Filled(t)' <=> Filled(t)
                                 /\ new'[t] = new[t]
  BY <1>s DEF cpu, Filled
<1>1. CASE OpenCall(t)
  BY <1>1, <1>q, <1>s DEF OpenCall, lib
<1>2. CASE SocketCall(t)
  <2>1. CASE UNCHANGED <<fd_table, cpu>>
    BY <1>2, <1>q, <1>s, <2>1 DEF SocketCall
  <2>2. ASSUME NEW f \in LowestFree, NEW d \in SockDomains,
               fd_table' = [fd_table EXCEPT ![f] = [clear_fd_table_entry(@) EXCEPT !.domain = d]],
               Enter(t, "socket", NoFd, f, "check_max"), UNCHANGED origin
        PROVE  Unlisted'
    <3>1. f \in Fds /\ kernel[f] = "closed" /\ ~Filled(t)'
      BY <1>e, <2>2 DEF LowestFree
    <3>2. fd_table' =
            [fd_table EXCEPT ![f] = [clear_fd_table_entry(fd_table[f]) EXCEPT !.domain = d]]
      BY <2>2
    <3>3. QED
      BY <1>w, <2>2, <3>1, <3>2
  <2>3. QED
    BY <1>2, <2>1, <2>2 DEF SocketCall
<1>3. CASE BindCall(t) \/ ConnectCall(t) \/ EpollCtlCall(t)
  <2>1. UNCHANGED origin /\ UNCHANGED cpu
    BY <1>3 DEF BindCall, ConnectCall, MarkDesock, EpollCtlCall, app
  <2>2. \A f \in TableFds \cap Fds : fd_table'[f].listening = fd_table[f].listening
    <3>1. ASSUME NEW g, NEW e, fd_table' = [fd_table EXCEPT ![g] = e],
                 g \in TableFds => e.listening = fd_table[g].listening
          PROVE  \A f \in TableFds \cap Fds : fd_table'[f].listening = fd_table[f].listening
      BY <1>0, <3>1
    <3>2. CASE \E g : fd_table' = [fd_table EXCEPT ![g] = [@ EXCEPT !.desock = 1]]
      <4>1. PICK g : fd_table' = [fd_table EXCEPT ![g] = [fd_table[g] EXCEPT !.desock = 1]]
        BY <3>2
      <4>2. QED
        BY <1>0, <3>1, <4>1 DEF Entry
    <3>3. CASE EpollCtlCall(t)
      <4>1. PICK g \in Held, ep \in Epolls :
              \/ \E once \in Oneshot :
                   fd_table' = [fd_table EXCEPT ![g] = [fd_table[g] EXCEPT !.epfd = ep,
                                                          !.oneshot = once, !.data = g]]
              \/ fd_table' = [fd_table EXCEPT ![g] = [fd_table[g] EXCEPT !.epfd = -1]]
        BY <3>3 DEF EpollCtlCall
      <4>2. QED
        BY <1>0, <3>1, <4>1 DEF Entry
    <3>4. QED
      BY <1>3, <3>2, <3>3 DEF BindCall, ConnectCall, MarkDesock
  <2>3. QED
    BY <1>q, <1>s, <2>1, <2>2
<1>4. CASE ListenCall(t)
  <2>1. PICK f \in Fds : /\ origin[f] = "socket" /\ HandOver(f, "listener")
                         /\ fd_table' = [fd_table EXCEPT ![f].listening = 1]
    BY <1>4 DEF ListenCall, HeldDesocked, Held
  <2>2. \A u \in Threads : ~Creates(u, f)
    BY <1>0, <2>1 DEF OwnersOpen, Owns
  <2>3. \A g \in TableFds \cap Fds : g # f => fd_table'[g] = fd_table[g]
    BY <1>0, <2>1
  <2>4. ~Filled(t)'
    BY <1>4, <1>s DEF ListenCall, MayCall, Filled
  <2>5. \A g \in Fds : origin'[g] = "conn" => origin[g] = "conn"
    BY <1>0, <2>1 DEF HandOver
  <2>6. QED
    BY <2>1, <2>2, <2>3, <2>4, <2>5, UnlistedKept
<1>5. CASE AcceptCall(t) \/ GetNameCall(t)
  BY <1>5, <1>e, <1>q DEF AcceptCall, GetNameCall, lib, app
<1>6. CASE CloseCall(t)
  <2>1. PICK f : HandOver(f, "none") /\ Enter(t, "close", f, NoFd, CloseLabel(f))
    BY <1>6 DEF CloseCall
  <2>2. ~Filled(t)'
    BY <1>e, <2>1 DEF CloseLabel
  <2>3. UNCHANGED fd_table
    BY <1>6 DEF CloseCall, lib
  <2>4. QED
    BY <1>q, <2>1, <2>2, <2>3
<1>7. CASE DupCall(t) \/ Dup2Call(t)
  <2>1. UNCHANGED fd_table
    BY <1>7 DEF DupCall, Dup2Call, lib
  <2>2. UNCHANGED origin \/ \E f, kind : HandOver(f, kind) /\ kind # "conn"
    BY <1>7 DEF DupCall, Dup2Call
  <2>3. UNCHANGED cpu \/ \E f, g : Enter(t, "dup", f, g, "copy")
    BY <1>7 DEF DupCall, Dup2Call
  <2>4. QED
    BY <1>e, <1>q, <1>s, <2>1, <2>2, <2>3
<1>8. CASE \/ AcceptBlock(t) \/ SemWait(t) \/ SemWaitInterrupted(t) \/ AcceptSetBlock(t)
           \/ CloseGetValue(t) \/ ClosePost(t)
  <2>1. UNCHANGED fd_table /\ UNCHANGED origin
    BY <1>8 DEF AcceptBlock, SemWait, SemWaitInterrupted, AcceptSetBlock, CloseGetValue, ClosePost,
                lib, app
  <2>2. \E l \in {"sem_wait", "set_block", "report", "dup", "post", "clear"} : Goto(t, l)
    BY <1>8 DEF AcceptBlock, SemWait, SemWaitInterrupted, AcceptSetBlock, CloseGetValue, ClosePost
  <2>3. QED
    BY <1>g, <1>q, <2>1, <2>2
<1>9. CASE AcceptDupFails(t) \/ CloseSysClose(t)
  BY <1>9, <1>e, <1>q DEF AcceptDupFails, CloseSysClose, Return, lib, app
<1>10. CASE AcceptDup(t)
  BY <1>10, <1>e, <1>q DEF AcceptDup, lib, app
\* a thread's own descriptor is one it creates or closes
<1>o. /\ pc[t] \in {"clone", "unlisten", "copy"} => new[t] \in TableFds \cap Fds /\ Owns(t, new[t])
      /\ pc[t] = "clear" => arg[t] \in TableFds \cap Fds /\ Owns(t, arg[t])
  BY <1>0 DEF CpuOK, FrameOK, NewLabels, ArgLabels, CloseLabels, Owns, Creates, Closes
<1>11. CASE AcceptClone(t) \/ CopyEntry(t)
  <2>1. /\ pc[t] \in {"clone", "copy"} /\ UNCHANGED origin
        /\ fd_table' = [fd_table EXCEPT ![new[t]] = fd_table[arg[t]]]
    BY <1>11 DEF AcceptClone, CopyEntry, clone_fd_table_entry, app
  <2>2. ~Filled(t)'
    BY <1>0, <1>11, <1>g DEF AcceptClone, CopyEntry, Inside, AcceptLabels, CloseLabels
  <2>3. QED
    BY <1>o, <1>w, <2>1, <2>2
<1>12. CASE AcceptUnlisten(t)
  <2>1. /\ pc[t] = "unlisten" /\ UNCHANGED origin /\ Goto(t, "fill")
        /\ fd_table' = [fd_table EXCEPT ![new[t]] = [@ EXCEPT !.listening = 0]]
    BY <1>12 DEF AcceptUnlisten, app
  <2>2. fd_table'[new'[t]].listening = 0
    BY <1>0, <1>g, <1>o, <2>1 DEF Entry
  <2>3. QED
    BY <1>o, <1>w, <2>1, <2>2
<1>13. CASE FillSockaddr(t)
  <2>1. UNCHANGED fd_table /\ UNCHANGED origin
    BY <1>13 DEF FillSockaddr, lib, app
  <2>2. CASE pc[t] = "fill" /\ Goto(t, "check_max")
    BY <1>g, <1>q, <2>1, <2>2 DEF Filled
  <2>3. CASE Return(t)
    BY <1>e, <1>q, <2>1, <2>3 DEF Return
  <2>4. QED
    BY <1>13, <2>2, <2>3 DEF FillSockaddr
\* the call returns its descriptor
<1>f. ASSUME pc[t] \in {"check_max", "write_max"}, Finish(t), UNCHANGED fd_table PROVE Unlisted'
  <2>1. ~Filled(t)'
    BY <1>e, <1>f DEF Finish, Return
  <2>2. \A f \in Fds : origin'[f] = "conn" => origin[f] = "conn" \/ (Filled(t) /\ f = new[t])
    BY <1>0, <1>f DEF Finish, HandOver, Filled
  <2>3. QED
    BY <1>f, <2>1, <2>2, UnlistedKept
<1>14. CASE CheckMax(t)
  <2>1. pc[t] = "check_max" /\ UNCHANGED fd_table
    BY <1>14 DEF CheckMax, lib
  <2>2. CASE Goto(t, "write_max") /\ UNCHANGED origin
    BY <1>g, <1>q, <2>1, <2>2 DEF Filled
  <2>3. QED
    BY <1>14, <1>f, <2>1, <2>2 DEF CheckMax
<1>15. CASE WriteMax(t)
  BY <1>15, <1>f DEF WriteMax
<1>16. CASE CloseClear(t)
  <2>1. /\ pc[t] = "clear" /\ UNCHANGED origin /\ Goto(t, "sysclose")
        /\ fd_table' = [fd_table EXCEPT ![arg[t]] = clear_fd_table_entry(fd_table[arg[t]])]
    BY <1>16 DEF CloseClear, app
  <2>2. ~Filled(t)'
    BY <1>g, <2>1
  <2>3. QED
    BY <1>o, <1>w, <2>1, <2>2
<1>17. QED
  BY <1>1, <1>2, <1>3, <1>4, <1>5, <1>6, <1>7, <1>8, <1>9, <1>10, <1>11, <1>12, <1>13, <1>14,
     <1>15, <1>16 DEF PlainStep

\* Every step keeps all tokens, or is one of those that may lose one.
LEMMA KeepStep ==
  ASSUME TypeInv, OwnInv, Plain, Plain', Unlisted, NEW t \in Threads, PlainStep(t)
  PROVE  TokenKeep(t) \/ Lossy(t)
<1>0. /\ sem \in Nat /\ CpuOK /\ OwnersOpen /\ OneOwner /\ Inside(pc[t], call[t])
      /\ origin \in [Fds -> Origins]
  BY DEF TypeInv, WorldOK, OwnInv, Plain
<1>o. /\ Owing = {u \in Threads : OwesAt(pc[u], call[u])}
      /\ t \in Owing <=> OwesAt(pc[t], call[t])
  BY OwingIs DEF OwingChar
<1>c. ASSUME \/ UNCHANGED origin
             \/ \E f \in Fds : \E kind : HandOver(f, kind) /\ kind # "conn" /\ origin[f] # "conn"
      PROVE  Conns' = Conns
  BY <1>0, <1>c DEF HandOver, Conns
\* a step that moves no token, and takes t where it owes what it owed before
<1>q. ASSUME sem' = sem, Conns' = Conns, NEW fn, NEW l,
             \/ \E f, g : Enter(t, fn, f, g, l)
             \/ Goto(t, l) /\ fn = call[t],
             OwesAt(pc[t], call[t]) => OwesAt(l, fn)
      PROVE  TokenKeep(t)
  <2>1. Owing' = IF OwesAt(l, fn) THEN Owing \cup {t} ELSE Owing \ {t}
    BY <1>q, OwingMove
  <2>2. QED
    BY <1>o, <1>q, <2>1 DEF TokenKeep
<1>s. ASSUME sem' = sem, Conns' = Conns, UNCHANGED cpu PROVE TokenKeep(t)
  BY <1>s, OwingStays DEF TokenKeep
<1>f. ASSUME pc[t] \in {"check_max", "write_max"}, Finish(t), sem' = sem
      PROVE  TokenKeep(t)
  <2>1. new[t] \in Fds /\ origin[new[t]] = "none"
    BY <1>0, <1>f DEF CpuOK, FrameOK, NewLabels, OwnersOpen, Owns, Creates
  <2>2. Owing' = Owing \ {t}
    BY <1>f, OwingMove DEF Finish, Return, OwesAt
  <2>3. CASE call[t] = "accept"
    <3>1. Conns' = Conns \cup {new[t]} /\ new[t] \notin Conns
      BY <1>f, <2>1, <2>3, ConnsMove DEF Finish, Conns
    <3>2. QED
      BY <1>f, <2>1, <2>2, <3>1 DEF TokenKeep
  <2>4. CASE call[t] # "accept"
    <3>1. Conns' = Conns
      BY <1>c, <1>f, <2>1, <2>4 DEF Finish
    <3>2. QED
      BY <1>f, <1>o, <2>2, <2>4, <3>1 DEF TokenKeep, OwesAt
  <2>5. QED
    BY <2>3, <2>4
<1>1. CASE OpenCall(t) \/ BindCall(t) \/ ConnectCall(t) \/ ListenCall(t) \/ EpollCtlCall(t)
  <2>1. sem' = sem /\ UNCHANGED cpu
    BY <1>1 DEF OpenCall, BindCall, ConnectCall, MarkDesock, ListenCall, EpollCtlCall, lib
  <2>2. UNCHANGED origin \/ \E f \in Fds, kind \in {"file", "listener"} :
                               /\ HandOver(f, kind)
                               /\ kernel[f] = "closed" \/ origin[f] = "socket"
    BY <1>1 DEF OpenCall, BindCall, ConnectCall, MarkDesock, ListenCall, EpollCtlCall, app,
                LowestFree, HeldDesocked, Held
  <2>3. Conns' = Conns
    BY <1>0, <1>c, <2>2 DEF OwnersOpen, Held
  <2>4. QED
    BY <1>s, <2>1, <2>3
<1>i. pc[t] = "idle" => ~OwesAt(pc[t], call[t])
  BY DEF OwesAt
<1>2. CASE SocketCall(t)
  <2>1. PICK f \in Fds : /\ kernel[f] = "closed"
                         /\ \/ UNCHANGED origin /\ Enter(t, "socket", NoFd, f, "check_max")
                            \/ HandOver(f, "socket") /\ UNCHANGED cpu
    BY <1>2 DEF SocketCall, LowestFree
  <2>2. sem' = sem /\ pc[t] = "idle"
    BY <1>2 DEF SocketCall, MayCall
  <2>3. Conns' = Conns
    BY <1>0, <1>c, <2>1 DEF OwnersOpen, Held
  <2>4. QED
    BY <1>i, <1>q, <1>s, <2>1, <2>2, <2>3
<1>3. CASE AcceptCall(t) \/ GetNameCall(t)
  <2>1. sem' = sem /\ UNCHANGED origin /\ pc[t] = "idle"
    BY <1>3 DEF AcceptCall, GetNameCall, MayCall, lib, app
  <2>2. QED
    BY <1>3, <1>c, <1>i, <1>q, <2>1 DEF AcceptCall, GetNameCall
<1>4. CASE CloseCall(t)
  <2>1. PICK f \in Fds : HandOver(f, "none") /\ Enter(t, "close", f, NoFd, CloseLabel(f))
    BY <1>4 DEF CloseCall, Held
  <2>2. sem' = sem /\ arg'[t] = f /\ pc[t] = "idle"
    BY <1>0, <1>4, <2>1 DEF CloseCall, MayCall, lib, CpuOK, Enter
  <2>3. CASE f \notin Conns
    <3>1. Conns' = Conns
      BY <1>c, <2>1, <2>3 DEF Conns
    <3>2. QED
      BY <1>i, <1>q, <2>1, <2>2, <3>1
  <2>4. CASE f \in Conns /\ DESOCK_FD(fd_table, f)
    <3>1. fd_table[f].listening = 0
      BY <2>4 DEF Unlisted, DESOCK_FD, VALID_FD
    <3>2. CloseLabel(f) = "getvalue"
      BY <2>4, <3>1 DEF CloseLabel, DESOCK_FD
    <3>3. Owing' = Owing \cup {t}
      BY <2>1, <3>2, OwingMove DEF OwesAt
    <3>4. Conns' = Conns \ {f}
      BY <2>1, ConnsMove
    <3>5. t \notin Owing
      BY <1>i, <1>o, <2>2
    <3>6. QED
      BY <2>2, <2>4, <3>3, <3>4, <3>5 DEF TokenKeep
  <2>5. CASE f \in Conns /\ ~DESOCK_FD(fd_table, f)
    BY <1>4, <2>2, <2>5 DEF Lossy, HeldDesocked
  <2>6. QED
    BY <2>3, <2>4, <2>5
<1>5. CASE DupCall(t)
  <2>1. PICK g \in Fds : /\ kernel[g] = "closed"
                         /\ \/ UNCHANGED origin /\ \E f : Enter(t, "dup", f, g, "copy")
                            \/ HandOver(g, "copy") /\ UNCHANGED cpu
    BY <1>5 DEF DupCall, LowestFree
  <2>2. sem' = sem /\ pc[t] = "idle"
    BY <1>5 DEF DupCall, MayCall, lib
  <2>3. Conns' = Conns
    BY <1>0, <1>c, <2>1 DEF OwnersOpen, Held
  <2>4. QED
    BY <1>i, <1>q, <1>s, <2>1, <2>2, <2>3
<1>6. CASE Dup2Call(t)
  <2>1. PICK g \in StdTargets \cup Held :
          \/ HandOver(g, "none") /\ \E f : Enter(t, "dup", f, g, "copy")
          \/ HandOver(g, "copy") /\ UNCHANGED cpu
    BY <1>6 DEF Dup2Call
  <2>2. sem' = sem /\ pc[t] = "idle"
    BY <1>6 DEF Dup2Call, MayCall, lib
  <2>3. g \in Fds
    BY FdTableAssumption, ConnPoolAssumption DEF Held, Fds
  <2>4. CASE g \in Conns
    <3>1. origin'[g] # "conn"
      BY <1>0, <2>1, <2>3 DEF HandOver
    <3>2. QED
      BY <1>6, <2>4, <3>1 DEF Lossy
  <2>5. CASE g \notin Conns
    <3>1. Conns' = Conns
      BY <1>c, <2>1, <2>3, <2>5 DEF Conns
    <3>2. QED
      BY <1>i, <1>q, <1>s, <2>1, <2>2, <3>1
  <2>6. QED
    BY <2>4, <2>5
<1>7. CASE AcceptBlock(t)
  <2>1. Goto(t, "sem_wait") /\ sem' = sem /\ UNCHANGED origin
    BY <1>7 DEF AcceptBlock, Plain, lib, app
  <2>2. ~OwesAt(pc[t], call[t])
    BY <1>7 DEF AcceptBlock, OwesAt
  <2>3. QED
    BY <1>c, <1>q, <2>1, <2>2
<1>8. CASE SemWait(t) \/ SemWaitInterrupted(t)
  <2>1. pc[t] = "sem_wait" /\ UNCHANGED origin /\ sem' \in {sem, sem - 1}
    BY <1>8 DEF SemWait, SemWaitInterrupted, lib, app
  <2>2. call[t] = "accept"
    BY <1>0, <2>1 DEF Inside, AcceptLabels, CloseLabels
  <2>3. Goto(t, "set_block")
    BY <1>8, <2>2 DEF SemWait, SemWaitInterrupted
  <2>4. Owing' = Owing \cup {t} /\ t \notin Owing
    BY <1>o, <2>1, <2>3, OwingMove DEF OwesAt
  <2>5. QED
    BY <1>c, <2>1, <2>4 DEF TokenKeep
<1>9. CASE AcceptSetBlock(t) \/ AcceptClone(t) \/ AcceptUnlisten(t)
  <2>1. sem' = sem /\ UNCHANGED origin
    BY <1>9 DEF AcceptSetBlock, AcceptClone, AcceptUnlisten, app
  <2>2. \E l \in {"dup", "unlisten", "fill"} : Goto(t, l)
    BY <1>9 DEF AcceptSetBlock, AcceptClone, AcceptUnlisten
  <2>3. QED
    BY <1>c, <1>q, <2>1, <2>2 DEF OwesAt
<1>10. CASE AcceptDup(t)
  <2>1. sem' = sem /\ UNCHANGED origin
    BY <1>10 DEF AcceptDup, lib, app
  <2>2. QED
    BY <1>10, <1>c, <1>q, <2>1 DEF AcceptDup, OwesAt
<1>11. CASE AcceptDupFails(t)
  BY <1>11 DEF Lossy
<1>12. CASE FillSockaddr(t)
  <2>1. sem' = sem /\ UNCHANGED origin
    BY <1>12 DEF FillSockaddr, lib, app
  <2>2. CASE pc[t] = "fill" /\ Goto(t, "check_max")
    <3>1. call[t] = "accept"
      BY <1>0, <2>2 DEF Inside, AcceptLabels, CloseLabels
    <3>2. QED
      BY <1>c, <1>q, <2>1, <2>2, <3>1 DEF OwesAt
  <2>3. CASE pc[t] = "name" /\ Return(t)
    BY <1>c, <1>q, <2>1, <2>3 DEF OwesAt, Return
  <2>4. QED
    BY <1>12, <2>2, <2>3 DEF FillSockaddr
<1>13. CASE CheckMax(t)
  <2>1. sem' = sem /\ pc[t] = "check_max"
    BY <1>13 DEF CheckMax, lib
  <2>2. CASE Goto(t, "write_max") /\ UNCHANGED origin
    BY <1>c, <1>q, <2>1, <2>2 DEF OwesAt
  <2>3. QED
    BY <1>13, <1>f, <2>1, <2>2 DEF CheckMax
<1>14. CASE WriteMax(t)
  BY <1>14, <1>f DEF WriteMax
<1>15. CASE CloseGetValue(t)
  <2>1. sem' = sem /\ UNCHANGED origin
    BY <1>15 DEF CloseGetValue, lib, app
  <2>2. CASE sem < MAX_CONNS
    <3>1. Goto(t, "post")
      BY <1>15, <2>2 DEF CloseGetValue
    <3>2. QED
      BY <1>c, <1>q, <2>1, <3>1 DEF OwesAt
  <2>3. CASE ~(sem < MAX_CONNS)
    BY <1>0, <1>15, <2>3, ConnPoolAssumption DEF Lossy
  <2>4. QED
    BY <2>2, <2>3
<1>16. CASE ClosePost(t)
  <2>1. sem' = sem + 1 /\ UNCHANGED origin /\ Goto(t, "clear")
    BY <1>16 DEF ClosePost, app
  <2>2. Owing' = Owing \ {t}
    <3>1. ~OwesAt("clear", call[t])
      BY DEF OwesAt
    <3>2. QED
      BY <2>1, <3>1, OwingMove
  <2>3. QED
    BY <1>c, <2>1, <2>2 DEF TokenKeep
<1>17. CASE CloseClear(t) \/ CloseSysClose(t) \/ CopyEntry(t)
  <2>1. sem' = sem /\ UNCHANGED origin
    BY <1>17 DEF CloseClear, CloseSysClose, CopyEntry, lib, app
  <2>2. ~OwesAt(pc[t], call[t])
    BY <1>17 DEF CloseClear, CloseSysClose, CopyEntry, OwesAt
  <2>3. \E fn, f, g, l : Enter(t, fn, f, g, l) \/ (Goto(t, l) /\ fn = call[t])
    BY <1>17 DEF CloseClear, CloseSysClose, CopyEntry, Return
  <2>4. QED
    BY <1>c, <1>q, <2>1, <2>2, <2>3
<1>18. QED
  BY <1>1, <1>2, <1>3, <1>4, <1>5, <1>6, <1>7, <1>8, <1>9, <1>10, <1>11, <1>12, <1>13, <1>14,
     <1>15, <1>16, <1>17 DEF PlainStep

-----------------------------------------------------------------------------
(* The theorems *)

BlockingInv == TypeInv /\ OwnInv /\ Blocking /\ TokensBounded

LEMMA BlockingInvariant ==
  ASSUME BlockingApp
  PROVE  Spec => []BlockingInv
<1> USE FdTableAssumption, ConnPoolAssumption
<1>1. Init => BlockingInv
  <2>1. SUFFICES ASSUME Init PROVE BlockingInv
    OBVIOUS
  <2>2. TypeInv /\ OwnInv
    BY <2>1, InitType, OwnInit
  <2>3. Blocking
    BY <2>1 DEF Init, Blocking, Plain, Inside
  <2>4. Conns = {} /\ Owing = {}
    BY <2>1, <2>3, OwingIs DEF Blocking, OwingChar, Init, Conns, OwesAt
  <2>5. TokensBounded
    BY <2>1, <2>4, HoldersCount, FS_EmptySet DEF Init, HoldersAdd, TokensBounded
  <2>6. QED
    BY <2>2, <2>3, <2>5 DEF BlockingInv
<1>2. BlockingInv /\ [Next]_vars => BlockingInv'
  <2> SUFFICES ASSUME BlockingInv, [Next]_vars PROVE BlockingInv'
    OBVIOUS
  <2>1. TypeInv' /\ OwnInv' /\ Blocking'
    BY TypeStep, OwnStep, BlockingInductive DEF BlockingInv
  <2>2. TokensBounded'
    <3>1. CASE UNCHANGED vars
      <4>1. Conns' = Conns
        BY <3>1 DEF vars, app, Conns
      <4>2. Owing' = Owing
        BY <2>1, <3>1, OwingStays DEF BlockingInv, Blocking, vars
      <4>3. QED
        BY <3>1, <4>1, <4>2 DEF BlockingInv, TokensBounded, Holders, vars, lib
    <3>2. ASSUME NEW t \in Threads, AppCall(t) \/ LibStep(t) PROVE TokensBounded'
      BY <2>1, <3>2, OnlyBlockingSteps, TokenStep, TokenArithmetic DEF BlockingInv, Blocking
    <3>3. QED
      BY <3>1, <3>2 DEF Next
  <2>3. QED
    BY <2>1, <2>2 DEF BlockingInv
<1>3. QED
  BY <1>1, <1>2, PTL DEF Spec

\* However many threads accept and close, sem and the holders of its tokens (open
\* connections, accepts past sem_wait, closes before sem_post) stay within MAX_CONNS
\* (src/accept.c:17-25, src/close.c:14-21).
THEOREM TokensAreBounded ==
  ASSUME BlockingApp
  PROVE  Spec => []TokensBounded
BY BlockingInvariant, PTL DEF BlockingInv

\* So such an application never holds more than MAX_CONNS connections.
THEOREM ConnectionLimit ==
  ASSUME BlockingApp
  PROVE  Spec => []ConnLimit
<1>1. BlockingInv => ConnLimit
  BY HoldersCount, ConnPoolAssumption
     DEF BlockingInv, HoldersAdd, TokensBounded, ConnLimit, TypeInv, WorldOK
<1>2. QED
  BY <1>1, BlockingInvariant, PTL

PlainInv == TypeInv /\ OwnInv /\ Plain /\ Unlisted

LEMMA PlainInvariant ==
  ASSUME NoMultiplexers
  PROVE  Spec => []PlainInv
<1> USE FdTableAssumption, ConnPoolAssumption
<1>1. Init => PlainInv
  <2>1. ASSUME Init PROVE Plain /\ Unlisted
    BY <2>1 DEF Init, Plain, Inside, Unlisted, Filled, Conns
  <2>2. QED
    BY <2>1, InitType, OwnInit DEF PlainInv
<1>2. PlainInv /\ [Next]_vars => PlainInv'
  <2> SUFFICES ASSUME PlainInv, [Next]_vars PROVE PlainInv'
    OBVIOUS
  <2>1. TypeInv' /\ OwnInv'
    BY TypeStep, OwnStep DEF PlainInv
  <2>2. CASE UNCHANGED vars
    <3>1. UNCHANGED <<accept_block, ready, cpu, pc, call, new, fd_table, origin>>
      BY <2>2 DEF vars, lib, cpu, app
    <3>2. Plain' /\ Unlisted'
      BY <3>1 DEF PlainInv, Plain, Inside, Unlisted, Filled, Conns
    <3>3. QED
      BY <2>1, <3>2 DEF PlainInv
  <2>3. ASSUME NEW t \in Threads, AppCall(t) \/ LibStep(t) PROVE PlainInv'
    <3>1. PlainStep(t) /\ Moves(t)
      BY <2>3, OnlyPlainSteps, EveryStepMoves DEF PlainInv
    <3>2. Plain' /\ Unlisted'
      BY <3>1, PlainInductive, UnlistedStep DEF PlainInv
    <3>3. QED
      BY <2>1, <3>2 DEF PlainInv
  <2>4. QED
    BY <2>2, <2>3 DEF Next
<1>3. QED
  BY <1>1, <1>2, PTL DEF Spec

\* Whatever an application without multiplexers does, interrupted waits, copies and
\* listeners closed under a waiting accept included, a token is lost in the four places
\* named by the property only (src/accept.c:21-27, src/close.c:14-21, src/dup.c:50).
THEOREM LostNowhereElse ==
  ASSUME NoMultiplexers
  PROVE  Spec => TokensLostOnlyHere
<1> DEFINE Fall  == sem' + Cardinality(Holders') < sem + Cardinality(Holders)
           Where == \E t \in Threads : Lossy(t)
<1>1. PlainInv /\ PlainInv' /\ [Next]_vars => [Fall => Where]_vars
  <2> SUFFICES ASSUME PlainInv, PlainInv', Next, Fall PROVE Where
    OBVIOUS
  <2>1. PICK t \in Threads : AppCall(t) \/ LibStep(t)
    BY DEF Next
  <2>2. TokenKeep(t) \/ Lossy(t)
    BY <2>1, OnlyPlainSteps, KeepStep DEF PlainInv
  <2>3. ~TokenKeep(t)
    <3>1. ASSUME TokenKeep(t) PROVE FALSE
      <4>1. sem' + Cardinality(Holders') >= sem + Cardinality(Holders)
        BY <3>1, KeepArithmetic DEF PlainInv
      <4>2. /\ sem \in Nat /\ sem' \in Nat
            /\ Cardinality(Holders) \in Nat /\ Cardinality(Holders') \in Nat
        <5>1. HoldersAdd /\ HoldersAdd'
          BY HoldersCount, PTL
        <5>2. QED
          BY <5>1 DEF HoldersAdd, PlainInv, TypeInv, WorldOK
      <4>3. QED
        BY <4>1, <4>2
    <3>2. QED
      BY <3>1
  <2>4. QED
    BY <2>2, <2>3
<1>2. [](PlainInv) /\ [][Next]_vars => [][Fall => Where]_vars
  <2> HIDE DEF Fall, Where
  <2>1. QED
    BY <1>1, PTL
<1>3. QED
  BY <1>2, PlainInvariant, PTL DEF Spec, TokensLostOnlyHere, Lossy

-----------------------------------------------------------------------------
(* What the application gets: connections and listeners stay what they were   *)
(* while a call works on them.                                                *)

Desocked(f) == DESOCK_FD(fd_table, f)
Served(f)   == Desocked(f) /\ fd_table[f].listening = 0

Sockets == {f \in Fds : origin[f] \in {"socket", "listener"}}

\* Descriptors the application has from socket and accept are sockets, and the
\* connections among them are served.
FdServed ==
  \A f \in Fds : /\ origin[f] \in {"socket", "listener", "conn"} => kernel[f] = "sock"
                 /\ origin[f] = "conn" => Served(f)

\* What a call has found out about its descriptors by now is still true of them.
ThreadServed(t) ==
  /\ pc[t] \in AcceptLabels => arg[t] \in Sockets /\ Desocked(arg[t])
  /\ pc[t] = "name" => arg[t] \in Held /\ Desocked(arg[t])
  /\ pc[t] \in NewLabels => kernel[new[t]] = "sock"
  /\ pc[t] = "unlisten" => Desocked(new[t])
  /\ \/ pc[t] = "fill"
     \/ pc[t] \in {"check_max", "write_max"} /\ call[t] = "accept"
     => Served(new[t])

ServedInv == FdServed /\ \A t \in Threads : ThreadServed(t)

-----------------------------------------------------------------------------
(* The threads that do not move *)

\* What a step of t leaves as the other threads found it.
Respects(t) ==
  /\ \A f \in Held : Desocked(f) => Desocked(f)'
  /\ Sockets \subseteq Sockets'
  /\ \A u \in Threads \ {t} : pc[u] = "name" => arg[u] \in Held'
  /\ \A u \in Threads \ {t}, f \in TableFds \cap Fds :
       Creates(u, f) => kernel'[f] = kernel[f] /\ fd_table'[f] = fd_table[f]

LEMMA OthersServed ==
  ASSUME TypeInv, ServedInv, NEW t \in Threads, Moves(t), Respects(t), NEW u \in Threads \ {t}
  PROVE  ThreadServed(u)'
<1>1. pc'[u] = pc[u] /\ call'[u] = call[u] /\ arg'[u] = arg[u] /\ new'[u] = new[u]
  BY DEF TypeInv, CpuOK, Moves, Enter, Goto, cpu
<1>2. ThreadServed(u)
  BY DEF ServedInv
<1>3. pc[u] \in NewLabels =>
        /\ new[u] \in TableFds \cap Fds
        /\ kernel'[new[u]] = kernel[new[u]] /\ fd_table'[new[u]] = fd_table[new[u]]
  BY DEF TypeInv, CpuOK, FrameOK, Creates, Respects
<1>4. pc[u] \in AcceptLabels => arg[u] \in Sockets' /\ Desocked(arg[u])'
  BY <1>1, <1>2 DEF ThreadServed, Respects, Sockets, Held, Desocked, DESOCK_FD
<1>5. pc[u] = "name" => arg[u] \in Held' /\ Desocked(arg[u])'
  BY <1>1, <1>2 DEF ThreadServed, Respects, Desocked, DESOCK_FD
<1>6. pc[u] \in NewLabels => /\ Desocked(new[u])' <=> Desocked(new[u])
                             /\ Served(new[u])' <=> Served(new[u])
  BY <1>1, <1>3 DEF Served, Desocked, DESOCK_FD
<1>7. QED
  BY <1>1, <1>2, <1>3, <1>4, <1>5, <1>6 DEF ThreadServed, NewLabels

\* A step that leaves all descriptors and entries alone.
LEMMA QuietRespects ==
  ASSUME ServedInv, NEW t \in Threads, UNCHANGED <<kernel, origin, fd_table>>
  PROVE  Respects(t) /\ FdServed'
BY DEF Respects, FdServed, ServedInv, ThreadServed, Sockets, Held, Desocked, Served, DESOCK_FD

\* A step that gives the application, or the thread, a descriptor that was free.
LEMMA FreshRespects ==
  ASSUME TypeInv, OwnersOpen, ServedInv, NEW t \in Threads,
         NEW f \in Fds, kernel[f] = "closed",
         \A g \in Fds : g # f => kernel'[g] = kernel[g] /\ origin'[g] = origin[g],
         \A g \in TableFds : g # f => fd_table'[g] = fd_table[g],
         origin'[f] # "conn", origin'[f] \in {"socket", "listener"} => kernel'[f] = "sock"
  PROVE  Respects(t) /\ FdServed'
<1>1. f \notin Held /\ \A u \in Threads : ~Creates(u, f)
  BY DEF OwnersOpen, Owns, Creates
<1>2. Respects(t)
  BY <1>1 DEF Respects, Sockets, Held, Desocked, DESOCK_FD, VALID_FD, ServedInv, ThreadServed
<1>3. FdServed'
  BY DEF ServedInv, FdServed, Served, Desocked, DESOCK_FD, VALID_FD
<1>4. QED
  BY <1>2, <1>3

\* A step that writes one entry, which the stepping thread owns.
LEMMA OwnedRespects ==
  ASSUME TypeInv, OwnersOpen, OneOwner, ServedInv, NEW t \in Threads,
         NEW f \in Fds, Owns(t, f), UNCHANGED origin,
         \A g \in Fds : g # f => kernel'[g] = kernel[g],
         \A g \in TableFds : g # f => fd_table'[g] = fd_table[g]
  PROVE  Respects(t) /\ FdServed'
<1>1. f \notin Held /\ \A u \in Threads \ {t} : ~Creates(u, f)
  BY DEF OwnersOpen, OneOwner, Owns, Held
<1>2. Respects(t)
  BY <1>1 DEF Respects, Sockets, Held, Desocked, DESOCK_FD, VALID_FD, ServedInv, ThreadServed
<1>3. FdServed'
  BY <1>1 DEF ServedInv, FdServed, Served, Desocked, DESOCK_FD, VALID_FD, Held
<1>4. QED
  BY <1>2, <1>3

\* bind, connect and listen mark an entry of the application's.
LEMMA MarkRespects ==
  ASSUME TypeInv, OwnersOpen, ServedInv, NEW t \in Threads, NEW f \in Fds,
         origin[f] = "socket", Desocked(f) => Desocked(f)', UNCHANGED kernel,
         \A g \in Fds : g # f => origin'[g] = origin[g],
         \A g \in TableFds : g # f => fd_table'[g] = fd_table[g],
         origin'[f] \in {"socket", "listener"}
  PROVE  Respects(t) /\ FdServed'
<1>1. f \in Held /\ \A u \in Threads : ~Creates(u, f)
  BY DEF OwnersOpen, Owns, Held
<1>2. Respects(t)
  BY <1>1 DEF Respects, Sockets, Held, Desocked, DESOCK_FD, VALID_FD, ServedInv, ThreadServed
<1>3. FdServed'
  BY <1>1 DEF ServedInv, FdServed, Served, Desocked, DESOCK_FD, VALID_FD
<1>4. QED
  BY <1>2, <1>3

-----------------------------------------------------------------------------
(* The thread that moves *)

\* Labels at which ThreadServed says nothing.
LEMMA NothingFound ==
  ASSUME TypeInv, NEW t \in Threads,
         NEW fn, NEW f, NEW g, NEW l, Enter(t, fn, f, g, l),
         l \in {"idle"} \cup CloseLabels
  PROVE  ThreadServed(t)'
BY DEF TypeInv, CpuOK, Enter, ThreadServed, AcceptLabels, NewLabels, CloseLabels

\* The same, when the thread goes on.
LEMMA NothingFoundOn ==
  ASSUME TypeInv, NEW t \in Threads, NEW l, Goto(t, l), l \in {"idle"} \cup CloseLabels
  PROVE  ThreadServed(t)'
BY DEF TypeInv, CpuOK, Goto, ThreadServed, AcceptLabels, NewLabels, CloseLabels

\* A call that goes on without touching a descriptor.
LEMMA GoesOn ==
  ASSUME TypeInv, ServedInv, NEW t \in Threads, NEW l, Goto(t, l),
         UNCHANGED <<kernel, origin, fd_table>>,
         \/ pc[t] \in AcceptLabels \ NewLabels /\ l \in AcceptLabels \ NewLabels
         \/ pc[t] = "fill" /\ l = "check_max"
         \/ pc[t] = "check_max" /\ l = "write_max"
  PROVE  ThreadServed(t)'
<1>1. pc'[t] = l /\ UNCHANGED <<call, arg, new>>
  BY DEF TypeInv, CpuOK, Goto
<1>2. ThreadServed(t)
  BY DEF ServedInv
<1>3. QED
  BY <1>1, <1>2 DEF ThreadServed, AcceptLabels, NewLabels, Sockets, Held, Served, Desocked,
                    DESOCK_FD

\* Every call, and every step of accept and close, keeps what was found out.
LEMMA ServedStep ==
  ASSUME BlockingApp, TypeInv, OwnInv, Blocking, ServedInv, NEW t \in Threads, BlockingStep(t)
  PROVE  Respects(t) /\ FdServed' /\ ThreadServed(t)'
<1>0. /\ kernel \in [Fds -> {"closed", "file", "sock"}]
      /\ origin \in [Fds -> Origins]
      /\ fd_table \in [TableFds -> Entry]
      /\ OwnersOpen /\ OneOwner /\ VacantIsClear
      /\ FdServed /\ ThreadServed(t)
  BY DEF TypeInv, WorldOK, TableOK, Table, OwnInv, ServedInv
<1>c. /\ pc \in [Threads -> Labels] /\ call \in [Threads -> CallNames]
      /\ arg \in [Threads -> Fds \cup {NoFd}] /\ new \in [Threads -> Fds \cup {NoFd}]
      /\ FrameOK(pc[t], arg[t], new[t])
  BY DEF TypeInv, CpuOK
<1>i. ASSUME pc[t] = "idle", UNCHANGED cpu PROVE ThreadServed(t)'
  BY <1>i DEF cpu, ThreadServed, AcceptLabels, NewLabels
\* a step at one of the labels of accept whose descriptor is not made yet
<1>q. ASSUME NEW l, Goto(t, l), UNCHANGED <<kernel, origin, fd_table>>,
             \/ pc[t] \in AcceptLabels \ NewLabels /\ l \in AcceptLabels \ NewLabels
             \/ pc[t] = "fill" /\ l = "check_max"
             \/ pc[t] = "check_max" /\ l = "write_max"
      PROVE  Respects(t) /\ FdServed' /\ ThreadServed(t)'
  BY <1>q, QuietRespects, GoesOn
<1>1. CASE OpenCall(t)
  <2>1. PICK f \in Fds : /\ kernel[f] = "closed" /\ kernel' = [kernel EXCEPT ![f] = "file"]
                         /\ origin' = [origin EXCEPT ![f] = "file"]
    BY <1>1 DEF OpenCall, LowestFree, HandOver
  <2>2. fd_table' = fd_table /\ UNCHANGED cpu /\ pc[t] = "idle"
    BY <1>1 DEF OpenCall, MayCall, lib
  <2>3. /\ \A g \in Fds : g # f => kernel'[g] = kernel[g] /\ origin'[g] = origin[g]
        /\ origin'[f] = "file"
    BY <1>0, <2>1
  <2>4. QED
    BY <1>0, <1>i, <2>1, <2>2, <2>3, FreshRespects
<1>2. CASE SocketCall(t)
  <2>1. PICK f \in Fds, d \in SockDomains :
          /\ kernel[f] = "closed" /\ kernel' = [kernel EXCEPT ![f] = "sock"]
          /\ \/ /\ VALID_FD(f)
                /\ fd_table' = [fd_table EXCEPT ![f] =
                                  [clear_fd_table_entry(@) EXCEPT !.domain = d]]
                /\ Enter(t, "socket", NoFd, f, "check_max")
                /\ UNCHANGED origin
             \/ HandOver(f, "socket") /\ UNCHANGED <<fd_table, cpu>>
    BY <1>2 DEF SocketCall, LowestFree
  <2>2. \A g \in Fds : kernel'[g] = IF g = f THEN "sock" ELSE kernel[g]
    BY <1>0, <2>1
  <2>3. origin[f] = "none"
    BY <1>0, <2>1 DEF OwnersOpen, Held
  <2>4. CASE HandOver(f, "socket") /\ UNCHANGED <<fd_table, cpu>>
    <3>1. \A g \in Fds : origin'[g] = IF g = f THEN "socket" ELSE origin[g]
      BY <1>0, <2>4 DEF HandOver
    <3>2. pc[t] = "idle"
      BY <1>2 DEF SocketCall, MayCall
    <3>3. QED
      BY <1>0, <1>i, <2>1, <2>2, <2>4, <3>1, <3>2, FreshRespects
  <2>5. CASE /\ Enter(t, "socket", NoFd, f, "check_max") /\ UNCHANGED origin
             /\ \E e : fd_table' = [fd_table EXCEPT ![f] = e]
    <3>1. \A g \in TableFds : g # f => fd_table'[g] = fd_table[g]
      BY <1>0, <2>5
    <3>2. Respects(t) /\ FdServed'
      BY <1>0, <2>1, <2>2, <2>3, <2>5, <3>1, FreshRespects
    <3>3. pc'[t] = "check_max" /\ call'[t] = "socket" /\ new'[t] = f
      BY <1>c, <2>5 DEF Enter
    <3>4. ThreadServed(t)'
      BY <2>2, <3>3 DEF ThreadServed, AcceptLabels, NewLabels
    <3>5. QED
      BY <3>2, <3>4
  <2>6. QED
    BY <2>1, <2>4, <2>5
<1>3. CASE BindCall(t) \/ ConnectCall(t)
  <2>1. PICK f \in Fds : /\ origin[f] = "socket" /\ VALID_FD(f)
                         /\ fd_table' = [fd_table EXCEPT ![f].desock = 1]
    BY <1>3 DEF BindCall, ConnectCall, MarkDesock, Held, has_supported_domain
  <2>2. pc[t] = "idle" /\ UNCHANGED cpu /\ UNCHANGED kernel /\ UNCHANGED origin
    BY <1>3 DEF BindCall, ConnectCall, MarkDesock, MayCall, app
  <2>3. \A g \in TableFds : g # f => fd_table'[g] = fd_table[g]
    BY <1>0, <2>1
  <2>4. Desocked(f)'
    BY <1>0, <2>1 DEF Desocked, DESOCK_FD, VALID_FD, Entry
  <2>5. QED
    BY <1>0, <1>i, <2>1, <2>2, <2>3, <2>4, MarkRespects
<1>4. CASE ListenCall(t)
  <2>1. PICK f \in Fds : /\ origin[f] = "socket" /\ Desocked(f)
                         /\ fd_table' = [fd_table EXCEPT ![f].listening = 1]
                         /\ HandOver(f, "listener")
    BY <1>4 DEF ListenCall, Held, HeldDesocked, Desocked
  <2>2. pc[t] = "idle" /\ UNCHANGED cpu /\ UNCHANGED kernel
    BY <1>4 DEF ListenCall, MayCall
  <2>3. \A g \in TableFds : g # f => fd_table'[g] = fd_table[g]
    BY <1>0, <2>1
  <2>4. Desocked(f)'
    BY <1>0, <2>1 DEF Desocked, DESOCK_FD, VALID_FD, Entry
  <2>5. \A g \in Fds : origin'[g] = IF g = f THEN "listener" ELSE origin[g]
    BY <1>0, <2>1 DEF HandOver
  <2>6. QED
    BY <1>0, <1>i, <2>1, <2>2, <2>3, <2>4, <2>5, MarkRespects
<1>5. CASE AcceptCall(t)
  <2>1. PICK f \in Fds : /\ f \in Held /\ LISTENING_FD(fd_table, f)
                         /\ Enter(t, "accept", f, NoFd, "block")
    BY <1>5 DEF AcceptCall, HeldDesocked, Held
  <2>2. UNCHANGED <<kernel, origin, fd_table>>
    BY <1>5 DEF AcceptCall, lib, app
  <2>3. f \in Sockets /\ Desocked(f)
    BY <1>0, <2>1 DEF Blocking, FdServed, Served, VacantIsClear, Vacant, Held, Sockets, Origins,
                      Desocked, LISTENING_FD
  <2>4. pc'[t] = "block" /\ arg'[t] = f
    BY <1>c, <2>1 DEF Enter
  <2>5. ThreadServed(t)'
    BY <2>2, <2>3, <2>4 DEF ThreadServed, AcceptLabels, NewLabels, Sockets, Desocked, DESOCK_FD
  <2>6. QED
    BY <2>2, <2>5, QuietRespects
<1>6. CASE GetNameCall(t)
  <2>1. PICK f \in Fds : /\ f \in Held /\ Desocked(f)
                         /\ Enter(t, "getname", f, NoFd, "name")
    BY <1>6 DEF GetNameCall, HeldDesocked, Held, Desocked
  <2>2. UNCHANGED <<kernel, origin, fd_table>>
    BY <1>6 DEF GetNameCall, lib, app
  <2>3. pc'[t] = "name" /\ arg'[t] = f
    BY <1>c, <2>1 DEF Enter
  <2>4. ThreadServed(t)'
    BY <2>1, <2>2, <2>3 DEF ThreadServed, AcceptLabels, NewLabels, Held, Desocked, DESOCK_FD
  <2>5. QED
    BY <2>2, <2>4, QuietRespects
<1>7. CASE CloseCall(t)
  <2>1. PICK f \in Fds : /\ origin[f] \in {"conn", "copy", "file"} /\ ~InUse(f)
                         /\ HandOver(f, "none")
                         /\ Enter(t, "close", f, NoFd, CloseLabel(f))
    BY <1>7 DEF CloseCall, MayCall, BlockingApp, Held
  <2>2. UNCHANGED <<kernel, fd_table>>
    BY <1>7 DEF CloseCall, lib
  <2>3. \A g \in Fds : origin'[g] = IF g = f THEN "none" ELSE origin[g]
    BY <1>0, <2>1 DEF HandOver
  <2>4. \A u \in Threads : arg[u] # f
    BY <2>1 DEF InUse
  <2>5. \A u \in Threads : pc[u] = "name" => arg[u] \in Held'
    BY <2>3, <2>4 DEF ServedInv, ThreadServed, Held
  <2>6. Respects(t)
    BY <2>1, <2>2, <2>3, <2>5 DEF Respects, Desocked, DESOCK_FD, Sockets
  <2>7. FdServed'
    BY <1>0, <2>2, <2>3 DEF FdServed, Served, Desocked, DESOCK_FD
  <2>8. CloseLabel(f) \in CloseLabels
    BY DEF CloseLabel, CloseLabels
  <2>9. QED
    BY <2>1, <2>6, <2>7, <2>8, NothingFound
<1>8. CASE AcceptBlock(t) \/ SemWait(t) \/ AcceptSetBlock(t)
  <2>1. UNCHANGED <<kernel, origin, fd_table>>
    BY <1>8 DEF AcceptBlock, SemWait, AcceptSetBlock, lib, app
  <2>2. pc[t] \in AcceptLabels \ NewLabels
    BY <1>8 DEF AcceptBlock, SemWait, AcceptSetBlock, AcceptLabels, NewLabels
  <2>3. call[t] = "accept"
    BY <2>2 DEF Blocking, Plain, Inside, AcceptLabels, NewLabels, CloseLabels
  <2>4. \E l \in AcceptLabels \ NewLabels : Goto(t, l)
    BY <1>8, <2>3 DEF AcceptBlock, SemWait, AcceptSetBlock, AcceptLabels, NewLabels
  <2>5. QED
    BY <1>q, <2>1, <2>2, <2>4
<1>9. CASE AcceptDupFails(t)
  <2>1. UNCHANGED fd_table /\ UNCHANGED origin
    BY <1>9 DEF AcceptDupFails, lib, app
  <2>2. ThreadServed(t)'
    BY <1>9, NothingFound DEF AcceptDupFails, Return
  <2>3. CASE UNCHANGED kernel
    BY <2>1, <2>2, <2>3, QuietRespects
  <2>4. CASE \E f \in LowestFree : kernel' = [kernel EXCEPT ![f] = kernel[arg[t]]]
    <3>1. PICK f \in Fds : /\ kernel[f] = "closed"
                           /\ kernel' = [kernel EXCEPT ![f] = kernel[arg[t]]]
      BY <2>4 DEF LowestFree
    <3>2. origin'[f] = "none" /\ \A g \in Fds : g # f => kernel'[g] = kernel[g]
      BY <1>0, <2>1, <3>1 DEF OwnersOpen, Held
    <3>3. QED
      BY <1>0, <2>1, <2>2, <3>1, <3>2, FreshRespects
  <2>5. QED
    BY <1>9, <2>3, <2>4 DEF AcceptDupFails
<1>10. CASE AcceptDup(t)
  <2>1. PICK f \in Fds : /\ kernel[f] = "closed"
                         /\ kernel' = [kernel EXCEPT ![f] = kernel[arg[t]]]
                         /\ Enter(t, call[t], arg[t], f, "clone")
    BY <1>10 DEF AcceptDup, LowestFree
  <2>2. UNCHANGED fd_table /\ UNCHANGED origin /\ pc[t] = "dup"
    BY <1>10 DEF AcceptDup, lib, app
  <2>3. arg[t] \in Sockets /\ Desocked(arg[t]) /\ kernel[arg[t]] = "sock"
    BY <1>0, <2>2 DEF ThreadServed, AcceptLabels, Sockets, FdServed
  <2>4. /\ kernel'[f] = "sock" /\ origin'[f] = "none"
        /\ \A g \in Fds : g # f => kernel'[g] = kernel[g]
    BY <1>0, <2>1, <2>2, <2>3 DEF OwnersOpen, Held
  <2>5. Respects(t) /\ FdServed'
    BY <1>0, <2>1, <2>2, <2>4, FreshRespects
  <2>6. pc'[t] = "clone" /\ arg'[t] = arg[t] /\ new'[t] = f
    BY <1>c, <2>1 DEF Enter
  <2>7. ThreadServed(t)'
    BY <2>2, <2>3, <2>4, <2>6 DEF ThreadServed, AcceptLabels, NewLabels, Sockets, Desocked,
                                  DESOCK_FD
  <2>8. QED
    BY <2>5, <2>7
\* the steps of accept that write the new entry
<1>n. ASSUME pc[t] \in {"clone", "unlisten"}, NEW l \in {"unlisten", "fill"}, Goto(t, l),
             UNCHANGED kernel, UNCHANGED origin,
             \A g \in TableFds : g # new[t] => fd_table'[g] = fd_table[g],
             Desocked(new[t])', l = "fill" => Served(new[t])'
      PROVE  Respects(t) /\ FdServed' /\ ThreadServed(t)'
  <2>1. new[t] \in Fds /\ Owns(t, new[t])
    BY <1>c, <1>n DEF FrameOK, NewLabels, Owns, Creates
  <2>2. Respects(t) /\ FdServed'
    BY <1>0, <1>n, <2>1, OwnedRespects
  <2>3. /\ arg[t] \in Sockets /\ Desocked(arg[t]) /\ kernel[new[t]] = "sock"
        /\ arg[t] # new[t]
    BY <1>0, <1>n, <2>1 DEF ThreadServed, AcceptLabels, NewLabels, OwnersOpen, Sockets
  <2>4. pc'[t] = l /\ UNCHANGED <<call, arg, new>>
    BY <1>c, <1>n DEF Goto
  <2>5. arg'[t] \in Sockets' /\ DESOCK_FD(fd_table', arg'[t]) /\ kernel'[new'[t]] = "sock"
    BY <1>n, <2>3, <2>4 DEF Sockets, Desocked, DESOCK_FD, VALID_FD
  <2>6. DESOCK_FD(fd_table', new'[t]) /\ (l = "fill" => fd_table'[new'[t]].listening = 0)
    BY <1>n, <2>4 DEF Desocked, Served
  <2>7. ThreadServed(t)'
    BY <2>4, <2>5, <2>6 DEF ThreadServed, AcceptLabels, NewLabels, Desocked, Served
  <2>8. QED
    BY <2>2, <2>7
<1>11. CASE AcceptClone(t)
  <2>1. pc[t] = "clone" /\ Goto(t, "unlisten") /\ UNCHANGED kernel /\ UNCHANGED origin
    BY <1>11 DEF AcceptClone, app
  <2>2. fd_table' = [fd_table EXCEPT ![new[t]] = fd_table[arg[t]]]
    BY <1>11 DEF AcceptClone, clone_fd_table_entry
  <2>3. new[t] \in TableFds /\ Desocked(arg[t])
    BY <1>0, <1>c, <2>1 DEF FrameOK, NewLabels, ThreadServed, AcceptLabels
  <2>4. \A g \in TableFds : fd_table'[g] = IF g = new[t] THEN fd_table[arg[t]] ELSE fd_table[g]
    BY <1>0, <2>2
  <2>5. Desocked(new[t])'
    <3>1. DESOCK_FD(fd_table', new[t])
      BY <2>3, <2>4 DEF Desocked, DESOCK_FD, VALID_FD
    <3>2. new'[t] = new[t]
      BY <2>1 DEF Goto
    <3>3. QED
      BY <3>1, <3>2 DEF Desocked
  <2>6. QED
    BY <1>n, <2>1, <2>4, <2>5
<1>12. CASE AcceptUnlisten(t)
  <2>1. pc[t] = "unlisten" /\ Goto(t, "fill") /\ UNCHANGED kernel /\ UNCHANGED origin
    BY <1>12 DEF AcceptUnlisten, app
  <2>2. fd_table' = [fd_table EXCEPT ![new[t]].listening = 0]
    BY <1>12 DEF AcceptUnlisten
  <2>3. new[t] \in TableFds /\ Desocked(new[t])
    BY <1>0, <1>c, <2>1 DEF FrameOK, NewLabels, ThreadServed
  <2>4. \A g \in TableFds : g # new[t] => fd_table'[g] = fd_table[g]
    BY <1>0, <2>2
  <2>5. DESOCK_FD(fd_table', new[t]) /\ fd_table'[new[t]].listening = 0
    BY <1>0, <2>2, <2>3 DEF Desocked, DESOCK_FD, VALID_FD, Entry
  <2>6. new'[t] = new[t]
    BY <2>1 DEF Goto
  <2>7. Desocked(new[t])' /\ Served(new[t])'
    BY <2>5, <2>6 DEF Desocked, Served
  <2>8. QED
    BY <1>n, <2>1, <2>4, <2>7
<1>13. CASE FillSockaddr(t)
  <2>1. UNCHANGED <<kernel, origin, fd_table>>
    BY <1>13 DEF FillSockaddr, lib, app
  <2>2. CASE pc[t] = "fill" /\ Goto(t, "check_max")
    BY <1>q, <2>1, <2>2
  <2>3. CASE Return(t)
    BY <2>1, <2>3, QuietRespects, NothingFound DEF Return
  <2>4. QED
    BY <1>13, <2>2, <2>3 DEF FillSockaddr
\* the call returns its descriptor
<1>f. ASSUME pc[t] \in {"check_max", "write_max"}, Finish(t), UNCHANGED kernel,
             UNCHANGED fd_table
      PROVE  Respects(t) /\ FdServed' /\ ThreadServed(t)'
  <2>1. new[t] \in Fds /\ Owns(t, new[t]) /\ kernel[new[t]] = "sock"
    BY <1>0, <1>c, <1>f DEF FrameOK, NewLabels, Owns, Creates, ThreadServed
  <2>2. /\ call[t] \in {"accept", "socket"}
        /\ call[t] = "accept" => Served(new[t])
    BY <1>0, <1>f DEF Blocking, Plain, Inside, AcceptLabels, CloseLabels, ThreadServed
  <2>3. origin[new[t]] = "none"
    BY <1>0, <2>1 DEF OwnersOpen
  <2>4. \A g \in Fds : origin'[g] = IF g # new[t] THEN origin[g]
                                     ELSE IF call[t] = "accept" THEN "conn" ELSE "socket"
    BY <1>0, <1>f, <2>2 DEF Finish, HandOver
  <2>5. Respects(t)
    BY <1>0, <1>f, <2>3, <2>4
       DEF Respects, Sockets, Held, Desocked, DESOCK_FD, ServedInv, ThreadServed
  <2>6. FdServed'
    BY <1>0, <1>f, <2>1, <2>2, <2>4 DEF FdServed, Served, Desocked, DESOCK_FD
  <2>7. ThreadServed(t)'
    BY <1>f, NothingFound DEF Finish, Return
  <2>8. QED
    BY <2>5, <2>6, <2>7
<1>14. CASE CheckMax(t)
  <2>1. pc[t] = "check_max" /\ UNCHANGED <<kernel, fd_table>>
    BY <1>14 DEF CheckMax, lib
  <2>2. CASE Goto(t, "write_max") /\ UNCHANGED origin
    BY <1>q, <2>1, <2>2
  <2>3. CASE Finish(t)
    BY <1>f, <2>1, <2>3
  <2>4. QED
    BY <1>14, <2>2, <2>3 DEF CheckMax
<1>15. CASE WriteMax(t)
  BY <1>15, <1>f DEF WriteMax
<1>16. CASE CloseGetValue(t) \/ ClosePost(t)
  <2>1. UNCHANGED <<kernel, origin, fd_table>>
    BY <1>16 DEF CloseGetValue, ClosePost, lib, app
  <2>2. \E l \in CloseLabels : Goto(t, l)
    BY <1>16 DEF CloseGetValue, ClosePost, CloseLabels
  <2>3. QED
    BY <2>1, <2>2, QuietRespects, NothingFoundOn
<1>17. CASE CloseClear(t)
  <2>1. /\ pc[t] = "clear" /\ Goto(t, "sysclose") /\ UNCHANGED kernel /\ UNCHANGED origin
        /\ fd_table' = [fd_table EXCEPT ![arg[t]] = clear_fd_table_entry(fd_table[arg[t]])]
    BY <1>17 DEF CloseClear, app
  <2>2. arg[t] \in Fds /\ Owns(t, arg[t])
    BY <1>c, <2>1 DEF FrameOK, ArgLabels, CloseLabels, Owns, Closes
  <2>3. \A g \in TableFds : g # arg[t] => fd_table'[g] = fd_table[g]
    BY <1>0, <2>1
  <2>4. QED
    BY <1>0, <2>1, <2>2, <2>3, OwnedRespects, NothingFoundOn DEF CloseLabels
<1>18. CASE CloseSysClose(t)
  <2>1. /\ pc[t] = "sysclose" /\ Return(t) /\ UNCHANGED fd_table /\ UNCHANGED origin
        /\ \/ kernel' = kernel
           \/ kernel' = [kernel EXCEPT ![arg[t]] = "closed"]
    BY <1>18 DEF CloseSysClose, lib, app
  <2>2. arg[t] \in Fds /\ Owns(t, arg[t])
    BY <1>c, <2>1 DEF FrameOK, CloseLabels, Owns, Closes
  <2>3. \A g \in Fds : g # arg[t] => kernel'[g] = kernel[g]
    BY <1>0, <2>1
  <2>4. QED
    BY <1>0, <2>1, <2>2, <2>3, OwnedRespects, NothingFound DEF Return
<1>19. QED
  BY <1>1, <1>2, <1>3, <1>4, <1>5, <1>6, <1>7, <1>8, <1>9, <1>10, <1>11, <1>12, <1>13, <1>14,
     <1>15, <1>16, <1>17, <1>18 DEF BlockingStep

-----------------------------------------------------------------------------
(* The theorems *)

LEMMA ServedInit == Init => ServedInv
BY FdTableAssumption, ConnPoolAssumption
   DEF Init, ServedInv, FdServed, ThreadServed, AcceptLabels, NewLabels

LEMMA ServedInvariant ==
  ASSUME BlockingApp
  PROVE  Spec => [](BlockingInv /\ ServedInv)
<1>1. BlockingInv /\ ServedInv /\ [Next]_vars => ServedInv'
  <2> SUFFICES ASSUME BlockingInv, ServedInv, [Next]_vars PROVE ServedInv'
    OBVIOUS
  <2>1. TypeInv /\ OwnInv /\ OwnersOpen /\ OneOwner /\ Blocking
    BY DEF BlockingInv, OwnInv
  <2>2. CASE UNCHANGED vars
    <3>1. UNCHANGED <<kernel, origin, fd_table, pc, call, arg, new>>
      BY <2>2 DEF vars, lib, app, cpu
    <3>2. QED
      BY <3>1 DEF ServedInv, FdServed, ThreadServed, Sockets, Held, Served, Desocked, DESOCK_FD
  <2>3. ASSUME NEW t \in Threads, AppCall(t) \/ LibStep(t) PROVE ServedInv'
    <3>1. BlockingStep(t)
      BY <2>1, <2>3, OnlyBlockingSteps
    <3>2. Respects(t) /\ FdServed' /\ ThreadServed(t)'
      BY <2>1, <3>1, ServedStep
    <3>3. Moves(t)
      BY <2>3, EveryStepMoves
    <3>4. \A u \in Threads \ {t} : ThreadServed(u)'
      BY <2>1, <3>2, <3>3, OthersServed
    <3>5. QED
      BY <3>2, <3>4 DEF ServedInv
  <2>4. QED
    BY <2>2, <2>3 DEF Next
<1>2. QED
  BY <1>1, ServedInit, BlockingInvariant, PTL DEF Spec

\* What accept returned is a socket of the kernel, desocketed and not taken for a
\* listener, until it is closed, however the threads interleave
\* (src/accept.c:21-38, src/close.c:14-30).
THEOREM AcceptedIsServed ==
  ASSUME BlockingApp
  PROVE  Spec => []ConnIsServed
<1>1. ServedInv => ConnIsServed
  BY DEF ServedInv, FdServed, ConnIsServed, Conns, Served, Desocked
<1>2. QED
  BY <1>1, ServedInvariant, PTL

\* fill_sockaddr, in accept after its wait and in the calls that ask for an address, is
\* given a descriptor with a domain it knows (src/accept.c:30-32, src/stub_sockaddr.c:51).
THEOREM FillIsGivenInet ==
  ASSUME BlockingApp
  PROVE  Spec => []FillSeesInet
<1>1. ServedInv /\ DesockedIsInet => FillSeesInet
  BY DEF ServedInv, ThreadServed, AcceptLabels, DesockedIsInet, FillSeesInet, Desocked, DESOCK_FD,
         VALID_FD
<1>2. QED
  BY <1>1, ServedInvariant, DesockedInet, PTL

-----------------------------------------------------------------------------
(* If there are descriptors enough, accept always gets one, and no token is   *)
(* ever lost.                                                                 *)

Closers == {t \in Threads : "close" \in Calls[t]}

\* stdin, stdout, stderr, the application's sockets and files, the connections, and
\* descriptors that a thread is still closing
EnoughDescriptors ==
  \A n \in {FD_TABLE_SIZE, NOFILE} : 3 + MaxSockets + MAX_CONNS + Cardinality(Closers) <= n

\* what socket() and open() made, or are making
Made ==
  {f \in Fds : \/ origin[f] \in {"socket", "listener", "file"}
               \/ \E t \in Threads : call[t] = "socket" /\ Creates(t, f)}

\* Every open descriptor is accounted for.
Accounted ==
  /\ \A f \in Fds : kernel[f] # "closed" =>
       f <= 2 \/ f \in Held \/ \E t \in Threads : Owns(t, f)
  /\ Cardinality(Made) <= opened /\ opened <= MaxSockets
  /\ \A t \in Threads : pc[t] \in CloseLabels => t \in Closers

LEMMA MadeFinite == IsFiniteSet(Made) /\ Cardinality(Made) \in Nat
<1>1. IsFiniteSet(Made)
  BY FdsFinite, FS_Subset DEF Made
<1>2. QED
  BY <1>1, FS_CardinalityType

\* A set is at least as large as what a function makes of it.
LEMMA ImageCardinality ==
  ASSUME NEW S, IsFiniteSet(S), NEW g, DOMAIN g = S
  PROVE  /\ IsFiniteSet({g[x] : x \in S})
         /\ Cardinality({g[x] : x \in S}) <= Cardinality(S)
<1> DEFINE h == [x \in S |-> g[x]]
           T == {g[x] : x \in S}
<1>1. h \in Surjection(S, T)
  BY DEF Surjection
<1>2. QED
  BY <1>1, FS_Surjection

\* Two finite sets together.
LEMMA UnionBound ==
  ASSUME NEW S, IsFiniteSet(S), NEW T, IsFiniteSet(T)
  PROVE  /\ IsFiniteSet(S \cup T)
         /\ Cardinality(S \cup T) \in Nat
         /\ Cardinality(S \cup T) <= Cardinality(S) + Cardinality(T)
<1>1. /\ IsFiniteSet(S \cup T)
      /\ Cardinality(S \cup T) = Cardinality(S) + Cardinality(T) - Cardinality(S \cap T)
  BY FS_Union
<1>2. IsFiniteSet(S \cap T)
  BY FS_Intersection
<1>3. /\ Cardinality(S) \in Nat /\ Cardinality(T) \in Nat
      /\ Cardinality(S \cap T) \in Nat /\ Cardinality(S \cup T) \in Nat
  BY <1>1, <1>2, FS_CardinalityType
<1>4. QED
  BY <1>1, <1>3

\* There are n descriptors below n.
LEMMA BelowCardinality ==
  ASSUME NEW n \in Nat
  PROVE  IsFiniteSet(0 .. n - 1) /\ Cardinality(0 .. n - 1) = n
<1>1. n - 1 \in Int
  OBVIOUS
<1>2. /\ IsFiniteSet(0 .. n - 1)
      /\ Cardinality(0 .. n - 1) = IF 0 > n - 1 THEN 0 ELSE (n - 1) - 0 + 1
  BY <1>1, FS_Interval
<1>3. QED
  BY <1>2

\* A set of numbers that is not empty has a least element.
LEMMA LeastOf ==
  ASSUME NEW T, T \subseteq Nat, T # {}
  PROVE  \E x \in T : \A y \in T : x <= y
<1> DEFINE Below == {ss \in Nat \X Nat : ss[1] < ss[2]}
<1>1. IsWellFoundedOn(Below, Nat)
  BY NatLessThanWellFounded DEF OpToRel
<1>2. PICK x \in T : \A y \in T : ~(<<y, x>> \in Below)
  <2> HIDE DEF Below
  <2>1. QED
    BY <1>1, WFMin
<1>3. ASSUME NEW y \in T PROVE x <= y
  <2>1. x \in Nat /\ y \in Nat /\ <<y, x>> \in Nat \X Nat
    OBVIOUS
  <2>2. ~(y < x)
    BY <1>2, <2>1
  <2>3. QED
    BY <2>1, <2>2
<1>4. QED
  BY <1>3

\* Sockets, connections and the descriptors threads are at work on are too few to use
\* up the table or the kernel's descriptors.
LEMMA OpenBound ==
  ASSUME EnoughDescriptors,
         NEW Socks, IsFiniteSet(Socks), Cardinality(Socks) <= MaxSockets,
         NEW Busy, IsFiniteSet(Busy),
         Cardinality(Conns) + Cardinality(Busy) < MAX_CONNS + Cardinality(Closers),
         {f \in Fds : kernel[f] # "closed"} \subseteq 0 .. 2 \cup (Socks \cup (Conns \cup Busy)),
         NEW n \in {FD_TABLE_SIZE, NOFILE}
  PROVE  /\ IsFiniteSet({f \in Fds : kernel[f] # "closed"})
         /\ Cardinality({f \in Fds : kernel[f] # "closed"}) < n
<1> DEFINE Open == {f \in Fds : kernel[f] # "closed"}
           Std  == 0 .. 2
<1>1. Open \subseteq Std \cup (Socks \cup (Conns \cup Busy))
  OBVIOUS
<1> HIDE DEF Open, Std
<1>2. IsFiniteSet(Conns) /\ Cardinality(Conns) \in Nat
  BY HoldersCount DEF HoldersAdd
<1>3. Cardinality(Socks) \in Nat /\ Cardinality(Busy) \in Nat
  BY FS_CardinalityType
<1>4. IsFiniteSet(Closers) /\ Cardinality(Closers) \in Nat
  <2>1. IsFiniteSet(Closers)
    BY ConnPoolAssumption, FS_Subset DEF Closers
  <2>2. QED
    BY <2>1, FS_CardinalityType
<1>5. IsFiniteSet(Std) /\ Cardinality(Std) = 3
  <2>1. IsFiniteSet(0 .. 3 - 1) /\ Cardinality(0 .. 3 - 1) = 3
    BY BelowCardinality
  <2>2. 0 .. 3 - 1 = 0 .. 2
    OBVIOUS
  <2>3. QED
    BY <2>1, <2>2 DEF Std
<1>6. /\ IsFiniteSet(Conns \cup Busy) /\ Cardinality(Conns \cup Busy) \in Nat
      /\ Cardinality(Conns \cup Busy) <= Cardinality(Conns) + Cardinality(Busy)
  BY <1>2, UnionBound
<1>7. /\ IsFiniteSet(Socks \cup (Conns \cup Busy))
       /\ Cardinality(Socks \cup (Conns \cup Busy)) \in Nat
       /\ Cardinality(Socks \cup (Conns \cup Busy))
            <= Cardinality(Socks) + Cardinality(Conns \cup Busy)
  BY <1>6, UnionBound
<1>8. /\ IsFiniteSet(Std \cup (Socks \cup (Conns \cup Busy)))
       /\ Cardinality(Std \cup (Socks \cup (Conns \cup Busy))) \in Nat
       /\ Cardinality(Std \cup (Socks \cup (Conns \cup Busy)))
            <= 3 + Cardinality(Socks \cup (Conns \cup Busy))
  BY <1>5, <1>7, UnionBound
<1>9. /\ IsFiniteSet(Open)
       /\ Cardinality(Open) <= Cardinality(Std \cup (Socks \cup (Conns \cup Busy)))
  BY <1>1, <1>8, FS_Subset
<1>10. Cardinality(Open) \in Nat
  BY <1>9, FS_CardinalityType
<1>11. 3 + MaxSockets + MAX_CONNS + Cardinality(Closers) <= n /\ n \in Nat
  BY FdTableAssumption DEF EnoughDescriptors
<1>12. Cardinality(Open) < n
  BY <1>2, <1>3, <1>4, <1>6, <1>7, <1>8, <1>9, <1>10, <1>11, ConnPoolAssumption
<1>13. QED
  BY <1>9, <1>12 DEF Open

\* If fewer descriptors are open than either limit, the lowest free one has an entry.
LEMMA LowestHasEntry ==
  ASSUME \A n \in {FD_TABLE_SIZE, NOFILE} :
           /\ IsFiniteSet({f \in Fds : kernel[f] # "closed"})
           /\ Cardinality({f \in Fds : kernel[f] # "closed"}) < n
  PROVE  \E f \in Fds : LowestFree = {f} /\ VALID_FD(f)
<1>1. PICK n \in {FD_TABLE_SIZE, NOFILE} : n <= FD_TABLE_SIZE /\ n <= NOFILE
  BY FdTableAssumption
<1> DEFINE Open   == {f \in Fds : kernel[f] # "closed"}
           Closed == {f \in Fds : kernel[f] = "closed"}
<1>2. \E f \in Closed : f < n
  <2>1. IsFiniteSet(0 .. n - 1) /\ Cardinality(0 .. n - 1) = n /\ n \in Nat
    BY <1>1, FdTableAssumption, BelowCardinality
  <2>2. 0 .. n - 1 \subseteq Fds
    BY <1>1, FdTableAssumption DEF Fds
  <2>3. CASE 0 .. n - 1 \subseteq Open
    <3>1. Cardinality(0 .. n - 1) <= Cardinality(Open)
      BY <2>3, FS_Subset
    <3>2. Cardinality(Open) \in Nat /\ Cardinality(Open) < n
      BY FS_CardinalityType
    <3>3. QED
      BY <2>1, <3>1, <3>2
  <2>4. CASE ~(0 .. n - 1 \subseteq Open)
    BY <2>1, <2>2, <2>4
  <2>5. QED
    BY <2>3, <2>4
<1>3. Closed \subseteq Nat
  BY FdTableAssumption DEF Fds
<1>4. PICK f \in Closed : \A g \in Closed : f <= g
  BY <1>2, <1>3, LeastOf
<1>5. f \in Nat /\ f < FD_TABLE_SIZE
  BY <1>1, <1>2, <1>3, <1>4, FdTableAssumption
<1>6. f \in LowestFree /\ VALID_FD(f)
  BY <1>3, <1>4, <1>5, FdTableAssumption DEF LowestFree, VALID_FD, TableFds, Fds
<1>7. LowestFree = {f}
  BY <1>4, <1>6, FdTableAssumption DEF LowestFree, Fds
<1>8. QED
  BY <1>3, <1>6, <1>7

\* While an accept is about to make its descriptor, fewer are open than either limit.
LEMMA FewOpen ==
  ASSUME BlockingApp, EnoughDescriptors, TypeInv, Blocking, TokensBounded, Accounted,
         NEW t \in Threads, pc[t] = "dup", NEW n \in {FD_TABLE_SIZE, NOFILE}
  PROVE  /\ IsFiniteSet({f \in Fds : kernel[f] # "closed"})
         /\ Cardinality({f \in Fds : kernel[f] # "closed"}) < n
<1> DEFINE Open   == {f \in Fds : kernel[f] # "closed"}
           Others == (Owing \ {t}) \cup Closers
           at     == [u \in Others |-> IF pc[u] \in CloseLabels THEN arg[u] ELSE new[u]]
           Busy   == {at[u] : u \in Others}
<1>1. /\ IsFiniteSet(Conns) /\ Cardinality(Conns) \in Nat
      /\ IsFiniteSet(Owing) /\ Cardinality(Owing) \in Nat
      /\ Cardinality(Holders) = Cardinality(Conns) + Cardinality(Owing)
  BY HoldersCount DEF HoldersAdd
<1>2. Owing = {u \in Threads : OwesAt(pc[u], call[u])} /\ t \in Owing
  BY OwingIs DEF OwingChar, Blocking, OwesAt
<1>3. IsFiniteSet(Owing \ {t}) /\ Cardinality(Owing \ {t}) = Cardinality(Owing) - 1
  BY <1>1, <1>2, FS_RemoveElement
<1>4. IsFiniteSet(Closers) /\ Cardinality(Closers) \in Nat
  <2>1. IsFiniteSet(Closers)
    BY ConnPoolAssumption, FS_Subset DEF Closers
  <2>2. QED
    BY <2>1, FS_CardinalityType
<1>5. /\ IsFiniteSet(Others) /\ Cardinality(Others) \in Nat
      /\ Cardinality(Others) <= Cardinality(Owing) - 1 + Cardinality(Closers)
  BY <1>3, <1>4, UnionBound
<1>6. /\ IsFiniteSet(Busy) /\ Cardinality(Busy) \in Nat
      /\ Cardinality(Busy) <= Cardinality(Owing) - 1 + Cardinality(Closers)
  <2>1. DOMAIN at = Others
    OBVIOUS
  <2>2. IsFiniteSet(Busy) /\ Cardinality(Busy) <= Cardinality(Others)
    <3> HIDE DEF Others, at
    <3>1. QED
      BY <1>5, <2>1, ImageCardinality
  <2>3. Cardinality(Busy) \in Nat
    <3> HIDE DEF Busy
    <3>1. QED
      BY <2>2, FS_CardinalityType
  <2>4. QED
    BY <1>1, <1>4, <1>5, <2>2, <2>3
<1>7. Open \subseteq 0 .. 2 \cup (Made \cup (Conns \cup Busy))
  <2> SUFFICES ASSUME NEW f \in Open PROVE f \in 0 .. 2 \cup (Made \cup (Conns \cup Busy))
    OBVIOUS
  <2>1. f \in Fds /\ kernel[f] # "closed"
    OBVIOUS
  <2>2. CASE f <= 2
    BY <2>1, <2>2 DEF Fds
  <2>3. CASE f \in Held
    BY <2>1, <2>3 DEF TypeInv, WorldOK, Origins, Held, Blocking, Made, Conns
  <2>4. ASSUME NEW u \in Threads, Closes(u, f) PROVE f \in Busy
    <3>1. u \in Closers /\ pc[u] \in CloseLabels /\ f = arg[u]
      BY <2>4 DEF Accounted, Closes
    <3>2. u \in Others /\ at[u] = f
      BY <3>1
    <3>3. QED
      BY <3>2
  <2>5. ASSUME NEW u \in Threads, Creates(u, f) PROVE f \in Made \cup Busy
    <3>1. CASE call[u] = "socket"
      BY <2>1, <2>5, <3>1 DEF Made
    <3>2. CASE call[u] # "socket"
      <4>1. u \in Owing /\ u # t
        BY <1>2, <2>5, <3>2 DEF Blocking, Plain, Inside, Creates, NewLabels, OwesAt, AcceptLabels,
                                CloseLabels
      <4>2. pc[u] \notin CloseLabels /\ f = new[u]
        BY <2>5 DEF Creates, NewLabels, CloseLabels
      <4>3. u \in Others /\ at[u] = f
        BY <4>1, <4>2
      <4>4. QED
        BY <4>3
    <3>3. QED
      BY <3>1, <3>2
  <2>6. QED
    BY <2>1, <2>2, <2>3, <2>4, <2>5 DEF Accounted, Owns
<1>8. Cardinality(Made) <= MaxSockets
  BY MadeFinite, ConnPoolAssumption DEF Accounted, TypeInv, WorldOK
<1>9. Cardinality(Conns) + Cardinality(Busy) < MAX_CONNS + Cardinality(Closers)
  <2>1. Cardinality(Conns) + Cardinality(Owing) <= MAX_CONNS
    BY <1>1, ConnPoolAssumption DEF TokensBounded, TypeInv, WorldOK
  <2> HIDE DEF Busy
  <2>2. QED
    BY <1>1, <1>4, <1>6, <2>1, ConnPoolAssumption
<1>10. QED
  <2> HIDE DEF Busy
  <2>1. QED
    BY <1>6, <1>7, <1>8, <1>9, MadeFinite, OpenBound

\* So accept gets a descriptor, and one with an entry.
LEMMA DupSucceeds ==
  ASSUME BlockingApp, EnoughDescriptors, BlockingInv, ServedInv, Accounted, NEW t \in Threads
  PROVE  ~AcceptDupFails(t)
<1> SUFFICES ASSUME pc[t] = "dup" PROVE ~AcceptDupFails(t)
  BY DEF AcceptDupFails
<1>0. TypeInv /\ Blocking /\ TokensBounded
  BY DEF BlockingInv
<1>1. kernel[arg[t]] # "closed"
  BY DEF ServedInv, FdServed, ThreadServed, AcceptLabels, Sockets
<1>2. \A n \in {FD_TABLE_SIZE, NOFILE} :
        /\ IsFiniteSet({f \in Fds : kernel[f] # "closed"})
        /\ Cardinality({f \in Fds : kernel[f] # "closed"}) < n
  BY <1>0, FewOpen
<1>3. \E f \in Fds : LowestFree = {f} /\ VALID_FD(f)
  BY <1>2, LowestHasEntry
<1>4. QED
  BY <1>1, <1>3 DEF AcceptDupFails

\* What a step of t must do to keep account of the open descriptors.
Accounts(t) ==
  /\ \A f \in Fds : kernel'[f] # "closed" =>
       kernel[f] # "closed" \/ origin'[f] # "none" \/ Owns(t, f)'
  /\ \A f \in Fds : origin[f] # "none" => origin'[f] # "none" \/ Owns(t, f)'
  /\ \A f \in Fds : Owns(t, f) =>
       Owns(t, f)' \/ origin'[f] # "none" \/ f <= 2 \/ kernel'[f] = "closed"
  /\ \/ Made' \subseteq Made /\ opened' = opened
     \/ /\ opened < MaxSockets /\ opened' = opened + 1
        /\ \E f \in Fds : Made' \subseteq Made \cup {f}
  /\ pc'[t] \in CloseLabels => t \in Closers

LEMMA AccountedKept ==
  ASSUME TypeInv, Accounted, NEW t \in Threads, OthersStay(t), Accounts(t)
  PROVE  Accounted'
<1>1. \A f \in Fds : kernel'[f] # "closed" =>
        f <= 2 \/ f \in Held' \/ \E u \in Threads : Owns(u, f)'
  BY DEF Accounted, Accounts, OthersStay, Held
<1>2. \A u \in Threads : pc'[u] \in CloseLabels => u \in Closers
  BY DEF Accounted, Accounts, OthersStay
<1>3. Cardinality(Made') <= opened' /\ opened' <= MaxSockets
  <2>1. opened \in Nat /\ MaxSockets \in Nat
    BY ConnPoolAssumption DEF TypeInv, WorldOK
  <2>2. IsFiniteSet(Made) /\ Cardinality(Made) \in Nat /\ Cardinality(Made) <= opened
    BY MadeFinite DEF Accounted
  <2>3. CASE Made' \subseteq Made /\ opened' = opened
    <3>1. Cardinality(Made') <= Cardinality(Made) /\ IsFiniteSet(Made')
      BY <2>2, <2>3, FS_Subset
    <3>2. Cardinality(Made') \in Nat
      BY <3>1, FS_CardinalityType
    <3>3. QED
      BY <2>1, <2>2, <2>3, <3>1, <3>2 DEF Accounted
  <2>4. ASSUME opened < MaxSockets, opened' = opened + 1,
               NEW f \in Fds, Made' \subseteq Made \cup {f}
        PROVE  Cardinality(Made') <= opened' /\ opened' <= MaxSockets
    <3>1. /\ IsFiniteSet(Made \cup {f})
          /\ Cardinality(Made \cup {f}) <= Cardinality(Made) + 1
          /\ Cardinality(Made \cup {f}) \in Nat
      <4>1. IsFiniteSet({f}) /\ Cardinality({f}) = 1
        BY FS_Singleton
      <4>2. QED
        BY <2>2, <4>1, UnionBound
    <3>2. Cardinality(Made') <= Cardinality(Made \cup {f}) /\ IsFiniteSet(Made')
      BY <2>4, <3>1, FS_Subset
    <3>3. Cardinality(Made') \in Nat
      BY <3>2, FS_CardinalityType
    <3>4. QED
      BY <2>1, <2>2, <2>4, <3>1, <3>2, <3>3
  <2>5. QED
    BY <2>3, <2>4 DEF Accounts
<1>4. QED
  BY <1>1, <1>2, <1>3 DEF Accounted

LEMMA AccountedStep ==
  ASSUME BlockingApp, TypeInv, OwnInv, Blocking, Blocking', Accounted, NEW t \in Threads,
         OthersStay(t), BlockingStep(t), ~AcceptDupFails(t)
  PROVE  Accounts(t)
<1>0. /\ kernel \in [Fds -> {"closed", "file", "sock"}]
      /\ origin \in [Fds -> Origins]
      /\ CpuOK /\ OwnersOpen /\ opened \in Nat
      /\ Inside(pc[t], call[t]) /\ call[t] # "dup"
  BY DEF TypeInv, WorldOK, OwnInv, Blocking, Plain
<1>c. pc[t] \in CloseLabels => t \in Closers
  BY DEF Accounted
\* what the other threads make stays as it was
<1>m. ASSUME NEW f \in Fds, NEW u \in Threads \ {t},
             (call[u] = "socket" /\ Creates(u, f))'
      PROVE  f \in Made
  <2>1. ASSUME Moves(t) PROVE call'[u] = call[u] /\ (Creates(u, f)' <=> Creates(u, f))
    BY <1>0, <2>1 DEF CpuOK, Moves, Enter, Goto, cpu, Creates
  <2>2. Moves(t)
    BY EveryStepMoves DEF BlockingStep, AppCall, LibStep
  <2>3. QED
    BY <1>m, <2>1, <2>2 DEF Made
\* Made after a step that hands nothing over but a connection, or takes something back
<1>k. ASSUME \A f \in Fds : origin'[f] \in {"socket", "listener", "file"} => f \in Made,
             \A f \in Fds : (call[t] = "socket" /\ Creates(t, f))' => f \in Made
      PROVE  Made' \subseteq Made
  <2> SUFFICES ASSUME NEW f \in Made' PROVE f \in Made
    OBVIOUS
  <2>1. /\ f \in Fds
        /\ \/ origin'[f] \in {"socket", "listener", "file"}
           \/ \E u \in Threads : (call[u] = "socket" /\ Creates(u, f))'
    BY DEF Made
  <2>2. QED
    BY <1>k, <1>m, <2>1
<1>a. ASSUME NEW g \in Fds,
             \A f \in Fds : origin'[f] \in {"socket", "listener", "file"} => f = g \/ f \in Made,
             \A f \in Fds : (call[t] = "socket" /\ Creates(t, f))' => f = g \/ f \in Made
      PROVE  Made' \subseteq Made \cup {g}
  <2> SUFFICES ASSUME NEW f \in Made' PROVE f \in Made \cup {g}
    OBVIOUS
  <2>1. /\ f \in Fds
        /\ \/ origin'[f] \in {"socket", "listener", "file"}
           \/ \E u \in Threads : (call[u] = "socket" /\ Creates(u, f))'
    BY DEF Made
  <2>2. QED
    BY <1>a, <1>m, <2>1
<1>d. \A f \in Fds : origin[f] \in {"socket", "listener", "file"} => f \in Made
  BY DEF Made
<1>i. ASSUME pc[t] = "idle"
      PROVE  /\ \A f \in Fds : ~Owns(t, f)
             /\ UNCHANGED cpu => /\ \A f \in Fds : ~Creates(t, f)'
                                 /\ pc'[t] \notin CloseLabels
  BY <1>i DEF Owns, Creates, Closes, NewLabels, CloseLabels, cpu
<1>e. ASSUME NEW fn, NEW f, NEW g, NEW l, Enter(t, fn, f, g, l)
      PROVE  /\ pc'[t] = l /\ call'[t] = fn /\ arg'[t] = f /\ new'[t] = g
             /\ \A h : Creates(t, h)' <=> l \in NewLabels /\ h = g
             /\ \A h : Owns(t, h)' <=> (l \in NewLabels /\ h = g) \/ (l \in CloseLabels /\ h = f)
  BY <1>0, <1>e DEF CpuOK, Enter, Creates, Closes, Owns
<1>g. ASSUME NEW l, Goto(t, l)
      PROVE  /\ pc'[t] = l /\ UNCHANGED <<call, arg, new>>
             /\ \A h : Creates(t, h)' <=> l \in NewLabels /\ h = new[t]
             /\ \A h : Owns(t, h)' <=> \/ l \in NewLabels /\ h = new[t]
                                       \/ l \in CloseLabels /\ h = arg[t]
  BY <1>0, <1>g DEF CpuOK, Goto, Creates, Closes, Owns
<1>1. CASE OpenCall(t)
  <2>1. PICK f \in Fds : kernel' = [kernel EXCEPT ![f] = "file"] /\ HandOver(f, "file")
    BY <1>1 DEF OpenCall, LowestFree
  <2>2. /\ pc[t] = "idle" /\ UNCHANGED cpu /\ opened < MaxSockets /\ opened' = opened + 1
        /\ \A g \in Fds : /\ kernel'[g] = IF g = f THEN "file" ELSE kernel[g]
                          /\ origin'[g] = IF g = f THEN "file" ELSE origin[g]
    BY <1>0, <1>1, <2>1 DEF OpenCall, MayCall, HandOver
  <2>3. Made' \subseteq Made \cup {f}
    BY <1>a, <1>d, <1>i, <2>2
  <2>4. QED
    BY <1>i, <2>2, <2>3 DEF Accounts
<1>2. CASE SocketCall(t)
  <2>1. PICK f \in Fds : /\ kernel' = [kernel EXCEPT ![f] = "sock"]
                         /\ \/ UNCHANGED origin /\ Enter(t, "socket", NoFd, f, "check_max")
                            \/ HandOver(f, "socket") /\ UNCHANGED cpu
    BY <1>2 DEF SocketCall, LowestFree
  <2>2. /\ pc[t] = "idle" /\ opened < MaxSockets /\ opened' = opened + 1
        /\ \A g \in Fds : kernel'[g] = IF g = f THEN "sock" ELSE kernel[g]
    BY <1>0, <1>2, <2>1 DEF SocketCall, MayCall
  <2>3. CASE HandOver(f, "socket") /\ UNCHANGED cpu
    <3>1. \A g \in Fds : origin'[g] = IF g = f THEN "socket" ELSE origin[g]
      BY <1>0, <2>3 DEF HandOver
    <3>2. Made' \subseteq Made \cup {f}
      BY <1>a, <1>d, <1>i, <2>2, <2>3, <3>1
    <3>3. QED
      BY <1>i, <2>2, <2>3, <3>1, <3>2 DEF Accounts
  <2>4. CASE UNCHANGED origin /\ Enter(t, "socket", NoFd, f, "check_max")
    <3>1. /\ pc'[t] = "check_max"
          /\ \A h \in Fds : (Creates(t, h)' <=> h = f) /\ (Owns(t, h)' <=> h = f)
      BY <1>e, <2>4 DEF NewLabels, CloseLabels
    <3>2. Made' \subseteq Made \cup {f}
      BY <1>a, <1>d, <2>4, <3>1
    <3>3. QED
      BY <1>i, <2>2, <2>4, <3>1, <3>2 DEF Accounts, CloseLabels
  <2>5. QED
    BY <2>1, <2>3, <2>4
<1>3. CASE BindCall(t) \/ ConnectCall(t) \/ ListenCall(t)
  <2>1. pc[t] = "idle" /\ UNCHANGED cpu /\ UNCHANGED kernel /\ UNCHANGED opened
    BY <1>3 DEF BindCall, ConnectCall, MarkDesock, ListenCall, MayCall, app
  <2>2. \A f \in Fds : \/ origin'[f] = origin[f]
                       \/ origin[f] = "socket" /\ origin'[f] = "listener"
    BY <1>0, <1>3
       DEF BindCall, ConnectCall, MarkDesock, ListenCall, HandOver, HeldDesocked, Held, app
  <2>3. Made' \subseteq Made
    BY <1>d, <1>i, <1>k, <2>1, <2>2
  <2>4. QED
    BY <1>i, <2>1, <2>2, <2>3 DEF Accounts
\* a step that opens, closes and hands over nothing, and keeps what t owns
<1>q. ASSUME UNCHANGED <<kernel, origin, opened>>,
             \A f \in Fds : Owns(t, f) => Owns(t, f)',
             \A f \in Fds : (call[t] = "socket" /\ Creates(t, f))' => f \in Made,
             pc'[t] \in CloseLabels => pc[t] \in CloseLabels
      PROVE  Accounts(t)
  <2>1. Made' \subseteq Made
    BY <1>d, <1>k, <1>q
  <2>2. QED
    BY <1>c, <1>q, <2>1 DEF Accounts
<1>4. CASE AcceptCall(t) \/ GetNameCall(t)
  <2>1. UNCHANGED <<kernel, origin, opened>> /\ pc[t] = "idle"
    BY <1>4 DEF AcceptCall, GetNameCall, MayCall, app
  <2>2. pc'[t] \in {"block", "name"} /\ \A h \in Fds : ~Creates(t, h)'
    BY <1>4, <1>e DEF AcceptCall, GetNameCall, NewLabels
  <2>3. QED
    BY <1>i, <1>q, <2>1, <2>2 DEF CloseLabels
<1>5. CASE CloseCall(t)
  <2>1. PICK f \in Fds : HandOver(f, "none") /\ Enter(t, "close", f, NoFd, CloseLabel(f))
    BY <1>5 DEF CloseCall, Held
  <2>2. UNCHANGED <<kernel, opened>> /\ pc[t] = "idle" /\ t \in Closers
    BY <1>5 DEF CloseCall, MayCall, BlockingApp, Closers
  <2>3. CloseLabel(f) \in CloseLabels /\ CloseLabel(f) \notin NewLabels
    BY DEF CloseLabel, CloseLabels, NewLabels
  <2>4. /\ \A h \in Fds : Owns(t, h)' <=> h = f
        /\ \A h \in Fds : ~Creates(t, h)'
    BY <1>e, <2>1, <2>3
  <2>5. \A h \in Fds : origin'[h] = IF h = f THEN "none" ELSE origin[h]
    BY <1>0, <2>1 DEF HandOver
  <2>6. Made' \subseteq Made
    BY <1>d, <1>k, <2>4, <2>5
  <2>7. QED
    BY <1>i, <2>2, <2>4, <2>5, <2>6 DEF Accounts
<1>6. CASE AcceptBlock(t) \/ SemWait(t) \/ AcceptSetBlock(t)
  <2>1. UNCHANGED <<kernel, origin, opened>> /\ pc[t] \in {"block", "sem_wait", "set_block"}
    BY <1>6 DEF AcceptBlock, SemWait, AcceptSetBlock, app
  <2>2. call[t] = "accept"
    BY <1>0, <2>1 DEF Inside, AcceptLabels, CloseLabels
  <2>3. \E l \in {"sem_wait", "set_block", "dup"} : Goto(t, l)
    BY <1>6, <2>2 DEF AcceptBlock, SemWait, AcceptSetBlock
  <2>4. pc'[t] \notin CloseLabels /\ \A h \in Fds : ~Creates(t, h)'
    BY <1>g, <2>3 DEF NewLabels, CloseLabels
  <2>5. \A h \in Fds : ~Owns(t, h)
    BY <2>1 DEF Owns, Creates, Closes, NewLabels, CloseLabels
  <2>6. QED
    BY <1>q, <2>1, <2>4, <2>5
<1>7. CASE AcceptDup(t)
  <2>1. PICK f \in Fds : /\ kernel' = [kernel EXCEPT ![f] = kernel[arg[t]]]
                         /\ Enter(t, call[t], arg[t], f, "clone")
    BY <1>7 DEF AcceptDup, LowestFree
  <2>2. UNCHANGED origin /\ opened' = opened /\ pc[t] = "dup"
    BY <1>7 DEF AcceptDup, app
  <2>3. \A g \in Fds : g # f => kernel'[g] = kernel[g]
    BY <1>0, <2>1
  <2>4. /\ pc'[t] = "clone" /\ call'[t] = "accept"
        /\ \A h \in Fds : Owns(t, h)' <=> h = f
    BY <1>0, <1>e, <2>1, <2>2 DEF Inside, AcceptLabels, CloseLabels, NewLabels
  <2>5. Made' \subseteq Made
    BY <1>d, <1>k, <2>2, <2>4
  <2>6. \A h \in Fds : ~Owns(t, h)
    BY <2>2 DEF Owns, Creates, Closes, NewLabels, CloseLabels
  <2>7. QED
    BY <2>2, <2>3, <2>4, <2>5, <2>6 DEF Accounts, CloseLabels
\* going on among the labels where something is made, or given back
<1>n. ASSUME UNCHANGED <<kernel, origin, opened>>, NEW l, Goto(t, l),
             \/ pc[t] \in NewLabels /\ l \in NewLabels
             \/ pc[t] \in CloseLabels /\ l \in CloseLabels
      PROVE  Accounts(t)
  <2>1. \A h \in Fds : /\ Owns(t, h) => Owns(t, h)'
                       /\ (call[t] = "socket" /\ Creates(t, h))' => h \in Made
    BY <1>g, <1>n DEF Owns, Creates, Closes, NewLabels, CloseLabels, Made
  <2>2. QED
    BY <1>g, <1>n, <1>q, <2>1 DEF NewLabels, CloseLabels
<1>8. CASE AcceptClone(t) \/ AcceptUnlisten(t)
  BY <1>8, <1>n DEF AcceptClone, AcceptUnlisten, NewLabels, app
<1>9. CASE FillSockaddr(t)
  <2>1. UNCHANGED <<kernel, origin, opened>>
    BY <1>9 DEF FillSockaddr, app
  <2>2. CASE pc[t] = "fill" /\ Goto(t, "check_max")
    BY <1>n, <2>1, <2>2 DEF NewLabels
  <2>3. CASE pc[t] = "name" /\ Return(t)
    <3>1. pc'[t] = "idle" /\ \A h \in Fds : ~Creates(t, h)' /\ ~Owns(t, h)
      BY <1>e, <2>3 DEF Return, NewLabels, CloseLabels, Owns, Creates, Closes
    <3>2. QED
      BY <1>q, <2>1, <3>1 DEF CloseLabels
  <2>4. QED
    BY <1>9, <2>2, <2>3 DEF FillSockaddr
<1>f. ASSUME pc[t] \in {"check_max", "write_max"}, Finish(t), UNCHANGED <<kernel, opened>>
      PROVE  Accounts(t)
  <2>1. new[t] \in Fds /\ Creates(t, new[t])
    BY <1>0, <1>f DEF CpuOK, FrameOK, NewLabels, Creates
  <2>2. call[t] \in {"accept", "socket"}
    BY <1>0, <1>f DEF Inside, AcceptLabels, CloseLabels
  <2>3. \A f \in Fds : origin'[f] = IF f # new[t] THEN origin[f]
                                    ELSE IF call[t] = "accept" THEN "conn" ELSE "socket"
    BY <1>0, <1>f, <2>2 DEF Finish, HandOver
  <2>4. pc'[t] = "idle" /\ \A h \in Fds : ~Creates(t, h)'
    BY <1>e, <1>f DEF Finish, Return, NewLabels
  <2>5. call[t] = "socket" => new[t] \in Made
    BY <2>1 DEF Made
  <2>6. Made' \subseteq Made
    BY <1>d, <1>k, <2>2, <2>3, <2>4, <2>5
  <2>7. \A h \in Fds : Owns(t, h) => h = new[t]
    BY <1>f DEF Owns, Creates, Closes, CloseLabels
  <2>8. QED
    BY <1>f, <2>3, <2>4, <2>6, <2>7 DEF Accounts, CloseLabels
<1>10. CASE CheckMax(t)
  <2>1. pc[t] = "check_max" /\ UNCHANGED <<kernel, opened>>
    BY <1>10 DEF CheckMax
  <2>2. CASE Goto(t, "write_max") /\ UNCHANGED origin
    BY <1>n, <2>1, <2>2 DEF NewLabels
  <2>3. QED
    BY <1>10, <1>f, <2>1, <2>2 DEF CheckMax
<1>11. CASE WriteMax(t)
  BY <1>11, <1>f DEF WriteMax
<1>12. CASE CloseGetValue(t) \/ ClosePost(t) \/ CloseClear(t)
  <2>1. UNCHANGED <<kernel, origin, opened>> /\ pc[t] \in CloseLabels
    BY <1>12 DEF CloseGetValue, ClosePost, CloseClear, CloseLabels, app
  <2>2. \E l \in CloseLabels : Goto(t, l)
    BY <1>12 DEF CloseGetValue, ClosePost, CloseClear, CloseLabels
  <2>3. QED
    BY <1>n, <2>1, <2>2
<1>13. CASE CloseSysClose(t)
  <2>1. /\ pc[t] = "sysclose" /\ UNCHANGED origin /\ opened' = opened
        /\ kernel' = IF arg[t] > 2 THEN [kernel EXCEPT ![arg[t]] = "closed"] ELSE kernel
        /\ Return(t)
    BY <1>13 DEF CloseSysClose, app
  <2>2. arg[t] \in Fds
    BY <1>0, <2>1 DEF CpuOK, FrameOK
  <2>3. pc'[t] = "idle" /\ \A h \in Fds : ~Creates(t, h)'
    BY <1>e, <2>1 DEF Return, NewLabels
  <2>4. \A h \in Fds : Owns(t, h) => h = arg[t]
    BY <2>1 DEF Owns, Creates, Closes, NewLabels
  <2>5. /\ \A h \in Fds : kernel'[h] # "closed" => kernel[h] # "closed"
        /\ arg[t] > 2 => kernel'[arg[t]] = "closed"
    BY <1>0, <2>1, <2>2
  <2>6. arg[t] > 2 \/ arg[t] <= 2
    BY <2>2, FdTableAssumption DEF Fds
  <2>7. Made' \subseteq Made
    BY <1>d, <1>k, <2>1, <2>3
  <2>8. QED
    BY <2>1, <2>3, <2>4, <2>5, <2>6, <2>7 DEF Accounts, CloseLabels
<1>14. QED
  BY <1>1, <1>2, <1>3, <1>4, <1>5, <1>6, <1>7, <1>8, <1>9, <1>10, <1>11, <1>12, <1>13
     DEF BlockingStep

NoLossInv == BlockingInv /\ ServedInv /\ PlainInv /\ Accounted /\ NoTokenLost

\* A thread that still owes a token leaves the semaphore below MAX_CONNS.
LEMMA OwingLeavesRoom ==
  ASSUME TypeInv, TokensBounded, NEW t \in Threads, t \in Owing
  PROVE  sem < MAX_CONNS
<1>1. /\ IsFiniteSet(Owing) /\ Cardinality(Owing) \in Nat /\ Cardinality(Conns) \in Nat
      /\ Cardinality(Holders) = Cardinality(Conns) + Cardinality(Owing)
  BY HoldersCount DEF HoldersAdd
<1>2. Cardinality(Owing) # 0
  BY <1>1, FS_EmptySet
<1>3. QED
  BY <1>1, <1>2, ConnPoolAssumption DEF TokensBounded, TypeInv, WorldOK

\* In such an application no step is one of those that lose a token.
LEMMA NoStepIsLossy ==
  ASSUME BlockingApp, EnoughDescriptors, NoLossInv, NEW t \in Threads
  PROVE  ~Lossy(t)
<1>0. BlockingInv /\ ServedInv /\ Accounted /\ TypeInv /\ TokensBounded /\ Blocking
  BY DEF NoLossInv, BlockingInv
<1>1. ~AcceptDupFails(t)
  BY <1>0, DupSucceeds
<1>2. ~Dup2Call(t)
  BY DEF BlockingApp, Dup2Call, MayCall
<1>3. ~(CloseGetValue(t) /\ sem >= MAX_CONNS)
  <2>1. CloseGetValue(t) => t \in Owing
    BY <1>0, OwingIs DEF OwingChar, Blocking, CloseGetValue, OwesAt
  <2>2. t \in Owing => sem < MAX_CONNS
    BY <1>0, OwingLeavesRoom
  <2>3. QED
    BY <1>0, <2>1, <2>2, ConnPoolAssumption DEF TypeInv, WorldOK
<1>4. Conns \subseteq HeldDesocked
  BY <1>0 DEF ServedInv, FdServed, Served, Desocked, Conns, HeldDesocked, Held
<1>5. QED
  BY <1>1, <1>2, <1>3, <1>4 DEF Lossy

LEMMA NoLossInvariant ==
  ASSUME BlockingApp, EnoughDescriptors
  PROVE  Spec => []NoLossInv
<1>1. Init => Accounted /\ NoTokenLost
  <2> SUFFICES ASSUME Init PROVE Accounted /\ NoTokenLost
    OBVIOUS
  <2>1. Made = {} /\ Cardinality(Made) = 0
    <3>1. Made = {}
      BY DEF Init, Made, Creates, NewLabels
    <3>2. QED
      BY <3>1, FS_EmptySet
  <2>2. Accounted
    BY <2>1, FdTableAssumption, ConnPoolAssumption DEF Init, Accounted, CloseLabels, Fds
  <2>3. NoTokenLost
    BY HoldersCount, ConnPoolAssumption DEF Init, HoldersAdd, NoTokenLost
  <2>4. QED
    BY <2>2, <2>3
<1>2. /\ BlockingInv /\ ServedInv /\ PlainInv /\ BlockingInv' /\ ServedInv' /\ PlainInv'
      /\ Accounted /\ NoTokenLost /\ [Next]_vars
      => Accounted' /\ NoTokenLost'
  <2> SUFFICES ASSUME BlockingInv, ServedInv, PlainInv, BlockingInv', ServedInv', PlainInv',
                      Accounted, NoTokenLost, [Next]_vars
               PROVE  Accounted' /\ NoTokenLost'
    OBVIOUS
  <2>0. NoLossInv /\ TypeInv /\ TypeInv' /\ OwnInv /\ Blocking /\ Blocking'
    BY DEF NoLossInv, BlockingInv
  <2>1. CASE UNCHANGED vars
    BY <2>1 DEF vars, lib, app, cpu, Accounted, Made, Held, Owns, Creates, Closes, NoTokenLost,
                Holders, Conns, Owing, Accepting, Posting, Reserving
  <2>2. ASSUME NEW t \in Threads, AppCall(t) \/ LibStep(t) PROVE Accounted' /\ NoTokenLost'
    <3>1. ~Lossy(t) /\ ~AcceptDupFails(t)
      BY <2>0, NoStepIsLossy DEF Lossy
    <3>2. BlockingStep(t) /\ PlainStep(t) /\ OthersStay(t)
      BY <2>0, <2>2, OnlyBlockingSteps, EveryStepMoves, OthersStayPut DEF BlockingStep, PlainStep
    <3>3. Accounted'
      BY <2>0, <3>1, <3>2, AccountedStep, AccountedKept
    <3>4. TokenKeep(t)
      BY <2>0, <3>1, <3>2, KeepStep DEF PlainInv
    <3>5. sem' + Cardinality(Holders') >= sem + Cardinality(Holders)
      BY <2>0, <3>4, KeepArithmetic
    <3>6. /\ sem \in Nat /\ sem' \in Nat /\ MAX_CONNS \in Nat
          /\ Cardinality(Holders) \in Nat /\ Cardinality(Holders') \in Nat
      <4>1. HoldersAdd /\ HoldersAdd'
        BY HoldersCount, PTL
      <4>2. QED
        BY <2>0, <4>1, ConnPoolAssumption DEF HoldersAdd, TypeInv, WorldOK
    <3>7. NoTokenLost'
      BY <3>5, <3>6 DEF NoTokenLost
    <3>8. QED
      BY <3>3, <3>7
  <2>3. QED
    BY <2>1, <2>2 DEF Next
<1>3. NoMultiplexers
  BY BlockingIsPlain
<1>4. Spec => []PlainInv
  BY <1>3, PlainInvariant
<1>5. QED
  BY <1>1, <1>2, <1>4, ServedInvariant, PTL DEF Spec, NoLossInv

\* However many threads accept and close, the pool never shrinks: what the semaphore has
\* lost is held by an open connection or a call under way, if the descriptor table and
\* the kernel have room for all the application opens (src/accept.c:17-27,
\* src/close.c:14-30).
THEOREM TokensAreKept ==
  ASSUME BlockingApp, EnoughDescriptors
  PROVE  Spec => []NoTokenLost
BY NoLossInvariant, PTL DEF NoLossInv

-----------------------------------------------------------------------------
(* Module Pool is implemented: every behaviour, seen through the connections  *)
(* the application holds and the threads inside accept, is one of Pool.       *)

Waiting == {t \in Threads : call[t] = "accept"}

\* No connection or acceptor comes or goes.
Silent == Conns' = Conns /\ Waiting' = Waiting

\* What t does to Waiting depends on the function it enters.
LEMMA WaitingMove ==
  ASSUME TypeInv, NEW t \in Threads, NEW fn, NEW f, NEW g, NEW l, Enter(t, fn, f, g, l)
  PROVE  Waiting' = IF fn = "accept" THEN Waiting \cup {t} ELSE Waiting \ {t}
<1>1. \A u \in Threads : call'[u] = IF u = t THEN fn ELSE call[u]
  BY DEF TypeInv, CpuOK, Enter
<1>2. QED
  BY <1>1 DEF Waiting

LEMMA WaitingStays ==
  ASSUME UNCHANGED call
  PROVE  Waiting' = Waiting
BY DEF Waiting

\* An accept that returns is granted its connection: the descriptor is a new one,
\* and the token the thread holds leaves room for it.
LEMMA GrantStep ==
  ASSUME BlockingInv, NEW t \in Threads, pc[t] \in {"check_max", "write_max"},
         call[t] = "accept", Finish(t), NEW f \in Fds, f = new[t]
  PROVE  Abstract!Grant(t, f)
<1>1. TypeInv /\ OwnInv /\ Blocking /\ TokensBounded
  BY DEF BlockingInv
<1>2. f \notin Conns
  BY <1>1 DEF OwnInv, OwnersOpen, Owns, Creates, NewLabels, Conns
<1>3. t \in Owing
  BY <1>1, OwingIs DEF Blocking, OwingChar, OwesAt
<1>4. Cardinality(Conns) < MAX_CONNS
  <2>1. /\ IsFiniteSet(Owing) /\ Cardinality(Conns) \in Nat /\ Cardinality(Owing) \in Nat
        /\ Cardinality(Holders) = Cardinality(Conns) + Cardinality(Owing)
    BY HoldersCount DEF HoldersAdd
  <2>2. Cardinality(Owing) # 0
    BY <1>3, <2>1, FS_EmptySet
  <2>3. QED
    BY <1>1, <2>1, <2>2, ConnPoolAssumption DEF TokensBounded, TypeInv, WorldOK
<1>5. Conns' = Conns \cup {f}
  BY <1>1, <1>2, ConnsMove DEF Finish
<1>6. Waiting' = Waiting \ {t}
  BY <1>1, WaitingMove DEF Finish, Return
<1>7. t \in Waiting
  BY DEF Waiting
<1>8. Abstract!Cardinality(Conns) = Cardinality(Conns)
  BY DEF Abstract!Cardinality, Cardinality
<1>9. QED
  BY <1>2, <1>4, <1>5, <1>6, <1>7, <1>8 DEF Abstract!Grant, Waiting

\* Every step of the application or the library is a step of the pool, or silent.
LEMMA StepRefines ==
  ASSUME BlockingInv, NEW t \in Threads, BlockingStep(t), BlockingApp
  PROVE  \/ Silent
         \/ Abstract!Request(t)
         \/ Abstract!Refuse(t)
         \/ \E f \in Fds : Abstract!Grant(t, f)
         \/ \E f \in Fds : Abstract!Release(f)
<1>0. TypeInv /\ OwnInv /\ Blocking
  BY DEF BlockingInv
<1>c. ASSUME UNCHANGED origin PROVE Conns' = Conns
  BY <1>c DEF Conns
<1>h. ASSUME NEW f \in Fds, NEW kind, HandOver(f, kind), kind # "conn", f \notin Conns
      PROVE  Conns' = Conns
  BY <1>0, <1>h, ConnsMove
<1>i. ASSUME pc[t] = "idle" PROVE t \notin Waiting
  BY <1>0, <1>i DEF Blocking, Plain, Inside, Waiting, AcceptLabels, CloseLabels
<1>f. ASSUME pc[t] \in {"check_max", "write_max"}, Finish(t)
      PROVE  Silent \/ \E f \in Fds : Abstract!Grant(t, f)
  <2>1. new[t] \in Fds /\ new[t] \notin Conns
    BY <1>0, <1>f DEF OwnInv, OwnersOpen, Owns, Creates, NewLabels, TypeInv, CpuOK, FrameOK, Conns
  <2>2. CASE call[t] = "accept"
    <3>1. \A f \in Fds : f = new[t] => Abstract!Grant(t, f)
      BY <1>f, <2>2, GrantStep
    <3>2. QED
      BY <2>1, <3>1
  <2>3. CASE call[t] # "accept"
    <3>1. Conns' = Conns
      BY <1>f, <1>h, <2>1, <2>3 DEF Finish
    <3>2. Waiting' = Waiting
      BY <1>0, <1>f, <2>3, WaitingMove DEF Finish, Return, Waiting
    <3>3. QED
      BY <3>1, <3>2 DEF Silent
  <2>4. QED
    BY <2>2, <2>3
<1>1. CASE OpenCall(t) \/ BindCall(t) \/ ConnectCall(t) \/ ListenCall(t)
  <2>1. Waiting' = Waiting
    BY <1>1, WaitingStays DEF OpenCall, BindCall, ConnectCall, MarkDesock, ListenCall, cpu
  <2>2. UNCHANGED origin \/ \E f \in Fds : /\ f \notin Conns
                                           /\ HandOver(f, "file") \/ HandOver(f, "listener")
    BY <1>0, <1>1 DEF OpenCall, BindCall, ConnectCall, MarkDesock, ListenCall, app, LowestFree,
                      HeldDesocked, Held, Conns, OwnInv, OwnersOpen
  <2>3. Conns' = Conns
    BY <1>c, <1>h, <2>2
  <2>4. QED
    BY <2>1, <2>3 DEF Silent
<1>2. CASE SocketCall(t)
  <2>1. t \notin Waiting
    BY <1>2, <1>i DEF SocketCall, MayCall
  <2>2. \/ UNCHANGED origin /\ \E f : Enter(t, "socket", NoFd, f, "check_max")
        \/ UNCHANGED call /\ \E f \in Fds : f \notin Conns /\ HandOver(f, "socket")
    BY <1>0, <1>2 DEF SocketCall, LowestFree, Held, Conns, OwnInv, OwnersOpen, cpu
  <2>3. Conns' = Conns
    BY <1>c, <1>h, <2>2
  <2>4. Waiting' = Waiting
    BY <1>0, <2>1, <2>2, WaitingMove, WaitingStays
  <2>5. QED
    BY <2>3, <2>4 DEF Silent
<1>3. CASE AcceptCall(t)
  <2>1. t \notin Waiting
    BY <1>3, <1>i DEF AcceptCall, MayCall
  <2>2. Conns' = Conns
    BY <1>3, <1>c DEF AcceptCall, app
  <2>3. Waiting' = Waiting \cup {t}
    BY <1>0, <1>3, WaitingMove DEF AcceptCall
  <2>4. QED
    BY <2>1, <2>2, <2>3 DEF Abstract!Request, Waiting
<1>4. CASE CloseCall(t)
  <2>1. PICK f \in Fds : HandOver(f, "none") /\ Enter(t, "close", f, NoFd, CloseLabel(f))
    BY <1>4 DEF CloseCall, Held
  <2>2. t \notin Waiting
    BY <1>4, <1>i DEF CloseCall, MayCall
  <2>3. Waiting' = Waiting
    BY <1>0, <2>1, <2>2, WaitingMove
  <2>4. Conns' = Conns \ {f}
    BY <1>0, <2>1, ConnsMove
  <2>5. CASE f \in Conns
    BY <2>3, <2>4, <2>5 DEF Abstract!Release, Waiting
  <2>6. CASE f \notin Conns
    BY <2>3, <2>4, <2>6 DEF Silent
  <2>7. QED
    BY <2>5, <2>6
<1>5. CASE \/ AcceptBlock(t) \/ SemWait(t) \/ AcceptSetBlock(t) \/ AcceptClone(t)
           \/ AcceptUnlisten(t) \/ CloseGetValue(t) \/ ClosePost(t) \/ CloseClear(t)
  <2>1. UNCHANGED <<origin, call>>
    BY <1>5 DEF AcceptBlock, SemWait, AcceptSetBlock, AcceptClone, AcceptUnlisten,
                CloseGetValue, ClosePost, CloseClear, Goto, app
  <2>2. QED
    BY <1>c, <2>1, WaitingStays DEF Silent
<1>6. CASE AcceptDup(t)
  <2>1. UNCHANGED origin /\ \E f : Enter(t, call[t], arg[t], f, "clone")
    BY <1>6 DEF AcceptDup, app
  <2>2. Waiting' = Waiting
    BY <1>0, <2>1, WaitingMove DEF Waiting
  <2>3. QED
    BY <1>c, <2>1, <2>2 DEF Silent
<1>7. CASE AcceptDupFails(t)
  <2>1. UNCHANGED origin /\ Return(t)
    BY <1>7 DEF AcceptDupFails, app
  <2>2. t \in Waiting
    BY <1>0, <1>7 DEF AcceptDupFails, Blocking, Plain, Inside, AcceptLabels, CloseLabels, Waiting
  <2>3. Waiting' = Waiting \ {t}
    BY <1>0, <2>1, WaitingMove DEF Return
  <2>4. QED
    BY <1>c, <2>1, <2>2, <2>3 DEF Abstract!Refuse, Waiting
<1>8. CASE CheckMax(t)
  <2>1. CASE Finish(t)
    BY <1>8, <1>f, <2>1 DEF CheckMax
  <2>2. CASE Goto(t, "write_max") /\ UNCHANGED origin
    BY <1>c, <2>2, WaitingStays DEF Goto, Silent
  <2>3. QED
    BY <1>8, <2>1, <2>2 DEF CheckMax
<1>9. CASE WriteMax(t)
  BY <1>9, <1>f DEF WriteMax
<1>10. CASE CloseSysClose(t)
  <2>1. UNCHANGED origin /\ Return(t)
    BY <1>10 DEF CloseSysClose, app
  <2>2. t \notin Waiting
    BY <1>0, <1>10 DEF CloseSysClose, Blocking, Plain, Inside, AcceptLabels, CloseLabels, Waiting
  <2>3. Waiting' = Waiting
    BY <1>0, <2>1, <2>2, WaitingMove DEF Return
  <2>4. QED
    BY <1>c, <2>1, <2>3 DEF Silent
<1>11. CASE GetNameCall(t)
  <2>1. t \notin Waiting
    BY <1>11, <1>i DEF GetNameCall, MayCall
  <2>2. Waiting' = Waiting
    BY <1>0, <1>11, <2>1, WaitingMove DEF GetNameCall
  <2>3. QED
    BY <1>11, <1>c, <2>2 DEF GetNameCall, app, Silent
<1>12. CASE FillSockaddr(t)
  <2>1. CASE pc[t] = "name" /\ Return(t)
    <3>1. t \notin Waiting
      BY <1>0, <2>1 DEF Blocking, Plain, Inside, AcceptLabels, CloseLabels, Waiting
    <3>2. Waiting' = Waiting
      BY <1>0, <2>1, <3>1, WaitingMove DEF Return
    <3>3. QED
      BY <1>12, <1>c, <3>2 DEF FillSockaddr, app, Silent
  <2>2. CASE Goto(t, "check_max")
    BY <1>12, <1>c, <2>2, WaitingStays DEF FillSockaddr, Goto, app, Silent
  <2>3. QED
    BY <1>12, <2>1, <2>2 DEF FillSockaddr
<1>13. QED
  BY <1>1, <1>2, <1>3, <1>4, <1>5, <1>6, <1>7, <1>8, <1>9, <1>10, <1>11, <1>12 DEF BlockingStep

\* For these applications libdesock's accept and close implement the abstract pool.
THEOREM PoolRefined ==
  ASSUME BlockingApp
  PROVE  Spec => RefinesPool
<1>1. Init => Abstract!Init
  BY DEF Init, Abstract!Init, Conns
<1>2. BlockingInv /\ [Next]_vars => [Abstract!Next]_(Abstract!vars)
  <2> SUFFICES ASSUME BlockingInv, [Next]_vars PROVE [Abstract!Next]_(Abstract!vars)
    OBVIOUS
  <2>1. ASSUME Silent PROVE UNCHANGED Abstract!vars
    BY <2>1 DEF Silent, Abstract!vars, Waiting
  <2>2. CASE UNCHANGED vars
    BY <2>1, <2>2 DEF vars, app, cpu, Silent, Conns, Waiting
  <2>3. ASSUME NEW t \in Threads, AppCall(t) \/ LibStep(t)
        PROVE  [Abstract!Next]_(Abstract!vars)
    <3>1. BlockingStep(t)
      BY <2>3, OnlyBlockingSteps DEF BlockingInv
    <3>2. QED
      BY <2>1, <3>1, StepRefines DEF Abstract!Next
  <2>4. QED
    BY <2>2, <2>3 DEF Next
<1>3. QED
  BY <1>1, <1>2, BlockingInvariant, PTL DEF Spec, RefinesPool, Abstract!Spec
=============================================================================
