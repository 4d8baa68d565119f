------------------------------- MODULE Serve -------------------------------
(***************************************************************************)
(* Threads that accept connections, read on them and close them: the pool  *)
(* (module Pool, which ConnPool implements) together with the reads of     *)
(* module Input, here cut between the functions that touch the peekbuffer  *)
(* or the file position of stdin, which all threads and connections share  *)
(* and no lock protects.  Each connection is read by the thread that       *)
(* accepted it.                                                            *)
(***************************************************************************)
EXTENDS Peekbuffer

CONSTANTS
  Threads, Fds, MAX_CONNS,    \* as in Pool
  MaxLen, Iovs                \* as in Input

ASSUME ServeAssumption ==
  /\ Fds \subseteq Nat
  /\ MAX_CONNS \in Nat
  /\ MaxLen \in 0 .. SizeLimit

VARIABLES
  conns, waiting,     \* the pool
  local,              \* each thread's connection, and its call with its locals
  stored, ret,        \* history, as in Input
  seen                \* history: file position and peekbuffer when the last call returned

vars == <<conns, waiting, stdin, pos, pb, local, stored, ret, seen>>

\* the pool, and what Input notes of a call that returned
Conn == INSTANCE Pool
In   == INSTANCE Input WITH call <- <<>>

NoFd == -1
Idle(f) == [fd |-> f, step |-> "idle", fn |-> "none", len |-> 0, buflen |-> 0, locked |-> FALSE,
            bytes |-> <<>>, from |-> 0, n |-> 0]

Init ==
  /\ Conn!Init
  /\ NothingRead
  /\ local = [t \in Threads |-> Idle(NoFd)]
  /\ stored = <<>>
  /\ ret = [fn |-> "none", peek |-> FALSE, len |-> 0, bytes |-> <<>>, reported |-> 0]
  /\ seen = [pos |-> pos, pb |-> pb]
-----------------------------------------------------------------------------
(* accept and close *)

reading == <<stdin, pos, pb, stored, ret, seen>>

Accept(t) ==
  /\ local[t] = Idle(NoFd)
  /\ \/ Conn!Request(t) /\ UNCHANGED local
     \/ \E f \in Fds : Conn!Grant(t, f) /\ local' = [local EXCEPT ![t] = Idle(f)]
  /\ UNCHANGED reading

Close(t) ==
  /\ local[t].step = "idle" /\ local[t].fd # NoFd
  /\ Conn!Release(local[t].fd)
  /\ local' = [local EXCEPT ![t] = Idle(NoFd)]
  /\ UNCHANGED reading
-----------------------------------------------------------------------------
(* A call *)

Go(t, l)   == local' = [local EXCEPT ![t] = l] /\ UNCHANGED <<conns, waiting, stdin>>
History    == <<stored, ret, seen>>

Returned(t, bytes, ok) ==
  LET l == local[t]
  IN  /\ Go(t, Idle(l.fd))
      /\ stored' = IF l.fn = "peek" THEN stored ELSE stored \o bytes
      /\ In!Return(IF l.fn = "read" THEN "read" ELSE "recv", l.fn = "peek", l.len, bytes,
                   IF ok THEN Len(bytes) ELSE -1)
      /\ seen' = [pos |-> pos', pb |-> pb']

\* seeded fault: the lock is looked at after the bytes were moved
Enter_unlocked(t) ==
  /\ local[t].step = "idle" /\ local[t].fd # NoFd
  /\ \E fn \in {"read", "recv", "peek"}, len \in 1 .. MaxLen :
       Go(t, [local[t] EXCEPT !.step = IF fn = "peek" THEN "grow" ELSE "move",
                              !.fn = fn, !.len = len, !.buflen = pb.size])
  /\ UNCHANGED <<pos, pb, History>>

\* peekbuffer_size and peekbuffer_locked; a peek that finds enough returns it
Enter(t) ==
  /\ local[t].step = "idle" /\ local[t].fd # NoFd
  /\ \E fn \in {"read", "recv", "peek"}, len \in 1 .. MaxLen :
       Go(t, [local[t] EXCEPT !.step = IF fn # "peek" THEN "move"
                                       ELSE IF len > pb.size /\ ~pb.locked THEN "grow" ELSE "copy",
                              !.fn = fn, !.len = len, !.buflen = pb.size,
                              !.locked = fn = "recv" /\ pb.size > 0 /\ pb.locked])
  /\ UNCHANGED <<pos, pb, History>>

\* peekbuffer_mv
Move(t) ==
  LET l     == local[t]
      bytes == IF l.buflen > 0 THEN peekbuffer_cp(pb, l.len, 0) ELSE <<>>
  IN  /\ l.step = "move"
      /\ pb' = IF l.buflen > 0 THEN peekbuffer_mv(pb, l.len) ELSE pb
      /\ UNCHANGED pos
      /\ \/ (l.locked \/ Len(bytes) = l.len) /\ Returned(t, bytes, TRUE)
         \/ /\ ~l.locked /\ Len(bytes) < l.len
            /\ Go(t, [l EXCEPT !.step = "input", !.bytes = bytes])
            /\ UNCHANGED History

\* peekbuffer_grow, for what was missing on entry
Grow(t) ==
  /\ local[t].step = "grow" /\ UNCHANGED pos
  /\ LET size == pb.size + local[t].len - local[t].buflen
     IN  \/ /\ pb' = peekbuffer_grow(pb, size)
            /\ Go(t, [local[t] EXCEPT !.step = "input"]) /\ UNCHANGED History
         \/ /\ MallocFails /\ size > pb.capacity
            /\ UNCHANGED pb /\ Returned(t, <<>>, FALSE)

\* hook_input, into the buffer of the application or the peekbuffer
Input(t) ==
  LET l    == local[t]
      have == IF l.fn = "peek" THEN l.buflen ELSE Len(l.bytes)
  IN  /\ l.step = "input"
      /\ \E n \in hook_input(l.len - have) :
           \/ /\ n >= 0
              /\ pos' = pos + n
              /\ pb' = IF l.fn = "peek"
                       THEN [pb EXCEPT !.buffer = Write(@, pb.start + pb.size, From(pos, n))]
                       ELSE pb
              /\ Go(t, [l EXCEPT !.step = "post", !.from = pos, !.n = n]) /\ UNCHANGED History
           \/ n = -1 /\ UNCHANGED <<pos, pb>>
              /\ Returned(t, IF l.fn = "peek" THEN <<>> ELSE l.bytes, FALSE)

\* postprocess_input, whose seeks are relative to where stdin is by now
Postprocess(t) ==
  LET l    == local[t]
      post == postprocess_input(l.from, l.n)
  IN  /\ l.step = "post"
      /\ pos' = pos + post.pos - (l.from + l.n)
      /\ \/ /\ l.fn = "peek"
            /\ pb' = [pb EXCEPT !.locked = @ \/ post.kept < l.n, !.size = @ + post.kept]
            /\ Go(t, [l EXCEPT !.step = "copy"]) /\ UNCHANGED History
         \/ /\ l.fn # "peek" /\ UNCHANGED pb
            /\ Returned(t, l.bytes \o From(l.from, post.kept), TRUE)

\* peekbuffer_cp
Copy(t) ==
  /\ local[t].step = "copy" /\ UNCHANGED <<pos, pb>>
  /\ Returned(t, peekbuffer_cp(pb, local[t].len, 0), TRUE)
-----------------------------------------------------------------------------
Call(t) == Enter(t) \/ Move(t) \/ Grow(t) \/ Input(t) \/ Postprocess(t) \/ Copy(t)

Next == \E t \in Threads : Accept(t) \/ Close(t) \/ Call(t)

Spec == Init /\ [][Next]_vars
-----------------------------------------------------------------------------
(* Properties *)

\* A thread reads on a connection of its own; what it was given so far lies in the input.
TypeOK ==
  /\ PeekbufferType(pb) /\ pos \in 0 .. Len(stdin)
  /\ conns = {local[t].fd : t \in Threads} \ {NoFd} /\ waiting \subseteq Threads
  /\ \A t \in Threads : /\ local[t].bytes \in Seq(Offsets) /\ local[t].n \in 0 .. local[t].len
                        /\ local[t].fd = NoFd => local[t].step = "idle"

\* README, max_conns: with one connection at a time, the calls of all threads together are
\* a sequence of calls of one thread (module Input): a read is over before the next begins,
\* although no lock protects the peekbuffer and the position of stdin, so that nothing that
\* holds of Input is lost by serving each connection in a thread of its own.
OneReader   == INSTANCE Input WITH pos <- seen.pos, pb <- seen.pb, call <- In!NoCall
RefinesInput == OneReader!Spec
=============================================================================
