------------------------------- MODULE Output ------------------------------
(***************************************************************************)
(* What becomes of an application's writes on a desocketed connection:     *)
(* they go to the output hook, which drops them, or passes them on to      *)
(* stdout in a debug build (write.c, sendfile.c, hooks.c).                 *)
(*                                                                         *)
(* The bytes of a call are numbered: those of its buffers from 0 on, one   *)
(* buffer after the other, and those of a file by their offset.  Each call *)
(* of the hook is a step, for it may take less than it is given, or fail.  *)
(***************************************************************************)
EXTENDS Integers, Sequences, FiniteSets, FiniteSetsExt

CONSTANTS
  Builds,     \* whether the build is a debug build: a subset of BOOLEAN
  MaxLen,     \* bound: longest buffer given to write, send and sendto
  Iovs,       \* bound: buffers given to writev, sendmsg and sendmmsg
  FileSize,   \* bytes in the file that sendfile reads
  ChunkSize   \* size of sendfile's buffer

\* The buffers of a call are those of its messages, one after the other.  ends[i] is the
\* length of the first i of them, lasts the indices of the last one of each message.
ASSUME OutputAssumption ==
  /\ Builds \subseteq BOOLEAN
  /\ MaxLen \in Nat /\ FileSize \in Nat /\ ChunkSize \in Nat \ {0}
  /\ \A iov \in Iovs :
       /\ iov.ends \in Seq(Nat) /\ iov.ends # <<>>
       /\ \A i \in 1 .. Len(iov.ends) - 1 : iov.ends[i] <= iov.ends[i + 1]
       /\ iov.lasts \subseteq 1 .. Len(iov.ends) /\ Len(iov.ends) \in iov.lasts

VARIABLES
  debug,    \* build option debug_desock
  file,     \* external: the position of sendfile's in_fd
  call,     \* the call under way
  out,      \* history: the bytes the hook took in this call, or in the last one
  ret       \* history: the last call that returned

vars == <<debug, file, call, out, ret>>

NoOffset == -1
NoIov    == [ends |-> <<0>>, lasts |-> {1}]

\* i and offset are do_writev's, written its count for the message, lens the msg_len of
\* the messages before; start and old are where sendfile begins and where the file was.
NoCall ==
  [fn |-> "none", iov |-> NoIov, i |-> 1, offset |-> 0, written |-> 0, lens |-> <<>>,
   start |-> 0, old |-> 0, ofs |-> NoOffset, count |-> 0, consumed |-> 0]

\* where buffer i begins, and its length
BufferStart(c) == IF c.i = 1 THEN 0 ELSE c.iov.ends[c.i - 1]
BufferSize(c)  == c.iov.ends[c.i] - BufferStart(c)

Calls ==
  [fn : {"none", "write", "writev", "sendmmsg", "sendfile"}, iov : Iovs \cup {NoIov},
   i : Nat, offset : Nat, written : Nat, lens : Seq(Nat), start : 0 .. FileSize,
   old : 0 .. FileSize, ofs : 0 .. FileSize \cup {NoOffset}, count : 0 .. FileSize,
   consumed : 0 .. FileSize]

\* do_writev never uses an index beyond its iovec or reads past a buffer, and sendfile
\* reads no more than it was asked to.
TypeOK ==
  /\ debug \in Builds
  /\ file \in 0 .. FileSize
  /\ call \in Calls
  /\ call.i \in 1 .. Len(call.iov.ends)
  /\ call.offset <= BufferSize(call)
  /\ call.consumed <= call.count
  /\ out \in Seq(Nat)
  /\ ret \in [call : Calls, ok : BOOLEAN, lens : Seq(Nat)]

Init ==
  /\ debug \in Builds
  /\ file = 0
  /\ call = NoCall
  /\ out = <<>>
  /\ ret = [call |-> NoCall, ok |-> TRUE, lens |-> <<>>]
-----------------------------------------------------------------------------
\* The results of hook_output on size bytes; -1 is an error.  A write of something
\* writes something.
hook_output(size) == IF debug /\ size > 0 THEN 1 .. size \cup {-1} ELSE {size}

Bytes(p, n) == [k \in 1 .. n |-> p + k - 1]

\* lens: how many bytes of each message the application is told were written
Return(c, ok, lens) == call' = NoCall /\ ret' = [call |-> c, ok |-> ok, lens |-> lens]

\* write, send, sendto: what the hook says
Write ==
  /\ call = NoCall
  /\ \E len \in 0 .. MaxLen : \E r \in hook_output(len) :
       /\ out' = Bytes(0, r)
       /\ Return([NoCall EXCEPT !.fn = "write"], r # -1, IF r = -1 THEN <<>> ELSE <<r>>)
  /\ UNCHANGED <<debug, file>>

Begin(fn, iov) ==
  /\ call = NoCall
  /\ call' = [NoCall EXCEPT !.fn = fn, !.iov = iov]
  /\ out' = <<>>
  /\ UNCHANGED <<debug, file, ret>>

Writev   == \E iov \in Iovs : iov.lasts = {Len(iov.ends)} /\ Begin("writev", iov)
Sendmmsg == \E iov \in Iovs : Begin("sendmmsg", iov)

BufferRest(c) == BufferSize(c) - c.offset

\* seeded faults: offset <= iov_len in do_writev's test, without r > 0
Advanced_off_by_one(c, r) ==
  IF r <= BufferRest(c) THEN [c EXCEPT !.offset = @ + r, !.written = @ + r]
  ELSE [c EXCEPT !.i = @ + 1, !.offset = 0, !.written = @ + r]

\* do_writev goes to the next buffer after a short write
Advanced_no_retry(c, r) == [c EXCEPT !.i = @ + 1, !.offset = 0, !.written = @ + r]

\* The same buffer again while it is not empty, else the next one.
Advanced(c, r) ==
  IF 0 < r /\ r < BufferRest(c) THEN [c EXCEPT !.offset = @ + r, !.written = @ + r]
  ELSE [c EXCEPT !.i = @ + 1, !.offset = 0, !.written = @ + r]

\* seeded fault: written is kept for the next message
Counted_not_reset(c, i) == IF i \in c.iov.lasts THEN [c EXCEPT !.lens = Append(@, c.written)] ELSE c

\* sendmmsg: after the last buffer of a message, its msg_len
Counted(c, i) ==
  IF i \in c.iov.lasts THEN [c EXCEPT !.lens = Append(@, c.written), !.written = 0] ELSE c

\* one call of the hook in do_writev, and what its callers do after the last
WriteNext ==
  /\ call.fn \in {"writev", "sendmmsg"}
  /\ \E r \in hook_output(BufferRest(call)) :
       \/ r = -1 /\ Return(call, FALSE, <<>>) /\ UNCHANGED out
       \/ /\ r # -1
          /\ out' = out \o Bytes(BufferStart(call) + call.offset, r)
          /\ LET after == Advanced(call, r)
                 c     == IF after.i = call.i THEN after ELSE Counted(after, call.i)
             IN  IF c.i > Len(c.iov.ends) THEN Return(call, TRUE, c.lens)
                 ELSE call' = c /\ UNCHANGED ret
  /\ UNCHANGED <<debug, file>>
-----------------------------------------------------------------------------
(* sendfile *)

\* An application sends what the file holds: asked for more, a debug build reads on
\* at its end for ever.
Sendfile ==
  /\ call = NoCall
  /\ \E ofs \in {NoOffset} \cup 0 .. FileSize :
       LET start == IF ofs = NoOffset THEN file ELSE ofs
       IN  \E count \in 0 .. FileSize - start :
             LET c == [NoCall EXCEPT !.fn = "sendfile", !.start = start, !.old = file,
                                     !.ofs = ofs, !.count = count]
             IN  /\ out' = <<>>
                 /\ \/ debug /\ call' = c /\ file' = start /\ UNCHANGED ret
                    \/ ~debug /\ Return(c, TRUE, <<count>>) /\ UNCHANGED file
  /\ UNCHANGED debug

\* seeded fault: the size of the buffer is always read
ChunkWhole(c) == ChunkSize

\* MIN(sizeof(buf), count - consumed)
Chunk(c) == IF c.count - c.consumed < ChunkSize THEN c.count - c.consumed ELSE ChunkSize

\* The result of the hook is not looked at.
SendfileNext ==
  /\ call.fn = "sendfile" /\ call.consumed < call.count
  /\ LET n == IF Chunk(call) < FileSize - file THEN Chunk(call) ELSE FileSize - file
     IN  /\ \E r \in hook_output(n) : out' = out \o Bytes(file, r)
         /\ file' = file + n
         /\ call' = [call EXCEPT !.consumed = @ + n]
  /\ UNCHANGED <<debug, ret>>

SendfileEnd ==
  /\ call.fn = "sendfile" /\ call.consumed >= call.count
  /\ file' = IF call.ofs = NoOffset THEN file ELSE call.old
  /\ Return(call, TRUE, <<call.count>>)
  /\ UNCHANGED <<debug, out>>
-----------------------------------------------------------------------------
CallGoesOn == WriteNext \/ SendfileNext \/ SendfileEnd

Next == Write \/ Writev \/ Sendmmsg \/ Sendfile \/ CallGoesOn

Spec == Init /\ [][Next]_vars

\* The calling thread is scheduled, and the hook returns.
FairSpec == Spec /\ WF_vars(CallGoesOn)
-----------------------------------------------------------------------------
(* Properties *)

\* the call that out is about
Current == IF call = NoCall THEN ret.call ELSE call

\* However short the writes of stdout are, the hook gets the bytes of a call's buffers in
\* order: none is left out before one that is written, and none comes twice.
WrittenInOrder == Current.fn # "sendfile" => out = Bytes(0, Len(out))

\* the length of the message whose last buffer is i
MessageLength(iov, i) ==
  LET before == {l \in iov.lasts : l < i}
  IN  iov.ends[i] - (IF before = {} THEN 0 ELSE iov.ends[Max(before)])

\* A do_writev that succeeds has written every buffer to its end, and each message is
\* reported with its own length.
ReportedIsWritten ==
  call = NoCall /\ ret.ok /\ ret.call.fn \in {"writev", "sendmmsg"} =>
    LET iov == ret.call.iov
    IN  /\ Len(out) = iov.ends[Len(iov.ends)]
        /\ Len(ret.lens) = Cardinality(iov.lasts)
        /\ \A i \in iov.lasts :
             ret.lens[Cardinality({l \in iov.lasts : l <= i})] = MessageLength(iov, i)

\* sendfile, in a debug build: the hook is given bytes of the part of the file that was
\* asked for, in order; with an offset the file is left where it was, without one it is
\* left behind that part.
SendfileSendsPart ==
  Current.fn = "sendfile" =>
    /\ \A k \in 1 .. Len(out) : out[k] \in Current.start .. Current.start + Current.count - 1
    /\ \A k \in 1 .. Len(out) - 1 : out[k] < out[k + 1]
    /\ debug /\ call = NoCall =>
         file = IF Current.ofs = NoOffset THEN Current.old + Current.count ELSE Current.old

\* Every call returns, although do_writev retries short writes.
CallsReturn == call # NoCall ~> call = NoCall
=============================================================================
