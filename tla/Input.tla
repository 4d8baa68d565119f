------------------------------- MODULE Input -------------------------------
(***************************************************************************)
(* How an application's reads on a desocketed connection are served from   *)
(* stdin by the receiving functions of read.c, through the peekbuffer and  *)
(* the delimiter of module Peekbuffer.                                     *)
(*                                                                         *)
(* One thread reads at a time: the library has no locking here.  A call is *)
(* one step, except that a call that fills several buffers takes a step    *)
(* for each.                                                               *)
(***************************************************************************)
EXTENDS Peekbuffer

CONSTANTS
  MaxLen,   \* bound: longest buffer given to read, recv and recvfrom
  Iovs      \* bound: buffers given to readv, recvmsg and recvmmsg

(* The buffers of a call are those of its messages, one after the other.  ends[i] is
   the length of the first i of them, lasts the indices of the last one of each
   message.                                                                     *)
OneMessage(iov) == iov.lasts = {Len(iov.ends)}

\* Lengths and totals above half the address space are not the lengths of buffers an
\* application has.
ASSUME InputAssumption ==
  /\ MaxLen \in 0 .. SizeLimit
  /\ \A iov \in Iovs :
       /\ iov.ends \in Seq(0 .. SizeLimit) /\ iov.ends # <<>>
       /\ \A i \in 1 .. Len(iov.ends) - 1 : iov.ends[i] <= iov.ends[i + 1]
       /\ iov.lasts \subseteq 1 .. Len(iov.ends) /\ Len(iov.ends) \in iov.lasts

VARIABLES
  call,     \* the call that is filling buffers
  stored,   \* history: the bytes written into the application's buffers, peeks aside
  ret       \* history: the last call that returned

vars == <<stdin, pos, pb, call, stored, ret>>

Functions == {"none", "read", "recv", "readv", "recvmsg", "recvmmsg"}
NoCall    == [fn |-> "none", peek |-> FALSE, iov |-> [ends |-> <<>>, lasts |-> {}],
              i |-> 0, bytes |-> <<>>]

\* Bytes given to the application, and those it peeked at, are bytes of stdin: it never
\* sees memory that libdesock has not written.
TypeOK ==
  /\ stdin \in Inputs
  /\ pos \in 0 .. Len(stdin)
  /\ PeekbufferType(pb)
  /\ \/ call = NoCall
     \/ /\ call \in [fn : {"readv", "recvmsg", "recvmmsg"}, peek : BOOLEAN, iov : Iovs,
                     i : Nat, bytes : Seq(Offsets)]
        /\ call.i \in 1 .. Len(call.iov.ends)
  /\ stored \in Seq(Offsets)
  /\ ret.fn \in Functions /\ ret.peek \in BOOLEAN
  /\ ret.bytes \in Seq(Offsets) /\ ret.reported \in -1 .. Len(ret.bytes)

Init ==
  /\ NothingRead
  /\ call = NoCall
  /\ stored = <<>>
  /\ ret = [fn |-> "none", peek |-> FALSE, len |-> 0, bytes |-> <<>>, reported |-> 0]
-----------------------------------------------------------------------------
(* read.c: what the receiving functions share *)

\* A buffer of len bytes is filled from the peekbuffer, then from stdin; "stops" tells
\* whether to leave stdin alone.
Fill(len, stops) ==
  LET moved == peekbuffer_cp(pb, len, 0)
      b     == IF pb.size > 0 THEN peekbuffer_mv(pb, len) ELSE pb
      rest  == len - Len(moved)
  IN  IF stops \/ rest = 0 THEN {Outcome(b, pos, moved, TRUE)}
      ELSE {IF n = -1 THEN Outcome(b, pos, moved, FALSE)
            ELSE LET new == postprocess_input(pos, n)
                 IN  Outcome(b, new.pos, moved \o From(pos, new.kept), TRUE) :
              n \in hook_input(rest)}

\* the peekbuffer holds the rest of a request
WasLocked == pb.size > 0 /\ pb.locked

\* MSG_PEEK: have len bytes in the peekbuffer
Peek(len) ==
  IF len > pb.size THEN peekbuffer_read(len - pb.size) ELSE {Outcome(pb, pos, <<>>, TRUE)}

\* "reported" is the number of bytes the return value tells the application of, -1 for
\* an error
Return(fn, peek, len, bytes, reported) ==
  ret' = [fn |-> fn, peek |-> peek, len |-> len, bytes |-> bytes, reported |-> reported]

FillOne(fn, len, stops) ==
  /\ call = NoCall
  /\ \E r \in Fill(len, stops) :
       /\ pb' = r.pb /\ pos' = r.pos
       /\ stored' = stored \o r.bytes
       /\ Return(fn, FALSE, len, r.bytes, IF r.ok THEN Len(r.bytes) ELSE -1)
  /\ UNCHANGED <<stdin, call>>
-----------------------------------------------------------------------------
(* read, recv, recvfrom *)

\* read does not look at the lock.
Read == \E len \in 1 .. MaxLen : FillOne("read", len, FALSE)

\* seeded fault: neither does recv
RecvAnyway == \E len \in 1 .. MaxLen : FillOne("recv", len, FALSE)

Recv == \E len \in 1 .. MaxLen : FillOne("recv", len, WasLocked)

RecvPeek ==
  /\ call = NoCall
  /\ \E len \in 1 .. MaxLen : \E r \in Peek(len) :
       LET bytes == IF r.ok THEN peekbuffer_cp(r.pb, len, 0) ELSE <<>>
       IN  /\ pb' = r.pb /\ pos' = r.pos
           /\ Return("recv", TRUE, len, bytes, IF r.ok THEN Len(bytes) ELSE -1)
  /\ UNCHANGED <<stdin, call, stored>>
-----------------------------------------------------------------------------
(* readv, recvmsg, recvmmsg *)

TotalLength(iov) == iov.ends[Len(iov.ends)]

Begin(fn, peek, iov) ==
  call' = [fn |-> fn, peek |-> peek, iov |-> iov, i |-> 1, bytes |-> <<>>]

Readv ==
  /\ call = NoCall
  /\ \E iov \in Iovs : OneMessage(iov) /\ Begin("readv", FALSE, iov)
  /\ UNCHANGED <<stdin, pos, pb, stored, ret>>

RecvmsgCall(fn, iov) ==
  /\ call = NoCall
  /\ \/ Begin(fn, FALSE, iov) /\ UNCHANGED <<pos, pb, ret>>
     \/ \E r \in Peek(TotalLength(iov)) :
          /\ pb' = r.pb /\ pos' = r.pos
          /\ \/ r.ok /\ Begin(fn, TRUE, iov) /\ UNCHANGED ret
             \/ ~r.ok /\ Return(fn, TRUE, TotalLength(iov), <<>>, -1) /\ UNCHANGED call
  /\ UNCHANGED <<stdin, stored>>

Recvmsg  == \E iov \in Iovs : OneMessage(iov) /\ RecvmsgCall("recvmsg", iov)
Recvmmsg == \E iov \in Iovs : RecvmsgCall("recvmmsg", iov)

\* recvmmsg counts no message when the first one is not filled
FirstMessage(iov, i) == \A j \in iov.lasts : j >= i

\* one round of the loop in do_readv, and what the caller does after the last one
FillNext ==
  /\ call # NoCall
  /\ LET ends == call.iov.ends
         i    == call.i
         len  == ends[i] - (IF i = 1 THEN 0 ELSE ends[i - 1])
     IN  \E r \in IF call.peek
                  THEN {Outcome(pb, pos, peekbuffer_cp(pb, len, Len(call.bytes)), TRUE)}
                  ELSE Fill(len, WasLocked) :
           LET bytes == call.bytes \o r.bytes
               short == Len(r.bytes) < len
               none  == call.fn = "recvmmsg" /\ short /\ FirstMessage(call.iov, i)
           IN  /\ pb' = r.pb /\ pos' = r.pos
               /\ stored' = IF call.peek THEN stored ELSE stored \o r.bytes
               /\ \/ /\ r.ok /\ ~short /\ i < Len(ends)
                     /\ call' = [call EXCEPT !.i = i + 1, !.bytes = bytes]
                     /\ UNCHANGED ret
                  \/ /\ ~r.ok \/ short \/ i = Len(ends)
                     /\ call' = NoCall
                     /\ Return(call.fn, call.peek, TotalLength(call.iov), bytes,
                               IF ~r.ok THEN -1 ELSE IF none THEN 0 ELSE Len(bytes))
  /\ UNCHANGED stdin
-----------------------------------------------------------------------------
Next == Read \/ Recv \/ RecvPeek \/ Readv \/ Recvmsg \/ Recvmmsg \/ FillNext

Spec == Init /\ [][Next]_vars
-----------------------------------------------------------------------------
(* Properties *)

\* where the delimiters of stdin begin, found from left to right
Delimiters ==
  LET begins[p \in 0 .. Len(stdin)] ==
        /\ MULTI_REQUEST
        /\ p + DELIMITER_LEN <= Len(stdin) /\ Matches(p, DELIMITER_LEN)
        /\ \A q \in 0 .. p - 1 : begins[q] => q + DELIMITER_LEN <= p
  IN  {p \in 0 .. Len(stdin) : begins[p]}

\* the input before offset p, without the delimiters
Payload(p) == {q \in 0 .. p - 1 : ~ \E d \in Delimiters : q \in d .. d + DELIMITER_LEN - 1}

\* seq lists the elements of S in ascending order
Lists(seq, S) ==
  /\ Len(seq) = Cardinality(S)
  /\ \A i \in 1 .. Len(seq) : seq[i] \in S
  /\ \A i \in 1 .. Len(seq) - 1 : seq[i] < seq[i + 1]

\* What the application was given and what the peekbuffer holds is the input up to
\* the file position: no byte is lost, doubled or reordered, none of a delimiter is
\* passed on, however reads of all kinds and lengths follow each other.
NothingLost == Lists(stored \o peekbuffer_cp(pb, pb.size, 0), Payload(pos))

\* peekbuffer_grow makes room: nothing is written past the end of the buffer, which
\* would extend its domain here, and the valid bytes lie inside it.
NoOverrun ==
  /\ DOMAIN pb.buffer = 0 .. pb.capacity - 1
  /\ pb.start + pb.size <= pb.capacity

\* bytes of two requests
Spans(bytes) == \E d \in Delimiters, i, j \in 1 .. Len(bytes) : bytes[i] < d /\ d < bytes[j]

\* tests/test_multi.c:97 "Peek only for the next packet, never beyond", for all three
\* functions that peek; and recv returns one request at a time, whatever was called
\* before.
OneRequestAtATime == ret.peek \/ ret.fn = "recv" => ~Spans(ret.bytes)

\* README, multiple_requests: "a delimiter will be used to return different data from
\* subsequent read calls": no call returns bytes of two requests.
EachCallOneRequest == ret.fn # "recvmmsg" => ~Spans(ret.bytes)

\* What recv(MSG_PEEK) showed, recv with the same length then returns.
PeekShowsWhatRecvReturns ==
  [][ /\ ret.fn = "recv" /\ ret.peek /\ ret.bytes # <<>>
      /\ ret'.fn = "recv" /\ ~ret'.peek /\ ret'.len = ret.len
      => ret'.bytes = ret.bytes ]_vars

\* What recv and MSG_PEEK promise whatever was called before (module Requests): recv
\* returns as much as it asked for, less only at the end of a request, and passes one
\* delimiter at most.
Abstract ==
  INSTANCE Requests WITH
    size <- Len(stdin), delims <- Delimiters, length <- DELIMITER_LEN,
    next <- IF pb.size > 0 THEN pb.buffer[pb.start] ELSE pos,
    given <- stored,
    answer <- IF ret.fn # "recv" THEN [peek |-> FALSE, len |-> 0, bytes |-> <<>>, ok |-> TRUE]
              ELSE [peek |-> ret.peek, len |-> ret.len, bytes |-> ret.bytes, ok |-> ret.reported >= 0],
    stuck <- pb.locked /\ pb.size = 0
RefinesRequests == Abstract!Spec
=============================================================================
