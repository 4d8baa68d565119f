---------------------------- MODULE Output_proofs --------------------------
(***************************************************************************)
(* For every set of buffers, every file and every result of the hook: no   *)
(* write leaves a gap, repeats a byte or goes beyond its buffers, what is  *)
(* reported of each message was written, and sendfile sends bytes of the   *)
(* part of the file it was asked for.                                      *)
(***************************************************************************)
EXTENDS Output, SequenceTheorems, FiniteSetTheorems, TLAPS

\* s lists bytes of the file from a up to b, in order.
Ascending(s, a, b) ==
  /\ \A k \in 1 .. Len(s) : s[k] \in a .. b - 1
  /\ \A k \in 1 .. Len(s) - 1 : s[k] < s[k + 1]

\* what do_writev has written when it is about to call the hook
WritevInv ==
  /\ call.iov \in Iovs
  /\ out = Bytes(0, BufferStart(call) + call.offset)

\* what sendfile has read and sent when it is about to read on
SendfileInv ==
  /\ call.ofs = NoOffset => call.start = call.old
  /\ call.start + call.count <= FileSize
  /\ file = call.start + call.consumed
  /\ Ascending(out, call.start, file)

\* The inductive invariant: the types, and how far the call under way has come.
OutputInv ==
  /\ TypeOK
  /\ call.fn # "write"
  /\ call.fn = "none" => call = NoCall
  /\ call.fn \in {"writev", "sendmmsg"} => WritevInv
  /\ call.fn = "sendfile" => SendfileInv
  /\ WrittenInOrder /\ SendfileSendsPart
-----------------------------------------------------------------------------
(* Buffers and bytes *)

\* n bytes from p on; an error of the hook writes none.
LEMMA BytesAre ==
  ASSUME NEW p \in Nat, NEW n \in Nat \cup {-1}
  PROVE  /\ Bytes(p, n) \in Seq(Nat)
         /\ Len(Bytes(p, n)) = IF n = -1 THEN 0 ELSE n
         /\ \A k \in 1 .. n : Bytes(p, n)[k] = p + k - 1
<1>1. CASE n = -1
  <2>1. Bytes(p, n) = <<>>
    BY <1>1 DEF Bytes
  <2>2. 1 .. n = {}
    BY <1>1
  <2>3. Bytes(p, n) \in Seq(Nat) /\ Len(Bytes(p, n)) = 0
    BY <2>1
  <2> QED BY <1>1, <2>2, <2>3
<1>2. CASE n \in Nat
  BY <1>2 DEF Bytes
<1> QED BY <1>1, <1>2

\* The same from the first byte.
LEMMA BytesFromStart ==
  ASSUME NEW n \in Nat
  PROVE  Bytes(0, n) \in Seq(Nat) /\ Len(Bytes(0, n)) = n
BY BytesAre

\* What follows the first m bytes makes one piece with them.
LEMMA BytesJoin ==
  ASSUME NEW m \in Nat, NEW n \in Nat
  PROVE  Bytes(0, m) \o Bytes(m, n) = Bytes(0, m + n)
BY DEF Bytes

\* The hook takes no more than it is given.
LEMMA HookResult ==
  ASSUME NEW size \in Nat, NEW r \in hook_output(size)
  PROVE  r = -1 \/ r \in 0 .. size
BY DEF hook_output

\* A buffer of one of the iovecs begins and ends at a number, and not before it begins.
LEMMA BufferBounds ==
  ASSUME NEW iov \in Iovs \cup {NoIov}, NEW i \in 1 .. Len(iov.ends)
  PROVE  /\ Len(iov.ends) \in Nat
         /\ iov.ends[i] \in Nat
         /\ i > 1 => iov.ends[i - 1] \in Nat /\ iov.ends[i - 1] <= iov.ends[i]
<1>1. CASE iov \in Iovs
  <2>1. iov.ends \in Seq(Nat)
    BY <1>1, OutputAssumption
  <2>2. \A j \in 1 .. Len(iov.ends) - 1 : iov.ends[j] <= iov.ends[j + 1]
    BY <1>1, OutputAssumption
  <2>3. ASSUME i > 1 PROVE iov.ends[i - 1] <= iov.ends[(i - 1) + 1] /\ i - 1 \in 1 .. Len(iov.ends)
    BY <2>1, <2>2, <2>3
  <2> QED BY <2>1, <2>3
<1>2. CASE iov = NoIov
  BY <1>2 DEF NoIov
<1> QED BY <1>1, <1>2

\* The call under way is at a place inside its buffers.
LEMMA CallBuffer ==
  ASSUME TypeOK
  PROVE  /\ BufferStart(call) \in Nat /\ BufferSize(call) \in Nat /\ BufferRest(call) \in Nat
         /\ call.i \in 1 .. Len(call.iov.ends) /\ Len(call.iov.ends) \in Nat
         /\ call.offset \in Nat /\ call.offset <= BufferSize(call)
         /\ BufferSize(call) = call.iov.ends[call.i] - BufferStart(call)
         /\ BufferRest(call) = BufferSize(call) - call.offset
<1>1. call.iov \in Iovs \cup {NoIov} /\ call.offset \in Nat
  BY DEF TypeOK, Calls
<1>2. call.i \in 1 .. Len(call.iov.ends) /\ call.offset <= BufferSize(call)
  BY DEF TypeOK
<1>3. Len(call.iov.ends) \in Nat /\ call.iov.ends[call.i] \in Nat
      /\ (call.i > 1 => call.iov.ends[call.i - 1] \in Nat
                        /\ call.iov.ends[call.i - 1] <= call.iov.ends[call.i])
  BY <1>1, <1>2, BufferBounds
<1>4. BufferStart(call) \in Nat /\ BufferStart(call) <= call.iov.ends[call.i]
  BY <1>2, <1>3 DEF BufferStart
<1> QED BY <1>1, <1>2, <1>3, <1>4 DEF BufferSize, BufferRest

\* NoCall, and a call that only differs from it in some fields, are calls.
LEMMA NoCallIs == NoCall \in Calls /\ BufferStart(NoCall) = 0 /\ BufferSize(NoCall) = 0
BY OutputAssumption DEF NoCall, Calls, NoIov, NoOffset, BufferStart, BufferSize
-----------------------------------------------------------------------------
(* The steps of do_writev *)

\* A call keeps its other fields when do_writev goes on in it.
LEMMA Places ==
  ASSUME NEW F, NEW V, NEW L, NEW S, NEW D, NEW O, NEW T, NEW K, NEW I,
         NEW c \in [fn : F, iov : V, i : I, offset : I, written : I, lens : L, start : S,
                    old : D, ofs : O, count : T, consumed : K],
         NEW i \in I, NEW o \in I, NEW w \in I, NEW l \in L
  PROVE  [c EXCEPT !.i = i, !.offset = o, !.written = w, !.lens = l]
           \in [fn : F, iov : V, i : I, offset : I, written : I, lens : L, start : S,
                old : D, ofs : O, count : T, consumed : K]
OBVIOUS

\* d is the same call as c, at offset o of buffer i.
Continues(d, c, i, o) ==
  d.iov = c.iov /\ d.fn = c.fn /\ d.i = i /\ d.offset = o /\ d.consumed = c.consumed /\ d.count = c.count

At(c, i, o, w, l) == [c EXCEPT !.i = i, !.offset = o, !.written = w, !.lens = l]

LEMMA PlaceOf ==
  ASSUME NEW c \in Calls, NEW i \in Nat, NEW o \in Nat, NEW w \in Nat, NEW l \in Seq(Nat)
  PROVE  At(c, i, o, w, l) \in Calls /\ Continues(At(c, i, o, w, l), c, i, o)
<1>1. At(c, i, o, w, l) \in Calls
  <2>1. c \in [fn : {"none", "write", "writev", "sendmmsg", "sendfile"}, iov : Iovs \cup {NoIov},
               i : Nat, offset : Nat, written : Nat, lens : Seq(Nat), start : 0 .. FileSize,
               old : 0 .. FileSize, ofs : 0 .. FileSize \cup {NoOffset}, count : 0 .. FileSize,
               consumed : 0 .. FileSize]
    BY DEF Calls
  <2> QED BY <2>1, Places DEF Calls, At
<1> QED BY <1>1 DEF Calls, At, Continues

\* A call of the hook leads to a call of it with more of the same buffer, or with the
\* next one, and what was written is what comes before.
LEMMA AdvancedCall ==
  ASSUME TypeOK, NEW r \in 0 .. BufferRest(call), r < BufferRest(call) => r > 0,
         NEW c, c = Advanced(call, r)
  PROVE  /\ c \in Calls /\ c.iov = call.iov /\ c.fn = call.fn
         /\ c.consumed = call.consumed /\ c.count = call.count
         /\ \/ /\ c.i = call.i
               /\ c.offset = call.offset + r /\ c.offset <= BufferSize(call)
            \/ /\ c.i = call.i + 1 /\ c.offset = 0
               /\ call.offset + r = BufferSize(call)
<1>1. call \in Calls /\ r \in Nat
  BY CallBuffer DEF TypeOK
<1>2. call.offset \in Nat /\ call.written \in Nat /\ call.i \in Nat /\ call.lens \in Seq(Nat)
  BY <1>1 DEF Calls
<1>3. call.offset + r \in Nat /\ call.written + r \in Nat /\ call.i + 1 \in Nat
  BY <1>1, <1>2
<1>4. BufferRest(call) = BufferSize(call) - call.offset /\ BufferSize(call) \in Nat
  BY CallBuffer
<1>5. CASE 0 < r /\ r < BufferRest(call)
  <2>1. c = [call EXCEPT !.offset = call.offset + r, !.written = call.written + r]
    BY <1>5 DEF Advanced
  <2>2. PICK d \in Calls, j \in Nat, o \in Nat, w \in Nat, l \in Seq(Nat) :
          d = call /\ j = call.i /\ o = call.offset + r /\ w = call.written + r /\ l = call.lens
    BY <1>1, <1>2, <1>3
  <2>3. c = At(d, j, o, w, l)
    BY <2>1, <2>2 DEF Calls, At
  <2>4. c \in Calls /\ Continues(c, d, j, o)
    BY <2>3, PlaceOf
  <2>5. /\ c \in Calls /\ c.iov = call.iov /\ c.fn = call.fn /\ c.i = call.i
        /\ c.offset = call.offset + r /\ c.consumed = call.consumed /\ c.count = call.count
    BY <2>2, <2>4 DEF Continues
  <2> QED BY <1>1, <1>2, <1>4, <1>5, <2>5
<1>6. CASE ~(0 < r /\ r < BufferRest(call))
  <2>1. c = [call EXCEPT !.i = call.i + 1, !.offset = 0, !.written = call.written + r]
    BY <1>6 DEF Advanced
  <2>2. PICK d \in Calls, j \in Nat, w \in Nat, l \in Seq(Nat) :
          d = call /\ j = call.i + 1 /\ w = call.written + r /\ l = call.lens
    BY <1>1, <1>2, <1>3
  <2>3. c = At(d, j, 0, w, l)
    BY <2>1, <2>2 DEF Calls, At
  <2>4. c \in Calls /\ Continues(c, d, j, 0)
    BY <2>3, PlaceOf
  <2>5. /\ c \in Calls /\ c.iov = call.iov /\ c.fn = call.fn /\ c.i = call.i + 1
        /\ c.offset = 0 /\ c.consumed = call.consumed /\ c.count = call.count
    BY <2>2, <2>4 DEF Continues
  <2>6. r = BufferRest(call)
    BY <1>1, <1>6, CallBuffer
  <2> QED BY <1>1, <1>2, <1>4, <2>5, <2>6
<1> QED BY <1>5, <1>6

\* Counting a message leaves the place in the buffers as it is.
LEMMA CountedCall ==
  ASSUME NEW c \in Calls, NEW i, NEW d, d = Counted(c, i)
  PROVE  /\ d \in Calls /\ d.iov = c.iov /\ d.fn = c.fn /\ d.i = c.i /\ d.offset = c.offset
         /\ d.consumed = c.consumed /\ d.count = c.count
<1>1. CASE i \in c.iov.lasts
  <2>1. d = [c EXCEPT !.lens = Append(c.lens, c.written), !.written = 0]
    BY <1>1 DEF Counted
  <2>2. d = At(c, c.i, c.offset, 0, Append(c.lens, c.written))
    BY <2>1 DEF Calls, At
  <2>3. c.i \in Nat /\ c.offset \in Nat /\ c.lens \in Seq(Nat) /\ c.written \in Nat
    BY DEF Calls
  <2>4. Append(c.lens, c.written) \in Seq(Nat)
    BY <2>3
  <2>5. PICK j \in Nat, o \in Nat, l \in Seq(Nat) :
          j = c.i /\ o = c.offset /\ l = Append(c.lens, c.written)
    BY <2>3, <2>4
  <2>6. d = At(c, j, o, 0, l)
    BY <2>2, <2>5
  <2>7. d \in Calls /\ Continues(d, c, j, o)
    BY <2>6, PlaceOf
  <2> QED BY <2>5, <2>7 DEF Continues
<1>2. CASE i \notin c.iov.lasts
  BY <1>2 DEF Counted
<1> QED BY <1>1, <1>2

\* A return that the caller is told of.
LEMMA ReturnCall ==
  ASSUME OutputInv, NEW c \in Calls, NEW ok \in BOOLEAN, NEW lens \in Seq(Nat),
         Return(c, ok, lens), out' \in Seq(Nat), file' \in 0 .. FileSize, debug' = debug,
         c.fn # "none",
         c.fn # "sendfile" => out' = Bytes(0, Len(out')),
         c.fn = "sendfile" =>
           /\ \A k \in 1 .. Len(out') : out'[k] \in c.start .. c.start + c.count - 1
           /\ \A k \in 1 .. Len(out') - 1 : out'[k] < out'[k + 1]
           /\ debug => file' = IF c.ofs = NoOffset THEN c.old + c.count ELSE c.old
  PROVE  OutputInv'
<1>1. call' = NoCall /\ ret' = [call |-> c, ok |-> ok, lens |-> lens]
  BY DEF Return
<1>2. ret'.call = c /\ ret' \in [call : Calls, ok : BOOLEAN, lens : Seq(Nat)]
  BY <1>1
<1>3. NoCall.fn = "none" /\ NoCall.offset = 0 /\ NoCall.consumed = 0 /\ NoCall.count = 0
      /\ NoCall.i = 1 /\ NoCall.iov = NoIov
  BY DEF NoCall
<1>4. NoCall.i \in 1 .. Len(NoCall.iov.ends)
  BY <1>3 DEF NoIov
<1>5. TypeOK'
  <2>1. debug' \in Builds
    BY DEF OutputInv, TypeOK
  <2> QED BY <1>1, <1>2, <1>3, <1>4, <2>1, NoCallIs DEF TypeOK, BufferSize, BufferStart
<1>6. Current' = c
  BY <1>1, <1>2 DEF Current
<1>7. WrittenInOrder' /\ SendfileSendsPart'
  BY <1>1, <1>6 DEF WrittenInOrder, SendfileSendsPart
<1> QED BY <1>1, <1>3, <1>5, <1>7 DEF OutputInv
-----------------------------------------------------------------------------
(* The steps of the calls that write buffers *)

\* do_writev goes on at another place of the same buffers, all before it written.
LEMMA GoesOn ==
  ASSUME OutputInv, NEW c \in Calls, call' = c, c.fn \in {"writev", "sendmmsg"},
         c.iov \in Iovs, c.i \in 1 .. Len(c.iov.ends), c.offset <= BufferSize(c),
         c.consumed <= c.count, NEW m \in Nat, BufferStart(c) + c.offset = m,
         out' = Bytes(0, m), file' = file, debug' = debug, ret' = ret
  PROVE  OutputInv'
<1>1. out' \in Seq(Nat) /\ Len(out') = m
  BY BytesFromStart
<1>2. TypeOK'
  BY <1>1 DEF OutputInv, TypeOK, BufferSize, BufferStart
<1>3. call' # NoCall
  BY DEF NoCall
<1>4. Current' = c
  BY <1>3 DEF Current
<1>5. WrittenInOrder'
  BY <1>1, <1>4 DEF WrittenInOrder
<1>6. SendfileSendsPart'
  BY <1>4 DEF SendfileSendsPart
<1>7. WritevInv'
  BY DEF WritevInv, BufferStart
<1> QED BY <1>2, <1>5, <1>6, <1>7 DEF OutputInv

\* A call of the hook from do_writev.
LEMMA WriteNextKeeps ==
  ASSUME OutputInv, WriteNext PROVE OutputInv'
<1>1. TypeOK /\ WritevInv /\ call.fn \in {"writev", "sendmmsg"} /\ call \in Calls
  BY DEF OutputInv, WriteNext, TypeOK
<1>2. PICK n \in Nat : n = BufferStart(call) + call.offset
  BY <1>1, CallBuffer
<1>3. out = Bytes(0, n) /\ call.iov \in Iovs /\ call.consumed <= call.count
  BY <1>1, <1>2 DEF WritevInv, TypeOK
<1>4. out \in Seq(Nat) /\ Len(out) = n
  BY <1>3, BytesFromStart
<1>5. file' = file /\ debug' = debug /\ file \in 0 .. FileSize
  BY <1>1 DEF WriteNext, TypeOK
<1>6. ASSUME Return(call, FALSE, <<>>), out' = out
      PROVE  OutputInv'
  <2>1. out' = Bytes(0, Len(out')) /\ <<>> \in Seq(Nat) /\ out' \in Seq(Nat)
    BY <1>3, <1>4, <1>6
  <2> QED BY <1>1, <1>5, <1>6, <2>1, ReturnCall
<1>7. ASSUME NEW r \in hook_output(BufferRest(call)), r # -1, out' = out \o Bytes(n, r),
             NEW after, after = Advanced(call, r),
             NEW c, c = IF after.i = call.i THEN after ELSE Counted(after, call.i),
             IF c.i > Len(c.iov.ends) THEN Return(call, TRUE, c.lens)
             ELSE call' = c /\ ret' = ret
      PROVE  OutputInv'
  <2>1. r \in 0 .. BufferRest(call) /\ (r < BufferRest(call) => r > 0)
    <3>1. BufferRest(call) \in Nat
      BY <1>1, CallBuffer
    <3> QED BY <1>7, <3>1 DEF hook_output
  <2>2. PICK k \in Nat : k = r
    BY <2>1, <1>1, CallBuffer
  <2>3. n + k \in Nat /\ out' = Bytes(0, n + k)
    <3>1. out' = Bytes(0, n) \o Bytes(n, k)
      BY <1>3, <1>7, <2>2
    <3>2. Bytes(0, n) \o Bytes(n, k) = Bytes(0, n + k)
      BY BytesJoin, Zenon
    <3>3. n + k \in Nat
      OBVIOUS
    <3> QED BY <3>1, <3>2, <3>3, Zenon
  <2>4. PICK m \in Nat : m = n + k
    BY <2>3
  <2>5. out' = Bytes(0, m) /\ out' \in Seq(Nat) /\ Len(out') = m
    BY <2>3, <2>4, BytesFromStart
  <2>6. /\ after \in Calls /\ after.iov = call.iov /\ after.fn = call.fn
        /\ after.consumed = call.consumed /\ after.count = call.count
        /\ \/ /\ after.i = call.i
              /\ after.offset = call.offset + r /\ after.offset <= BufferSize(call)
           \/ /\ after.i = call.i + 1 /\ after.offset = 0
              /\ call.offset + r = BufferSize(call)
    BY <1>1, <1>7, <2>1, AdvancedCall
  <2>7. call.i \in 1 .. Len(call.iov.ends) /\ Len(call.iov.ends) \in Nat /\ call.offset \in Nat
        /\ BufferStart(call) \in Nat /\ BufferSize(call) \in Nat
        /\ BufferSize(call) = call.iov.ends[call.i] - BufferStart(call)
    BY <1>1, CallBuffer
  <2>8. CASE after.i = call.i
    <3>1. c = after /\ c.iov = call.iov /\ c.i = call.i
      BY <1>7, <2>6, <2>8
    <3>2. BufferStart(c) = BufferStart(call) /\ BufferSize(c) = BufferSize(call)
      BY <3>1 DEF BufferStart, BufferSize
    <3>3. call' = c /\ ret' = ret
      <4>1. ~(c.i > Len(c.iov.ends))
        BY <2>7, <3>1
      <4> QED BY <1>7, <4>1
    <3>4. c.offset = call.offset + r /\ c.offset <= BufferSize(c)
      BY <2>6, <2>7, <2>8, <3>1, <3>2
    <3>5. BufferStart(c) + c.offset = m
      BY <1>2, <2>2, <2>4, <2>7, <3>2, <3>4
    <3> QED BY <1>1, <1>3, <1>5, <2>5, <2>6, <2>7, <3>1, <3>3, <3>4, <3>5, GoesOn
  <2>9. CASE after.i # call.i
    <3>1. c = Counted(after, call.i)
      BY <1>7, <2>9
    <3>2. c \in Calls /\ c.iov = call.iov /\ c.fn = call.fn /\ c.i = call.i + 1 /\ c.offset = 0
          /\ c.consumed = call.consumed /\ c.count = call.count
      BY <2>6, <2>9, <3>1, CountedCall
    <3>3. CASE c.i > Len(c.iov.ends)
      <4>1. Return(call, TRUE, c.lens) /\ c.lens \in Seq(Nat)
        BY <1>7, <3>2, <3>3 DEF Calls
      <4>2. out' = Bytes(0, Len(out'))
        BY <2>5
      <4> QED BY <1>1, <1>5, <2>5, <3>2, <4>1, <4>2, ReturnCall
    <3>4. CASE ~(c.i > Len(c.iov.ends))
      <4>1. call' = c /\ ret' = ret
        BY <1>7, <3>4
      <4>2. c.i \in 1 .. Len(c.iov.ends)
        BY <2>7, <3>2, <3>4
      <4>3. BufferStart(c) = call.iov.ends[call.i]
        BY <2>7, <3>2 DEF BufferStart
      <4>4. BufferStart(c) + c.offset = m
        <5>1. call.iov.ends[call.i] \in Nat
          BY <1>3, <2>7, BufferBounds
        <5>2. BufferSize(call) = call.offset + r
          BY <2>6, <2>9
        <5>3. call.iov.ends[call.i] = BufferStart(call) + BufferSize(call)
          BY <2>7, <5>1
        <5>4. BufferStart(c) = n + k
          BY <1>2, <2>2, <2>7, <4>3, <5>2, <5>3
        <5> QED BY <2>4, <3>2, <5>4
      <4>5. c.offset <= BufferSize(c)
        <5>1. c.iov.ends[c.i] \in Nat /\ (c.i > 1 => c.iov.ends[c.i - 1] <= c.iov.ends[c.i])
          BY <1>3, <3>2, <4>2, BufferBounds
        <5>2. c.i \in Nat /\ c.i > 1 /\ c.iov.ends[c.i - 1] = BufferStart(c)
          BY <2>7, <3>2 DEF BufferStart
        <5>3. BufferStart(c) \in Nat
          BY <1>3, <2>7, <4>3, BufferBounds
        <5> QED BY <3>2, <5>1, <5>2, <5>3 DEF BufferSize
      <4> QED BY <1>1, <1>3, <1>5, <2>5, <3>2, <4>1, <4>2, <4>4, <4>5, GoesOn
    <3> QED BY <3>3, <3>4
  <2> QED BY <2>8, <2>9
<1> QED
  <2>1. PICK r \in hook_output(BufferRest(call)) :
          \/ r = -1 /\ Return(call, FALSE, <<>>) /\ UNCHANGED out
          \/ /\ r # -1
             /\ out' = out \o Bytes(BufferStart(call) + call.offset, r)
             /\ LET after == Advanced(call, r)
                    c     == IF after.i = call.i THEN after ELSE Counted(after, call.i)
                IN  IF c.i > Len(c.iov.ends) THEN Return(call, TRUE, c.lens)
                    ELSE call' = c /\ UNCHANGED ret
    BY DEF WriteNext
  <2>2. CASE r = -1
    BY <1>6, <2>1, <2>2
  <2>3. CASE r # -1
    <3> DEFINE after == Advanced(call, r)
    <3> DEFINE c == IF after.i = call.i THEN after ELSE Counted(after, call.i)
    <3>1. out' = out \o Bytes(n, r)
      BY <1>2, <2>1, <2>3
    <3>2. IF c.i > Len(c.iov.ends) THEN Return(call, TRUE, c.lens) ELSE call' = c /\ ret' = ret
      BY <2>1, <2>3
    <3> QED BY <1>7, <2>3, <3>1, <3>2
  <2> QED BY <2>2, <2>3

\* NoCall with a function, buffers and a part of a file is a call.
LEMMA Begun ==
  ASSUME NEW F, NEW V, NEW L, NEW S, NEW D, NEW O, NEW T, NEW K, NEW I,
         NEW c \in [fn : F, iov : V, i : I, offset : I, written : I, lens : L, start : S,
                    old : D, ofs : O, count : T, consumed : K],
         NEW fn \in F, NEW iov \in V, NEW start \in S, NEW old \in D, NEW ofs \in O, NEW n \in T
  PROVE  /\ [c EXCEPT !.fn = fn] \in [fn : F, iov : V, i : I, offset : I, written : I,
                 lens : L, start : S, old : D, ofs : O, count : T, consumed : K]
         /\ [c EXCEPT !.fn = fn, !.iov = iov] \in [fn : F, iov : V, i : I, offset : I,
                 written : I, lens : L, start : S, old : D, ofs : O, count : T, consumed : K]
         /\ [c EXCEPT !.fn = fn, !.start = start, !.old = old, !.ofs = ofs, !.count = n]
              \in [fn : F, iov : V, i : I, offset : I, written : I, lens : L, start : S,
                   old : D, ofs : O, count : T, consumed : K]
OBVIOUS

\* The bytes of a call that has written nothing.
LEMMA NothingOut ==
  <<>> \in Seq(Nat) /\ Len(<<>>) = 0 /\ <<>> = Bytes(0, 0)
BY DEF Bytes

\* writev, sendmsg and sendmmsg begin at the first byte of their buffers.
LEMMA BeginKeeps ==
  ASSUME OutputInv, NEW fn \in {"writev", "sendmmsg"}, NEW iov \in Iovs, Begin(fn, iov)
  PROVE  OutputInv'
<1> DEFINE c == [NoCall EXCEPT !.fn = fn, !.iov = iov]
<1>1. c \in Calls
  BY NoCallIs, Begun DEF Calls
<1>2. c.fn = fn /\ c.iov = iov /\ c.i = 1 /\ c.offset = 0 /\ c.consumed = 0 /\ c.count = 0
  BY DEF NoCall
<1>3. iov.ends \in Seq(Nat) /\ iov.ends # <<>>
  BY OutputAssumption
<1>4. c.i \in 1 .. Len(c.iov.ends) /\ iov.ends[1] \in Nat
  BY <1>2, <1>3
<1>5. BufferStart(c) = 0 /\ BufferSize(c) = iov.ends[1]
  BY <1>2, <1>4 DEF BufferStart, BufferSize
<1>6. call' = c /\ out' = Bytes(0, 0) /\ file' = file /\ debug' = debug /\ ret' = ret
  BY NothingOut DEF Begin
<1> HIDE DEF c
<1> QED BY <1>1, <1>2, <1>4, <1>5, <1>6, GoesOn

\* write, send and sendto: one call of the hook, begun and ended in a step.
LEMMA WriteKeeps ==
  ASSUME OutputInv, Write
  PROVE  OutputInv'
<1> DEFINE c == [NoCall EXCEPT !.fn = "write"]
<1>1. c \in Calls
  BY NoCallIs, Begun DEF Calls
<1>2. c.fn = "write"
  BY DEF NoCall
<1>3. PICK len \in 0 .. MaxLen : \E r \in hook_output(len) :
        /\ out' = Bytes(0, r)
        /\ Return(c, r # -1, IF r = -1 THEN <<>> ELSE <<r>>)
  BY DEF Write
<1>4. PICK r \in hook_output(len) :
        out' = Bytes(0, r) /\ Return(c, r # -1, IF r = -1 THEN <<>> ELSE <<r>>)
  BY <1>3
<1> HIDE DEF c
<1>5. r = -1 \/ r \in Nat
  BY HookResult, OutputAssumption
<1>6. file' \in 0 .. FileSize /\ debug' = debug
  BY DEF OutputInv, TypeOK, Write
<1>7. CASE r = -1
  <2>1. out' = <<>>
    BY <1>4, <1>7 DEF Bytes
  <2>2. Return(c, FALSE, <<>>)
    BY <1>4, <1>7
  <2>3. out' = Bytes(0, Len(out')) /\ out' \in Seq(Nat) /\ <<>> \in Seq(Nat)
    BY <2>1, NothingOut
  <2> QED BY <1>1, <1>2, <1>6, <2>2, <2>3, ReturnCall
<1>8. CASE r # -1
  <2>1. PICK n \in Nat : n = r
    BY <1>5, <1>8
  <2>2. out' = Bytes(0, n) /\ out' \in Seq(Nat) /\ Len(out') = n
    BY <1>4, <2>1, BytesFromStart
  <2>3. Return(c, TRUE, <<n>>) /\ <<n>> \in Seq(Nat)
    <3>1. (r # -1) = TRUE /\ (IF r = -1 THEN <<>> ELSE <<r>>) = <<n>>
      BY <1>8, <2>1
    <3>2. Return(c, TRUE, <<n>>)
      BY <1>4, <3>1 DEF Return
    <3>3. <<n>> \in Seq(Nat)
      OBVIOUS
    <3> QED BY <3>2, <3>3
  <2>4. out' = Bytes(0, Len(out'))
    BY <2>2
  <2> QED BY <1>1, <1>2, <1>6, <2>2, <2>3, <2>4, ReturnCall
<1> QED BY <1>7, <1>8
-----------------------------------------------------------------------------
(* The steps of sendfile *)

\* A call of sendfile that has read on is a call.
LEMMA Consumes ==
  ASSUME NEW F, NEW V, NEW L, NEW S, NEW D, NEW O, NEW T, NEW K, NEW I,
         NEW c \in [fn : F, iov : V, i : I, offset : I, written : I, lens : L, start : S,
                    old : D, ofs : O, count : T, consumed : K],
         NEW k \in K
  PROVE  [c EXCEPT !.consumed = k] \in [fn : F, iov : V, i : I, offset : I, written : I,
                 lens : L, start : S, old : D, ofs : O, count : T, consumed : K]
OBVIOUS

\* What the hook takes of a chunk of n bytes comes after what it took before.
LEMMA AscendingGrows ==
  ASSUME NEW s \in Seq(Nat), NEW a \in Nat, NEW p \in Nat, NEW n \in Nat, a <= p,
         NEW r, r = -1 \/ r \in 0 .. n, Ascending(s, a, p)
  PROVE  s \o Bytes(p, r) \in Seq(Nat) /\ Ascending(s \o Bytes(p, r), a, p + n)
<1>1. CASE r = -1
  <2>1. Bytes(p, r) = <<>>
    BY <1>1 DEF Bytes
  <2>2. s \o Bytes(p, r) = s
    BY <2>1
  <2>3. Ascending(s, a, p + n)
    BY DEF Ascending
  <2> QED BY <2>2, <2>3
<1>2. CASE r \in 0 .. n
  <2>1. PICK k \in Nat : k = r /\ k <= n
    BY <1>2
  <2>2. PICK t \in Seq(Nat) : t = Bytes(p, k) /\ Len(t) = k /\ \A j \in 1 .. k : t[j] = p + j - 1
    BY BytesAre
  <2>3. PICK u \in Seq(Nat) : u = s \o t
    <3>1. s \o t \in Seq(Nat)
      BY ConcatProperties
    <3> QED BY <3>1
  <2>4. PICK l \in Nat : l = Len(s)
    OBVIOUS
  <2>5. Len(u) = l + k /\ (\A j \in 1 .. l : u[j] = s[j])
        /\ (\A j \in l + 1 .. l + k : u[j] = t[j - l])
    BY <2>2, <2>3, <2>4
  <2>6. \A j \in l + 1 .. l + k : u[j] = p + (j - l) - 1
    BY <2>2, <2>5
  <2>7. \A j \in 1 .. l : s[j] \in a .. p - 1
    BY <2>4 DEF Ascending
  <2>8. \A j \in 1 .. l - 1 : s[j] < s[j + 1]
    BY <2>4 DEF Ascending
  <2>9. \A j \in 1 .. Len(u) : u[j] \in a .. p + n - 1
    <3> SUFFICES ASSUME NEW j \in 1 .. Len(u) PROVE u[j] \in a .. p + n - 1
      OBVIOUS
    <3>1. CASE j <= l
      <4>1. j \in 1 .. l /\ u[j] = s[j]
        BY <2>5, <3>1
      <4>2. s[j] \in a .. p - 1
        BY <2>7, <4>1
      <4> QED BY <4>1, <4>2
    <3>2. CASE j > l
      <4>1. j - l \in 1 .. k /\ u[j] = p + (j - l) - 1
        BY <2>5, <2>6, <3>2
      <4> QED BY <2>1, <4>1
    <3> QED BY <3>1, <3>2
  <2>10. ASSUME NEW j \in 1 .. Len(u) - 1 PROVE u[j] < u[j + 1]
    <3>1. CASE j < l
      BY <2>5, <2>8, <3>1
    <3>2. CASE j = l
      <4>1. u[j] \in a .. p - 1
        <5>1. j \in 1 .. l /\ u[j] = s[j]
          BY <2>5, <3>2
        <5>2. s[j] \in a .. p - 1
          BY <2>7, <5>1
        <5> QED BY <5>1, <5>2
      <4>2. u[j + 1] = p
        BY <2>5, <2>6, <3>2
      <4> QED BY <4>1, <4>2
    <3>3. CASE j > l
      <4>1. u[j] = p + (j - l) - 1 /\ u[j + 1] = p + (j + 1 - l) - 1
        BY <2>5, <2>6, <3>3
      <4> QED BY <4>1
    <3> QED BY <3>1, <3>2, <3>3
  <2>11. Ascending(u, a, p + n)
    BY <2>9, <2>10 DEF Ascending
  <2>12. u = s \o Bytes(p, r)
    BY <2>1, <2>2, <2>3
  <2> QED BY <2>11, <2>12
<1> QED BY <1>1, <1>2

\* sendfile moves to the part it was asked for, or returns in a release build.
LEMMA SendfileKeeps ==
  ASSUME OutputInv, Sendfile
  PROVE  OutputInv'
<1>1. file \in 0 .. FileSize /\ debug' = debug /\ FileSize \in Nat
  BY OutputAssumption DEF OutputInv, TypeOK, Sendfile
<1>2. PICK ofs \in {NoOffset} \cup 0 .. FileSize :
        LET start == IF ofs = NoOffset THEN file ELSE ofs
        IN  \E count \in 0 .. FileSize - start :
              LET c == [NoCall EXCEPT !.fn = "sendfile", !.start = start, !.old = file,
                                      !.ofs = ofs, !.count = count]
              IN  /\ out' = <<>>
                  /\ \/ debug /\ call' = c /\ file' = start /\ UNCHANGED ret
                     \/ ~debug /\ Return(c, TRUE, <<count>>) /\ UNCHANGED file
  BY DEF Sendfile
<1> DEFINE start == IF ofs = NoOffset THEN file ELSE ofs
<1>3. start \in 0 .. FileSize /\ (ofs = NoOffset => start = file)
  BY <1>1
<1>4. PICK count \in 0 .. FileSize - start :
        LET c == [NoCall EXCEPT !.fn = "sendfile", !.start = start, !.old = file,
                                !.ofs = ofs, !.count = count]
        IN  /\ out' = <<>>
            /\ \/ debug /\ call' = c /\ file' = start /\ UNCHANGED ret
               \/ ~debug /\ Return(c, TRUE, <<count>>) /\ UNCHANGED file
  BY <1>2
<1> DEFINE c == [NoCall EXCEPT !.fn = "sendfile", !.start = start, !.old = file,
                               !.ofs = ofs, !.count = count]
<1> HIDE DEF start
<1>5. count \in 0 .. FileSize /\ start + count <= FileSize /\ count \in Nat
  BY <1>1, <1>3
<1>6. c \in Calls
  BY <1>1, <1>3, <1>5, NoCallIs, Begun DEF Calls
<1>7. c.fn = "sendfile" /\ c.start = start /\ c.old = file /\ c.ofs = ofs /\ c.count = count
  BY DEF NoCall
<1>8. c.iov = NoIov /\ c.i = 1 /\ c.offset = 0 /\ c.consumed = 0
  BY DEF NoCall
<1>9. out' = <<>> /\ (\/ debug /\ call' = c /\ file' = start /\ ret' = ret
                      \/ ~debug /\ Return(c, TRUE, <<count>>) /\ file' = file)
  BY <1>4
<1> HIDE DEF c
<1>10. CASE debug /\ call' = c /\ file' = start /\ ret' = ret
  <2>1. c.i \in 1 .. Len(c.iov.ends) /\ BufferSize(c) = 0
    BY <1>8 DEF BufferSize, BufferStart, NoIov
  <2>2. TypeOK'
    <3>1. debug' \in Builds /\ ret' \in [call : Calls, ok : BOOLEAN, lens : Seq(Nat)]
      BY <1>1, <1>10 DEF OutputInv, TypeOK
    <3>2. file' \in 0 .. FileSize /\ out' \in Seq(Nat) /\ call' \in Calls
      BY <1>3, <1>6, <1>9, <1>10, NothingOut
    <3>3. call'.i \in 1 .. Len(call'.iov.ends) /\ call'.offset <= BufferSize(call)'
      BY <1>8, <1>10, <2>1 DEF BufferSize, BufferStart
    <3>4. call'.consumed <= call'.count
      BY <1>5, <1>7, <1>8, <1>10
    <3> QED BY <3>1, <3>2, <3>3, <3>4 DEF TypeOK
  <2>3. SendfileInv'
    BY <1>3, <1>5, <1>7, <1>8, <1>9, <1>10, NothingOut DEF SendfileInv, Ascending
  <2>4. call' # NoCall
    BY <1>7, <1>10 DEF NoCall
  <2>5. Current' = c
    BY <1>10, <2>4 DEF Current
  <2>6. WrittenInOrder' /\ SendfileSendsPart'
    BY <1>7, <1>9, <2>4, <2>5, NothingOut DEF WrittenInOrder, SendfileSendsPart
  <2> QED BY <1>7, <1>10, <2>2, <2>3, <2>6 DEF OutputInv
<1>11. CASE ~debug /\ Return(c, TRUE, <<count>>) /\ file' = file
  <2>1. <<count>> \in Seq(Nat) /\ out' \in Seq(Nat) /\ Len(out') = 0
    BY <1>5, <1>9, NothingOut
  <2>2. file' \in 0 .. FileSize
    BY <1>1, <1>11
  <2>3. /\ \A k \in 1 .. Len(out') : out'[k] \in c.start .. c.start + c.count - 1
        /\ \A k \in 1 .. Len(out') - 1 : out'[k] < out'[k + 1]
    BY <2>1
  <2> QED BY <1>1, <1>6, <1>7, <1>11, <2>1, <2>2, <2>3, ReturnCall
<1> QED BY <1>9, <1>10, <1>11

\* sendfile has read all of its part.
LEMMA SendfileEndKeeps ==
  ASSUME OutputInv, SendfileEnd
  PROVE  OutputInv'
<1>1. SendfileInv /\ call.fn = "sendfile" /\ call \in Calls /\ file \in 0 .. FileSize
  BY DEF OutputInv, SendfileEnd, TypeOK
<1>2. /\ call.start \in 0 .. FileSize /\ call.old \in 0 .. FileSize /\ call.count \in 0 .. FileSize
      /\ call.consumed \in 0 .. FileSize /\ FileSize \in Nat
  BY <1>1, OutputAssumption DEF Calls
<1>3. call.consumed = call.count
  BY <1>2 DEF OutputInv, TypeOK, SendfileEnd
<1>4. file' = IF call.ofs = NoOffset THEN call.old + call.count ELSE call.old
  BY <1>1, <1>3 DEF SendfileInv, SendfileEnd
<1>5. file' \in 0 .. FileSize
  BY <1>1, <1>2 DEF SendfileEnd
<1>6. out' = out /\ debug' = debug /\ Return(call, TRUE, <<call.count>>) /\ out \in Seq(Nat)
  BY DEF SendfileEnd, OutputInv, TypeOK
<1>7. /\ \A k \in 1 .. Len(out') : out'[k] \in call.start .. call.start + call.count - 1
      /\ \A k \in 1 .. Len(out') - 1 : out'[k] < out'[k + 1]
  <2>1. out' = out /\ Ascending(out, call.start, file) /\ file = call.start + call.count
    BY <1>1, <1>3, <1>6 DEF SendfileInv
  <2> QED BY <1>2, <2>1 DEF Ascending
<1>8. <<call.count>> \in Seq(Nat)
  BY <1>2
<1> QED BY <1>1, <1>4, <1>5, <1>6, <1>7, <1>8, ReturnCall

\* One chunk: no more is read than is left of the part, or of the file.
LEMMA SendfileNextKeeps ==
  ASSUME OutputInv, SendfileNext
  PROVE  OutputInv'
<1>1. SendfileInv /\ call.fn = "sendfile" /\ call \in Calls /\ file \in 0 .. FileSize
      /\ out \in Seq(Nat)
  BY DEF OutputInv, SendfileNext, TypeOK
<1>2. /\ call.start \in 0 .. FileSize /\ call.count \in 0 .. FileSize
      /\ call.consumed \in 0 .. FileSize /\ FileSize \in Nat /\ ChunkSize \in Nat \ {0}
  BY <1>1, OutputAssumption DEF Calls
<1>3. call.consumed < call.count
  BY DEF SendfileNext
<1>4. PICK n \in Nat : n = IF Chunk(call) < FileSize - file THEN Chunk(call) ELSE FileSize - file
  BY <1>1, <1>2, <1>3 DEF Chunk
<1>5. n <= call.count - call.consumed /\ file + n <= FileSize
  BY <1>1, <1>2, <1>3, <1>4 DEF Chunk
<1>6. PICK r \in hook_output(n) : out' = out \o Bytes(file, r)
  BY <1>4 DEF SendfileNext
<1>7. file' = file + n /\ call' = [call EXCEPT !.consumed = call.consumed + n]
      /\ debug' = debug /\ ret' = ret
  BY <1>4 DEF SendfileNext
<1>8. call.consumed + n \in 0 .. FileSize
  BY <1>1, <1>2, <1>5 DEF SendfileInv
<1>9. call' \in Calls
  BY <1>1, <1>7, <1>8, Consumes DEF Calls
<1>10. /\ call'.fn = "sendfile" /\ call'.start = call.start /\ call'.old = call.old
       /\ call'.ofs = call.ofs /\ call'.count = call.count
       /\ call'.consumed = call.consumed + n
  BY <1>1, <1>7 DEF Calls
<1>11. call'.iov = call.iov /\ call'.i = call.i /\ call'.offset = call.offset
  BY <1>1, <1>7 DEF Calls
<1>12. out' \in Seq(Nat) /\ Ascending(out', call'.start, file')
  <2>1. r = -1 \/ r \in 0 .. n
    BY HookResult
  <2>2. file \in Nat /\ call.start \in Nat /\ call.start <= file
    BY <1>1, <1>2 DEF SendfileInv
  <2>3. Ascending(out, call.start, file)
    BY <1>1 DEF SendfileInv
  <2>4. PICK p \in Nat, a \in Nat, s \in Seq(Nat) : p = file /\ a = call.start /\ s = out
    BY <1>1, <2>2
  <2>5. s \o Bytes(p, r) \in Seq(Nat) /\ Ascending(s \o Bytes(p, r), a, p + n)
    BY <2>1, <2>2, <2>3, <2>4, AscendingGrows
  <2>6. out' \in Seq(Nat) /\ Ascending(out', a, p + n)
    BY <1>6, <2>4, <2>5
  <2> QED BY <1>7, <1>10, <2>4, <2>6
<1>13. TypeOK'
  <2>1. debug' \in Builds /\ ret' \in [call : Calls, ok : BOOLEAN, lens : Seq(Nat)]
    BY <1>7 DEF OutputInv, TypeOK
  <2>2. file' \in 0 .. FileSize
    BY <1>1, <1>2, <1>5, <1>7
  <2>3. call'.i \in 1 .. Len(call'.iov.ends) /\ call'.offset <= BufferSize(call)'
    BY <1>11 DEF OutputInv, TypeOK, BufferSize, BufferStart
  <2>4. call'.consumed <= call'.count
    BY <1>2, <1>5, <1>10
  <2> QED BY <1>9, <1>12, <2>1, <2>2, <2>3, <2>4 DEF TypeOK
<1>14. SendfileInv'
  <2>1. file' = call'.start + call'.consumed
    BY <1>1, <1>2, <1>7, <1>10 DEF SendfileInv
  <2> QED BY <1>1, <1>10, <1>12, <2>1 DEF SendfileInv
<1>15. call' # NoCall
  BY <1>10 DEF NoCall
<1>16. Current' = call'
  BY <1>15 DEF Current
<1>17. WrittenInOrder'
  BY <1>10, <1>16 DEF WrittenInOrder
<1>18. SendfileSendsPart'
  <2>1. file' <= call.start + call.count
    BY <1>1, <1>2, <1>5, <1>7 DEF SendfileInv
  <2>2. call'.start \in Nat /\ call'.count \in Nat /\ file' <= call'.start + call'.count /\ file' \in Nat
    BY <1>1, <1>2, <1>7, <1>10, <2>1
  <2>3. \A k \in 1 .. Len(out') : out'[k] \in call'.start .. call'.start + call'.count - 1
    BY <1>12, <2>2 DEF Ascending
  <2>4. \A k \in 1 .. Len(out') - 1 : out'[k] < out'[k + 1]
    BY <1>12 DEF Ascending
  <2> QED BY <1>15, <1>16, <2>3, <2>4 DEF SendfileSendsPart
<1> QED BY <1>10, <1>13, <1>14, <1>17, <1>18 DEF OutputInv
-----------------------------------------------------------------------------
(* The theorems *)

\* Before the first call.
LEMMA OutputInit ==
  ASSUME Init
  PROVE  OutputInv
<1>1. NoCall.fn = "none" /\ NoCall.i = 1 /\ NoCall.iov = NoIov /\ NoCall.offset = 0
      /\ NoCall.consumed = 0 /\ NoCall.count = 0
  BY DEF NoCall
<1>2. TypeOK
  <2>1. debug \in Builds /\ file \in 0 .. FileSize
    BY OutputAssumption DEF Init
  <2>2. call \in Calls /\ out \in Seq(Nat) /\ ret \in [call : Calls, ok : BOOLEAN, lens : Seq(Nat)]
    BY NoCallIs, NothingOut DEF Init
  <2>3. call.i \in 1 .. Len(call.iov.ends) /\ call.offset <= BufferSize(call)
        /\ call.consumed <= call.count
    BY <1>1, NoCallIs DEF Init, NoIov
  <2> QED BY <2>1, <2>2, <2>3 DEF TypeOK
<1>3. Current = NoCall
  BY DEF Init, Current
<1>4. WrittenInOrder /\ SendfileSendsPart
  BY <1>1, <1>3, NothingOut DEF Init, WrittenInOrder, SendfileSendsPart
<1> QED BY <1>1, <1>2, <1>4 DEF Init, OutputInv

\* Steps that change nothing.
LEMMA OutputStutters ==
  ASSUME OutputInv, UNCHANGED vars
  PROVE  OutputInv'
<1>1. debug' = debug /\ file' = file /\ call' = call /\ out' = out /\ ret' = ret
  BY DEF vars
<1>2. TypeOK' = TypeOK
  BY <1>1 DEF TypeOK, BufferSize, BufferStart
<1>3. WritevInv' = WritevInv /\ SendfileInv' = SendfileInv
  BY <1>1 DEF WritevInv, SendfileInv, Ascending, BufferStart
<1>4. WrittenInOrder' = WrittenInOrder /\ SendfileSendsPart' = SendfileSendsPart
  BY <1>1 DEF WrittenInOrder, SendfileSendsPart, Current
<1> QED BY <1>1, <1>2, <1>3, <1>4 DEF OutputInv

\* The invariant holds in every reachable state: each call of the hook and each chunk of a
\* file keeps the account of what was written.
THEOREM OutputInvariant == Spec => []OutputInv
<1>1. Init => OutputInv
  BY OutputInit
<1>2. OutputInv /\ [Next]_vars => OutputInv'
  <2> SUFFICES ASSUME OutputInv, [Next]_vars PROVE OutputInv'
    OBVIOUS
  <2>1. CASE Write
    BY <2>1, WriteKeeps
  <2>2. CASE Writev
    BY <2>2, BeginKeeps DEF Writev
  <2>3. CASE Sendmmsg
    BY <2>3, BeginKeeps DEF Sendmmsg
  <2>4. CASE WriteNext
    BY <2>4, WriteNextKeeps
  <2>5. CASE Sendfile
    BY <2>5, SendfileKeeps
  <2>6. CASE SendfileNext
    BY <2>6, SendfileNextKeeps
  <2>7. CASE SendfileEnd
    BY <2>7, SendfileEndKeeps
  <2>8. CASE UNCHANGED vars
    BY <2>8, OutputStutters
  <2> QED BY <2>1, <2>2, <2>3, <2>4, <2>5, <2>6, <2>7, <2>8 DEF Next, CallGoesOn
<1> QED BY <1>1, <1>2, PTL DEF Spec

\* The types: do_writev never indexes beyond its iovec or reads past a buffer, and sendfile
\* counts no more than it was asked for.
THEOREM OutputTypeCorrect == Spec => []TypeOK
<1>1. OutputInv => TypeOK
  BY DEF OutputInv
<1> QED BY <1>1, OutputInvariant, PTL

\* Whatever part of a buffer the hook takes, the bytes it got are the first ones of the
\* buffers, in order, none twice.
THEOREM WritesInOrder == Spec => []WrittenInOrder
<1>1. OutputInv => WrittenInOrder
  BY DEF OutputInv
<1> QED BY <1>1, OutputInvariant, PTL

\* sendfile hands the hook only bytes of the part of the file it was asked for, in order,
\* and leaves the file where its caller expects it.
THEOREM SendfileWithinPart == Spec => []SendfileSendsPart
<1>1. OutputInv => SendfileSendsPart
  BY DEF OutputInv
<1> QED BY <1>1, OutputInvariant, PTL
-----------------------------------------------------------------------------
(* What sendmmsg reports of each message *)

\* the messages whose last buffer is before i, and where the message of buffer i begins
Done(iov, i) == {l \in iov.lasts : l < i}
Base(iov, i) == IF Done(iov, i) = {} THEN 0 ELSE iov.ends[Max(Done(iov, i))]

\* After p bytes, at buffer i: written counts from the begin of the message, and each
\* message before it has its length in lens.
Account(c, i, p) ==
  /\ Base(c.iov, i) \in Nat
  /\ c.written = p - Base(c.iov, i)
  /\ Len(c.lens) = Cardinality(Done(c.iov, i))
  /\ \A l \in Done(c.iov, i) :
       c.lens[Cardinality({m \in c.iov.lasts : m <= l})] = MessageLength(c.iov, l)

\* What is reported, and what will be.
ReportInv ==
  /\ call.fn \in {"writev", "sendmmsg"} => Account(call, call.i, BufferStart(call) + call.offset)
  /\ ReportedIsWritten

\* The greatest of some numbers is the one that no other exceeds.
LEMMA MaxIs ==
  ASSUME NEW S \in SUBSET Int, NEW m \in S, \A y \in S : m >= y
  PROVE  Max(S) = m
<1> DEFINE Greatest(x) == \A y \in S : x >= y
<1>1. \A x \in S : Greatest(x) => x = m
  <2> SUFFICES ASSUME NEW x \in S, Greatest(x) PROVE x = m
    OBVIOUS
  <2>1. x >= m /\ m >= x /\ x \in Int /\ m \in Int
    OBVIOUS
  <2> QED BY <2>1
<1>2. Greatest(m)
  OBVIOUS
<1>3. Max(S) \in S /\ Greatest(Max(S))
  <2>1. Max(S) = CHOOSE x \in S : Greatest(x)
    BY DEF Max
  <2> HIDE DEF Greatest
  <2>2. (CHOOSE x \in S : Greatest(x)) \in S /\ Greatest(CHOOSE x \in S : Greatest(x))
    BY <1>2
  <2> QED BY <2>1, <2>2
<1> HIDE DEF Greatest
<1> QED BY <1>1, <1>3

\* The messages that end by some buffer are finitely many.
LEMMA LastsAreFinite ==
  ASSUME NEW iov \in Iovs
  PROVE  /\ iov.ends \in Seq(Nat) /\ Len(iov.ends) \in Nat /\ Len(iov.ends) \in iov.lasts
         /\ iov.lasts \subseteq 1 .. Len(iov.ends) /\ IsFiniteSet(iov.lasts)
         /\ \A T \in SUBSET iov.lasts : IsFiniteSet(T) /\ Cardinality(T) \in Nat
<1>1. iov.ends \in Seq(Nat) /\ iov.lasts \subseteq 1 .. Len(iov.ends) /\ Len(iov.ends) \in iov.lasts
  BY OutputAssumption
<1>2. Len(iov.ends) \in Nat
  BY <1>1
<1>3. IsFiniteSet(1 .. Len(iov.ends))
  BY <1>2, FS_Interval
<1>4. IsFiniteSet(iov.lasts)
  BY <1>1, <1>3, FS_Subset
<1>5. \A T \in SUBSET iov.lasts : IsFiniteSet(T) /\ Cardinality(T) \in Nat
  BY <1>4, FS_Subset, FS_CardinalityType
<1> QED BY <1>1, <1>2, <1>4, <1>5

\* The message that ends with buffer i goes into the account.
LEMMA CountedAccount ==
  ASSUME NEW c \in Calls, c.iov \in Iovs, NEW i \in 1 .. Len(c.iov.ends),
         Account(c, i, c.iov.ends[i]), NEW d, d = Counted(c, i)
  PROVE  Account(d, i + 1, c.iov.ends[i])
<1>1. PICK iov \in Iovs : iov = c.iov
  OBVIOUS
<1> DEFINE done == Done(iov, i)
           next == Done(iov, i + 1)
           upto(l) == {m \in iov.lasts : m <= l}
<1>2. /\ iov.ends \in Seq(Nat) /\ iov.lasts \subseteq 1 .. Len(iov.ends)
      /\ i \in Nat /\ iov.ends[i] \in Nat /\ Len(iov.ends) \in Nat
  BY <1>1, LastsAreFinite
<1>3. \A T \in SUBSET iov.lasts : IsFiniteSet(T) /\ Cardinality(T) \in Nat
  BY LastsAreFinite
<1>4. next = upto(i) /\ \A l \in iov.lasts : l \in Nat
  BY <1>2 DEF Done
<1>5. /\ Base(iov, i) \in Nat /\ c.written = iov.ends[i] - Base(iov, i)
      /\ Len(c.lens) = Cardinality(done)
      /\ \A l \in done : c.lens[Cardinality(upto(l))] = MessageLength(iov, l)
  BY <1>1 DEF Account
<1>6. MessageLength(iov, i) = iov.ends[i] - Base(iov, i)
  BY DEF MessageLength, Base, Done
<1>7. c.lens \in Seq(Nat) /\ c.written \in Nat
  BY DEF Calls
<1>8. CASE i \in iov.lasts
  <2>1. next = done \cup {i} /\ i \notin done
    BY <1>2, <1>4, <1>8 DEF Done
  <2>2. Cardinality(next) = Cardinality(done) + 1
    <3>1. IsFiniteSet(done)
      BY <1>3 DEF Done
    <3> QED BY <2>1, <3>1, FS_AddElement
  <2>3. Max(next) = i
    <3>1. next \in SUBSET Int /\ i \in next /\ \A y \in next : i >= y
      BY <1>2, <1>4, <2>1
    <3> QED BY <3>1, MaxIs
  <2>4. Base(iov, i + 1) = iov.ends[i]
    BY <2>1, <2>3 DEF Base
  <2>5. d = [c EXCEPT !.lens = Append(c.lens, c.written), !.written = 0]
    BY <1>1, <1>8 DEF Counted
  <2>6. d.iov = iov /\ d.lens = Append(c.lens, c.written) /\ d.written = 0
    BY <1>1, <2>5 DEF Calls
  <2>7. Len(d.lens) = Cardinality(next)
    BY <1>5, <1>7, <2>2, <2>6
  <2>8. ASSUME NEW l \in next PROVE d.lens[Cardinality(upto(l))] = MessageLength(iov, l)
    <3>1. CASE l = i
      <4>1. Cardinality(upto(l)) = Len(c.lens) + 1
        BY <1>4, <1>5, <2>2, <3>1
      <4>2. d.lens[Len(c.lens) + 1] = c.written
        BY <1>7, <2>6
      <4> QED BY <1>5, <1>6, <3>1, <4>1, <4>2
    <3>2. CASE l # i
      <4>1. l \in done /\ l \in Nat /\ l \in iov.lasts
        BY <1>4, <2>1, <2>8, <3>2
      <4>2. upto(l) \subseteq done /\ l \in upto(l)
        BY <1>2, <1>4, <4>1 DEF Done
      <4>3. IsFiniteSet(done) /\ IsFiniteSet(upto(l)) /\ Cardinality(upto(l)) \in Nat
        BY <1>3 DEF Done
      <4>4. Cardinality(upto(l)) <= Cardinality(done)
        BY <4>2, <4>3, FS_Subset
      <4>5. Cardinality(upto(l)) # 0
        BY <4>2, <4>3, FS_EmptySet
      <4>6. PICK k \in 1 .. Len(c.lens) : k = Cardinality(upto(l))
        <5>1. Len(c.lens) \in Nat /\ Cardinality(upto(l)) <= Len(c.lens)
          BY <1>5, <1>7, <4>4
        <5> HIDE DEF upto, done
        <5>2. PICK k \in Nat, m \in Nat : k = Cardinality(upto(l)) /\ m = Len(c.lens)
          BY <4>3, <5>1
        <5>3. k \in 1 .. m
          BY <4>5, <5>1, <5>2
        <5> QED BY <5>2, <5>3
      <4>7. d.lens[k] = c.lens[k]
        BY <1>7, <2>6, <4>6
      <4> QED BY <1>5, <4>1, <4>6, <4>7
    <3> QED BY <3>1, <3>2
  <2> HIDE DEF next, done
  <2>9. d.written = iov.ends[i] - Base(iov, i + 1) /\ Base(iov, i + 1) \in Nat
    BY <1>2, <2>4, <2>6
  <2> QED BY <1>1, <2>6, <2>7, <2>8, <2>9 DEF Account, next
<1>9. CASE i \notin iov.lasts
  <2>1. next = done
    BY <1>2, <1>4, <1>9 DEF Done
  <2>2. Base(iov, i + 1) = Base(iov, i) /\ d = c
    BY <1>1, <1>9, <2>1 DEF Base, Counted
  <2> QED BY <1>1, <1>5, <2>1, <2>2 DEF Account
<1> QED BY <1>8, <1>9

\* A call that begins has nothing to report yet.
LEMMA NewAccount ==
  ASSUME NEW c \in Calls, c.iov \in Iovs, c.written = 0, c.lens = <<>>
  PROVE  Account(c, 1, 0)
<1>1. Done(c.iov, 1) = {}
  <2>1. c.iov.lasts \subseteq 1 .. Len(c.iov.ends)
    BY LastsAreFinite
  <2> QED BY <2>1 DEF Done
<1>2. Base(c.iov, 1) = 0 /\ Cardinality(Done(c.iov, 1)) = 0
  BY <1>1, FS_EmptySet DEF Base
<1> QED BY <1>1, <1>2 DEF Account

\* A call of the hook keeps the account, and the call that returns reports it.
LEMMA WriteNextReports ==
  ASSUME OutputInv, ReportInv, WriteNext
  PROVE  ReportInv'
<1>1. TypeOK /\ WritevInv /\ call.fn \in {"writev", "sendmmsg"} /\ call \in Calls /\ call.iov \in Iovs
  BY DEF OutputInv, WriteNext, TypeOK, WritevInv
<1>2. PICK n \in Nat : n = BufferStart(call) + call.offset
  BY <1>1, CallBuffer
<1>3. out = Bytes(0, n) /\ Account(call, call.i, n)
  BY <1>1, <1>2 DEF WritevInv, ReportInv
<1>4. out \in Seq(Nat) /\ Len(out) = n
  BY <1>3, BytesFromStart
<1>5. /\ call.i \in 1 .. Len(call.iov.ends) /\ Len(call.iov.ends) \in Nat /\ call.offset \in Nat
      /\ BufferStart(call) \in Nat /\ BufferSize(call) \in Nat /\ BufferRest(call) \in Nat
      /\ BufferSize(call) = call.iov.ends[call.i] - BufferStart(call)
      /\ BufferRest(call) = BufferSize(call) - call.offset
  BY <1>1, CallBuffer
<1>6. call.iov.ends[call.i] \in Nat
  BY <1>1, <1>5, BufferBounds
<1>7. NoCall.fn = "none"
  BY DEF NoCall
<1>8. ASSUME Return(call, FALSE, <<>>)
      PROVE  ReportInv'
  BY <1>7, <1>8 DEF ReportInv, ReportedIsWritten, Return
<1>9. ASSUME NEW r \in hook_output(BufferRest(call)), r # -1, out' = out \o Bytes(n, r),
             NEW after, after = Advanced(call, r),
             NEW c, c = IF after.i = call.i THEN after ELSE Counted(after, call.i),
             IF c.i > Len(c.iov.ends) THEN Return(call, TRUE, c.lens)
             ELSE call' = c /\ ret' = ret
      PROVE  ReportInv'
  <2>1. r \in 0 .. BufferRest(call) /\ (r < BufferRest(call) => r > 0) /\ r \in Nat
    BY <1>5, <1>9 DEF hook_output
  <2>2. /\ after \in Calls /\ after.iov = call.iov /\ after.fn = call.fn
        /\ \/ after.i = call.i /\ after.offset = call.offset + r
           \/ after.i = call.i + 1 /\ after.offset = 0 /\ call.offset + r = BufferSize(call)
    BY <1>1, <1>9, <2>1, AdvancedCall
  <2>3. after.written = call.written + r /\ after.lens = call.lens /\ call.written \in Nat
    BY <1>1, <1>9 DEF Advanced, Calls
  <2>4. Account(after, call.i, n + r)
    BY <1>3, <2>1, <2>2, <2>3 DEF Account
  <2>5. CASE after.i = call.i
    <3>1. c = after /\ c.i = call.i /\ c.iov = call.iov
      BY <1>9, <2>2, <2>5
    <3>2. call' = c
      <4>1. ~(c.i > Len(c.iov.ends))
        BY <1>5, <3>1
      <4> QED BY <1>9, <4>1
    <3>3. BufferStart(c) = BufferStart(call) /\ c.offset = call.offset + r
      BY <1>5, <2>2, <2>5, <3>1 DEF BufferStart
    <3>4. BufferStart(c) + c.offset = n + r
      BY <1>2, <1>5, <2>1, <3>3
    <3>5. Account(call', call'.i, BufferStart(call') + call'.offset)
      BY <2>4, <3>1, <3>2, <3>4
    <3>6. call' # NoCall
      BY <1>1, <1>7, <2>2, <3>1, <3>2
    <3> QED BY <3>5, <3>6 DEF ReportInv, ReportedIsWritten, BufferStart
  <2>6. CASE after.i # call.i
    <3>1. c = Counted(after, call.i) /\ after.i = call.i + 1 /\ after.offset = 0
      BY <1>9, <2>2, <2>6
    <3>2. n + r = call.iov.ends[call.i]
      <4>1. call.offset + r = BufferSize(call)
        BY <2>2, <2>6
      <4>2. PICK b \in Nat, o \in Nat, z \in Nat, e \in Nat :
              b = BufferStart(call) /\ o = call.offset /\ z = BufferSize(call)
              /\ e = call.iov.ends[call.i]
        BY <1>5, <1>6
      <4>3. n = b + o /\ z = e - b /\ o + r = z
        BY <1>2, <1>5, <4>1, <4>2
      <4> QED BY <2>1, <4>2, <4>3
    <3>3. Account(c, call.i + 1, n + r)
      BY <1>1, <1>5, <2>2, <2>4, <3>1, <3>2, CountedAccount
    <3>4. c.iov = call.iov /\ c.fn = call.fn /\ c.i = call.i + 1 /\ c.offset = 0
      BY <2>2, <3>1, CountedCall
    <3>5. CASE c.i > Len(c.iov.ends)
      <4>1. call' = NoCall /\ ret' = [call |-> call, ok |-> TRUE, lens |-> c.lens]
        BY <1>9, <3>5 DEF Return
      <4>2. call.i = Len(call.iov.ends)
        BY <1>5, <3>4, <3>5
      <4>3. Len(out') = call.iov.ends[Len(call.iov.ends)]
        <5>1. PICK k \in Nat : k = r
          BY <2>1
        <5>2. Bytes(n, k) \in Seq(Nat) /\ Len(Bytes(n, k)) = k
          BY BytesAre
        <5>3. PICK t \in Seq(Nat) : t = Bytes(n, r) /\ Len(t) = r
          BY <5>1, <5>2
        <5>4. out' = out \o t
          BY <1>9, <5>3
        <5>5. Len(out') = n + r
          BY <1>4, <5>3, <5>4
        <5> QED BY <3>2, <4>2, <5>5
      <4>4. Done(call.iov, call.i + 1) = call.iov.lasts
        <5>1. call.iov.lasts \subseteq 1 .. Len(call.iov.ends)
          BY <1>1, LastsAreFinite
        <5> QED BY <1>5, <4>2, <5>1 DEF Done
      <4>5. /\ Len(c.lens) = Cardinality(call.iov.lasts)
            /\ \A l \in call.iov.lasts :
                 c.lens[Cardinality({m \in call.iov.lasts : m <= l})] = MessageLength(call.iov, l)
        BY <3>3, <3>4, <4>4 DEF Account
      <4>6. ret'.call.iov = call.iov /\ ret'.lens = c.lens
        BY <4>1
      <4>7. ReportedIsWritten'
        BY <4>3, <4>5, <4>6 DEF ReportedIsWritten
      <4> QED BY <1>7, <4>1, <4>7 DEF ReportInv
    <3>6. CASE ~(c.i > Len(c.iov.ends))
      <4>1. call' = c
        BY <1>9, <3>6
      <4>2. BufferStart(c) + c.offset = n + r
        <5>1. c.i # 1 /\ c.i - 1 = call.i
          BY <1>5, <3>4
        <5>2. BufferStart(c) = call.iov.ends[call.i]
          BY <3>4, <5>1 DEF BufferStart
        <5> QED BY <1>6, <3>2, <3>4, <5>2
      <4>3. Account(call', call'.i, BufferStart(call') + call'.offset)
        BY <3>3, <3>4, <4>1, <4>2
      <4>4. call' # NoCall
        BY <1>1, <1>7, <3>4, <4>1
      <4> QED BY <4>3, <4>4 DEF ReportInv, ReportedIsWritten, BufferStart
    <3> QED BY <3>5, <3>6
  <2> QED BY <2>5, <2>6
<1>10. PICK r \in hook_output(BufferRest(call)) :
         \/ r = -1 /\ Return(call, FALSE, <<>>) /\ UNCHANGED out
         \/ /\ r # -1
            /\ out' = out \o Bytes(BufferStart(call) + call.offset, r)
            /\ LET after == Advanced(call, r)
                   c     == IF after.i = call.i THEN after ELSE Counted(after, call.i)
               IN  IF c.i > Len(c.iov.ends) THEN Return(call, TRUE, c.lens)
                   ELSE call' = c /\ UNCHANGED ret
  BY DEF WriteNext
<1>11. CASE r = -1
  BY <1>8, <1>10, <1>11
<1>12. CASE r # -1
  <2> DEFINE after == Advanced(call, r)
             c     == IF after.i = call.i THEN after ELSE Counted(after, call.i)
  <2>1. /\ out' = out \o Bytes(n, r)
        /\ IF c.i > Len(c.iov.ends) THEN Return(call, TRUE, c.lens) ELSE call' = c /\ ret' = ret
    BY <1>2, <1>10, <1>12
  <2> HIDE DEF after, c
  <2>2. after = Advanced(call, r)
    BY DEF after
  <2>3. c = IF after.i = call.i THEN after ELSE Counted(after, call.i)
    BY DEF c
  <2> QED BY <1>9, <1>12, <2>1, <2>2, <2>3
<1> QED BY <1>11, <1>12

\* A new writev or sendmmsg.
LEMMA BeginReports ==
  ASSUME OutputInv, NEW fn \in {"writev", "sendmmsg"}, NEW iov \in Iovs, Begin(fn, iov)
  PROVE  ReportInv'
<1>1. call' = [NoCall EXCEPT !.fn = fn, !.iov = iov]
  BY DEF Begin
<1>2. OutputInv'
  BY BeginKeeps
<1>3. call' \in Calls
  BY <1>2 DEF OutputInv, TypeOK
<1>4. /\ call'.fn = fn /\ call'.iov = iov /\ call'.i = 1 /\ call'.offset = 0 /\ call'.written = 0
      /\ call'.lens = <<>>
  BY <1>1 DEF NoCall
<1>5. Account(call', 1, 0)
  BY <1>3, <1>4, NewAccount
<1>6. BufferStart(call') + call'.offset = 0
  BY <1>4 DEF BufferStart
<1>7. call' # NoCall
  BY <1>4 DEF NoCall
<1> QED BY <1>4, <1>5, <1>6, <1>7 DEF ReportInv, ReportedIsWritten, BufferStart

\* The other calls neither begin nor end one of these.
LEMMA OthersReport ==
  ASSUME OutputInv, ReportInv, Write \/ Sendfile \/ SendfileNext \/ SendfileEnd
  PROVE  ReportInv'
<1>1. NoCall.fn = "none"
  BY DEF NoCall
<1>2. CASE Write
  <2>1. PICK ok, lens : Return([NoCall EXCEPT !.fn = "write"], ok, lens)
    BY <1>2 DEF Write
  <2>2. call' = NoCall /\ ret'.call.fn = "write"
    BY <2>1 DEF Return, NoCall
  <2> QED BY <1>1, <2>2 DEF ReportInv, ReportedIsWritten
<1>3. CASE Sendfile
  <2>1. \E c : /\ c.fn = "sendfile"
               /\ \/ call' = c
                  \/ call' = NoCall /\ ret'.call = c
    <3>1. PICK ofs \in {NoOffset} \cup 0 .. FileSize :
            LET start == IF ofs = NoOffset THEN file ELSE ofs
            IN  \E count \in 0 .. FileSize - start :
                  LET c == [NoCall EXCEPT !.fn = "sendfile", !.start = start, !.old = file,
                                          !.ofs = ofs, !.count = count]
                  IN  /\ out' = <<>>
                      /\ \/ debug /\ call' = c /\ file' = start /\ UNCHANGED ret
                         \/ ~debug /\ Return(c, TRUE, <<count>>) /\ UNCHANGED file
      BY <1>3 DEF Sendfile
    <3>2. PICK start, count :
            LET c == [NoCall EXCEPT !.fn = "sendfile", !.start = start, !.old = file,
                                    !.ofs = ofs, !.count = count]
            IN  \/ debug /\ call' = c /\ file' = start /\ UNCHANGED ret
                \/ ~debug /\ Return(c, TRUE, <<count>>) /\ UNCHANGED file
      BY <3>1
    <3> DEFINE c == [NoCall EXCEPT !.fn = "sendfile", !.start = start, !.old = file,
                                   !.ofs = ofs, !.count = count]
    <3>3. c.fn = "sendfile"
      BY DEF NoCall
    <3> HIDE DEF c
    <3>4. call' = c \/ (call' = NoCall /\ ret'.call = c)
      BY <3>2 DEF Return, c
    <3> QED BY <3>3, <3>4
  <2>2. PICK c : c.fn = "sendfile" /\ (call' = c \/ (call' = NoCall /\ ret'.call = c))
    BY <2>1
  <2>3. CASE call' = c
    BY <1>1, <2>2, <2>3 DEF ReportInv, ReportedIsWritten
  <2>4. CASE call' = NoCall /\ ret'.call = c
    BY <1>1, <2>2, <2>4 DEF ReportInv, ReportedIsWritten
  <2> QED BY <2>2, <2>3, <2>4
<1>4. CASE SendfileNext
  <2>1. call'.fn = "sendfile"
    <3>1. call.fn = "sendfile" /\ call \in Calls
      BY <1>4 DEF SendfileNext, OutputInv, TypeOK
    <3>2. \E k : call' = [call EXCEPT !.consumed = k]
      BY <1>4 DEF SendfileNext
    <3> QED BY <3>1, <3>2 DEF Calls
  <2>2. call' # NoCall
    BY <1>1, <2>1
  <2> QED BY <2>1, <2>2 DEF ReportInv, ReportedIsWritten
<1>5. CASE SendfileEnd
  <2>1. call' = NoCall /\ ret'.call.fn = "sendfile"
    BY <1>5 DEF SendfileEnd, Return
  <2> QED BY <1>1, <2>1 DEF ReportInv, ReportedIsWritten
<1> QED BY <1>2, <1>3, <1>4, <1>5

\* A writev, sendmsg or sendmmsg that succeeds has written every buffer to its end, however
\* often the hook was called for each, and every message is reported with its own length
\* (src/write.c:12-32, 87-108).
THEOREM ReportsAreWritten == Spec => []ReportedIsWritten
<1>1. Init => ReportInv
  BY DEF Init, ReportInv, ReportedIsWritten, NoCall
<1>2. OutputInv /\ ReportInv /\ [Next]_vars => ReportInv'
  <2> SUFFICES ASSUME OutputInv, ReportInv, [Next]_vars PROVE ReportInv'
    OBVIOUS
  <2>1. CASE Write \/ Sendfile \/ SendfileNext \/ SendfileEnd
    BY <2>1, OthersReport
  <2>2. CASE Writev
    BY <2>2, BeginReports DEF Writev
  <2>3. CASE Sendmmsg
    BY <2>3, BeginReports DEF Sendmmsg
  <2>4. CASE WriteNext
    BY <2>4, WriteNextReports
  <2>5. CASE UNCHANGED vars
    BY <2>5 DEF vars, ReportInv, ReportedIsWritten, Account, BufferStart
  <2> QED BY <2>1, <2>2, <2>3, <2>4, <2>5 DEF Next, CallGoesOn
<1>3. ReportInv => ReportedIsWritten
  BY DEF ReportInv
<1> QED BY <1>1, <1>2, <1>3, OutputInvariant, PTL DEF Spec
=============================================================================
