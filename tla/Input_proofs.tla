---------------------------- MODULE Input_proofs ---------------------------
(***************************************************************************)
(* For every input, delimiter and sequence of calls: the peekbuffer never  *)
(* overruns its memory, stdin is never read or sought outside its length,  *)
(* every byte an application is given is a byte of stdin, none is lost,    *)
(* doubled or out of order, what a recv or a peek returns is of one        *)
(* request, and a peek shows what the next recv returns.                   *)
(***************************************************************************)
EXTENDS Input, Peekbuffer_proofs, FiniteSetTheorems

\* The inductive invariant: TypeOK and NoOverrun do not say that the valid bytes were
\* ever written, which is why what is copied out of them comes from stdin.
InputInv == TypeOK /\ Sound(pb)

-----------------------------------------------------------------------------
(* The outcomes of what the calls share *)

LEMMA PeekOK ==
  ASSUME InputInv, NEW len \in 0 .. SizeLimit, NEW r \in Peek(len)
  PROVE  OutcomeOK(r)
<1>1. SizeLimit \in Nat /\ len \in Nat
  BY PeekbufferAssumption
<1>2. Sound(pb) /\ StdinOK /\ pos \in 0 .. Len(stdin) /\ <<>> \in Seq(Offsets)
  BY DEF InputInv, TypeOK, StdinOK
<1>3. CASE r = Outcome(pb, pos, <<>>, TRUE) \/ r = Outcome(pb, pos, <<>>, FALSE)
  BY <1>2, <1>3, OutcomeIsOK
<1>4. CASE len > pb.size
  <2> DEFINE want == len - pb.size
             b    == peekbuffer_grow(pb, pb.size + want)
  <2>1. want \in Nat /\ pb.size + want = len
    BY <1>1, <1>2, <1>4, SoundIs
  <2>2. Sound(b) /\ b.size = pb.size /\ b.start + len <= b.capacity
    BY <1>1, <1>2, <1>4, <2>1, SoundIs, GrowMakesRoom
  <2> HIDE DEF b
  <2>3. r \in peekbuffer_read(want)
    BY <1>4 DEF Peek
  <2>4. CASE r = Outcome(b, pos, <<>>, FALSE)
    BY <1>2, <2>2, <2>4, OutcomeIsOK
  <2>5. ASSUME NEW n \in hook_input(want), n # -1,
               r = Outcome(Appended(b, n), postprocess_input(pos, n).pos, <<>>, TRUE)
        PROVE  OutcomeOK(r)
    <3>1. n \in 0 .. want /\ pos + n <= Len(stdin)
      BY <1>2, <2>1, <2>5, HookInputBounds
    <3>2. b.start + b.size + n <= b.capacity
      <4>1. b.start \in Nat /\ b.size \in Nat /\ b.capacity \in Nat
        BY <2>2, SoundIs
      <4>2. b.size + n <= len
        BY <2>1, <2>2, <3>1, <4>1
      <4> QED BY <1>1, <2>2, <3>1, <4>1, <4>2
    <3>3. Sound(Appended(b, n))
      BY <1>2, <2>1, <2>2, <3>1, <3>2, AppendedSound
    <3>4. postprocess_input(pos, n).pos \in 0 .. Len(stdin)
      BY <1>2, <2>1, <3>1, StdinType, PostprocessBounds DEF StdinOK
    <3> QED BY <1>2, <2>5, <3>3, <3>4, OutcomeIsOK
  <2>6. \/ r = Outcome(pb, pos, <<>>, TRUE) \/ r = Outcome(pb, pos, <<>>, FALSE)
        \/ r = Outcome(b, pos, <<>>, FALSE)
        \/ \E n \in hook_input(want) :
             n # -1 /\ r = Outcome(Appended(b, n), postprocess_input(pos, n).pos, <<>>, TRUE)
    BY <2>3 DEF peekbuffer_read, b
  <2> QED BY <1>3, <2>4, <2>5, <2>6
<1>5. CASE ~(len > pb.size)
  BY <1>3, <1>5 DEF Peek
<1> QED BY <1>4, <1>5

LEMMA FillOK ==
  ASSUME InputInv, NEW len \in Nat, NEW stops, NEW r \in Fill(len, stops)
  PROVE  OutcomeOK(r)
<1> DEFINE moved == peekbuffer_cp(pb, len, 0)
           b     == IF pb.size > 0 THEN peekbuffer_mv(pb, len) ELSE pb
           rest  == len - Len(moved)
<1>1. Sound(pb) /\ StdinOK /\ pos \in 0 .. Len(stdin) /\ stdin \in Inputs
  BY DEF InputInv, TypeOK, StdinOK
<1>2. moved \in Seq(Offsets) /\ Len(moved) \in Nat /\ Len(moved) <= len
  <2>1. moved \in Seq(Offsets) /\ Len(moved) <= len
    BY <1>1, CpType
  <2> HIDE DEF moved
  <2> QED BY <2>1
<1>3. Sound(b)
  BY <1>1, MvSound
<1>4. rest \in Nat
  BY <1>2
<1>5. \/ r = Outcome(b, pos, moved, TRUE)
      \/ r = Outcome(b, pos, moved, FALSE)
      \/ \E n \in hook_input(rest) :
           /\ n # -1
           /\ r = Outcome(b, postprocess_input(pos, n).pos,
                          moved \o From(pos, postprocess_input(pos, n).kept), TRUE)
  BY DEF Fill
<1> HIDE DEF moved, b, rest
<1>6. ASSUME NEW n \in hook_input(rest), n # -1,
             r = Outcome(b, postprocess_input(pos, n).pos,
                         moved \o From(pos, postprocess_input(pos, n).kept), TRUE)
      PROVE  OutcomeOK(r)
  <2> DEFINE kept == postprocess_input(pos, n).kept
  <2>1. n \in Nat /\ pos + n <= Len(stdin)
    BY <1>1, <1>4, <1>6, HookInputBounds
  <2>2. kept \in 0 .. n /\ postprocess_input(pos, n).pos \in 0 .. Len(stdin)
    BY <1>1, <2>1, StdinType, PostprocessBounds
  <2>3. From(pos, kept) \in Seq(Offsets)
    <3> HIDE DEF kept
    <3>1. pos \in Nat /\ kept \in Nat /\ pos + kept <= Len(stdin) /\ Len(stdin) \in Nat
      BY <1>1, <2>1, <2>2, StdinType
    <3> QED BY <3>1, FromType
  <2>4. moved \o From(pos, kept) \in Seq(Offsets)
    <3> HIDE DEF kept
    <3> QED BY <1>2, <2>3
  <2> QED BY <1>3, <1>6, <2>2, <2>4, OutcomeIsOK
<1> QED BY <1>1, <1>2, <1>3, <1>5, <1>6, OutcomeIsOK
-----------------------------------------------------------------------------
(* The steps *)

LEMMA InputInit == Init => InputInv
<1> SUFFICES ASSUME Init
             PROVE  InputInv
  OBVIOUS
<1>1. StdinOK /\ Sound(pb)
  BY StartsSound DEF Init
<1>2. PeekbufferType(pb)
  BY <1>1 DEF Sound
<1>3. ret.fn \in Functions /\ ret.peek \in BOOLEAN /\ ret.bytes = <<>> /\ ret.reported = 0
  BY DEF Init, Functions
<1>4. TypeOK
  BY <1>1, <1>2, <1>3 DEF Init, TypeOK, StdinOK
<1> QED BY <1>1, <1>4 DEF InputInv

\* What a step that returns leaves in ret.
LEMMA ReturnType ==
  ASSUME NEW fn \in Functions, NEW peek \in BOOLEAN, NEW len, NEW bytes \in Seq(Offsets),
         NEW reported \in -1 .. Len(bytes), Return(fn, peek, len, bytes, reported)
  PROVE  /\ ret'.fn \in Functions /\ ret'.peek \in BOOLEAN
         /\ ret'.bytes \in Seq(Offsets) /\ ret'.reported \in -1 .. Len(ret'.bytes)
BY DEF Return

\* stdin stays the same input, and so do the offsets into it.
LEMMA OutcomeStep ==
  ASSUME InputInv, UNCHANGED stdin, NEW r, OutcomeOK(r), pb' = r.pb, pos' = r.pos
  PROVE  /\ Sound(pb)' /\ PeekbufferType(pb)' /\ pos' \in 0 .. Len(stdin')
         /\ stdin' \in Inputs /\ Offsets' = Offsets
<1>1. Offsets' = Offsets
  BY DEF Offsets
<1>2. Sound(pb)'
  BY <1>1 DEF OutcomeOK, Sound, PeekbufferType
<1>3. PeekbufferType(pb)'
  BY <1>2 DEF Sound
<1> QED BY <1>1, <1>2, <1>3 DEF OutcomeOK, InputInv, TypeOK

\* the third conjunct of TypeOK
CallType(c) ==
  \/ c = NoCall
  \/ /\ c \in [fn : {"readv", "recvmsg", "recvmmsg"}, peek : BOOLEAN, iov : Iovs,
               i : Nat, bytes : Seq(Offsets)]
     /\ c.i \in 1 .. Len(c.iov.ends)

LEMMA FillOneStep ==
  ASSUME InputInv, NEW fn \in Functions, NEW len \in Nat, NEW stops, FillOne(fn, len, stops)
  PROVE  InputInv'
<1>1. PICK r \in Fill(len, stops) :
        /\ pb' = r.pb /\ pos' = r.pos
        /\ stored' = stored \o r.bytes
        /\ Return(fn, FALSE, len, r.bytes, IF r.ok THEN Len(r.bytes) ELSE -1)
  BY DEF FillOne
<1>2. OutcomeOK(r)
  BY FillOK
<1>3. UNCHANGED <<stdin, call>> /\ call = NoCall
  BY DEF FillOne
<1>4. r.bytes \in Seq(Offsets) /\ stored \in Seq(Offsets)
  BY <1>2 DEF OutcomeOK, InputInv, TypeOK
<1>5. stored' \in Seq(Offsets)
  BY <1>1, <1>4
<1>6. (IF r.ok THEN Len(r.bytes) ELSE -1) \in -1 .. Len(r.bytes)
  BY <1>4
<1>7. /\ ret'.fn \in Functions /\ ret'.peek \in BOOLEAN
      /\ ret'.bytes \in Seq(Offsets) /\ ret'.reported \in -1 .. Len(ret'.bytes)
  <2> HIDE DEF Functions
  <2> QED BY <1>1, <1>4, <1>6, ReturnType
<1>8. /\ Sound(pb)' /\ PeekbufferType(pb)' /\ pos' \in 0 .. Len(stdin')
      /\ stdin' \in Inputs /\ Offsets' = Offsets
  BY <1>1, <1>2, <1>3, OutcomeStep
<1> QED BY <1>3, <1>5, <1>7, <1>8 DEF InputInv, TypeOK, NoCall

LEMMA IovType ==
  ASSUME NEW iov \in Iovs
  PROVE  /\ iov.ends \in Seq(0 .. SizeLimit) /\ Len(iov.ends) \in Nat /\ Len(iov.ends) >= 1
         /\ TotalLength(iov) \in 0 .. SizeLimit
         /\ \A i \in 1 .. Len(iov.ends) :
              iov.ends[i] - (IF i = 1 THEN 0 ELSE iov.ends[i - 1]) \in Nat
<1> DEFINE e == iov.ends
<1>1. /\ e \in Seq(0 .. SizeLimit) /\ e # <<>>
      /\ \A i \in 1 .. Len(e) - 1 : e[i] <= e[i + 1]
  BY InputAssumption
<1> HIDE DEF e
<1>2. Len(e) \in Nat /\ Len(e) >= 1
  BY <1>1
<1>3. \A i \in 1 .. Len(e) : e[i] \in 0 .. SizeLimit
  <2> DEFINE S == 0 .. SizeLimit
  <2>1. e \in Seq(S)
    BY <1>1
  <2> HIDE DEF S
  <2>2. \A i \in 1 .. Len(e) : e[i] \in S
    BY <2>1
  <2> QED BY <2>2 DEF S
<1>4. ASSUME NEW i \in 1 .. Len(e)
      PROVE  e[i] - (IF i = 1 THEN 0 ELSE e[i - 1]) \in Nat
  <2>1. CASE i = 1
    BY <1>3, <2>1
  <2>2. CASE i # 1
    <3>1. i - 1 \in 1 .. Len(e) - 1 /\ (i - 1) + 1 = i /\ i - 1 \in 1 .. Len(e)
      BY <1>2, <2>2
    <3>2. e[i - 1] <= e[i]
      BY <1>1, <3>1
    <3> QED BY <1>3, <2>2, <3>1, <3>2
  <2> QED BY <2>1, <2>2
<1> QED BY <1>1, <1>2, <1>3, <1>4 DEF e, TotalLength

LEMMA RecvPeekStep == InputInv /\ RecvPeek => InputInv'
<1> SUFFICES ASSUME InputInv, RecvPeek
             PROVE  InputInv'
  OBVIOUS
<1> DEFINE copied(r, len) == IF r.ok THEN peekbuffer_cp(r.pb, len, 0) ELSE <<>>
<1>0. PICK len \in 1 .. MaxLen :
        \E r \in Peek(len) :
          /\ pb' = r.pb /\ pos' = r.pos
          /\ Return("recv", TRUE, len, copied(r, len), IF r.ok THEN Len(copied(r, len)) ELSE -1)
  BY DEF RecvPeek
<1>1. PICK r \in Peek(len) :
        /\ pb' = r.pb /\ pos' = r.pos
        /\ Return("recv", TRUE, len, copied(r, len), IF r.ok THEN Len(copied(r, len)) ELSE -1)
  BY <1>0
<1> DEFINE bytes == copied(r, len)
<1>2. len \in 0 .. SizeLimit /\ len \in Nat
  BY InputAssumption, PeekbufferAssumption
<1>3. OutcomeOK(r)
  BY <1>2, PeekOK
<1>4. bytes \in Seq(Offsets)
  <2>1. peekbuffer_cp(r.pb, len, 0) \in Seq(Offsets)
    BY <1>2, <1>3, CpType DEF OutcomeOK
  <2> QED BY <2>1
<1>5. pb' = r.pb /\ pos' = r.pos /\ Return("recv", TRUE, len, bytes, IF r.ok THEN Len(bytes) ELSE -1)
  BY <1>1
<1>6. UNCHANGED <<stdin, call, stored>> /\ call = NoCall
  BY DEF RecvPeek
<1> HIDE DEF bytes
<1>7. /\ ret'.fn \in Functions /\ ret'.peek \in BOOLEAN
      /\ ret'.bytes \in Seq(Offsets) /\ ret'.reported \in -1 .. Len(ret'.bytes)
  <2>1. "recv" \in Functions
    BY DEF Functions
  <2>2. (IF r.ok THEN Len(bytes) ELSE -1) \in -1 .. Len(bytes)
    BY <1>4
  <2> QED BY <1>4, <1>5, <2>1, <2>2, ReturnType
<1>8. /\ Sound(pb)' /\ PeekbufferType(pb)' /\ pos' \in 0 .. Len(stdin')
      /\ stdin' \in Inputs /\ Offsets' = Offsets
  BY <1>3, <1>5, <1>6, OutcomeStep
<1> QED BY <1>6, <1>7, <1>8 DEF InputInv, TypeOK, NoCall

\* Starting a call that fills several buffers.
LEMMA BeginType ==
  ASSUME NEW fn \in {"readv", "recvmsg", "recvmmsg"}, NEW peek \in BOOLEAN, NEW iov \in Iovs,
         Begin(fn, peek, iov)
  PROVE  CallType(call')
<1>1. 1 \in 1 .. Len(iov.ends)
  BY IovType
<1>2. <<>> \in Seq(Offsets)
  OBVIOUS
<1> QED BY <1>1, <1>2 DEF Begin, CallType

LEMMA UnchangedStep ==
  ASSUME InputInv, UNCHANGED <<stdin, pos, pb>>
  PROVE  /\ Sound(pb)' /\ PeekbufferType(pb)' /\ pos' \in 0 .. Len(stdin')
         /\ stdin' \in Inputs /\ Offsets' = Offsets
<1>1. OutcomeOK(Outcome(pb, pos, <<>>, TRUE))
  <2>1. Sound(pb) /\ pos \in 0 .. Len(stdin)
    BY DEF InputInv, TypeOK
  <2>2. <<>> \in Seq(Offsets)
    OBVIOUS
  <2> QED BY <2>1, <2>2, OutcomeIsOK
<1>2. pb' = Outcome(pb, pos, <<>>, TRUE).pb /\ pos' = Outcome(pb, pos, <<>>, TRUE).pos
  BY DEF Outcome
<1> QED BY <1>1, <1>2, OutcomeStep

LEMMA ReadvStep == InputInv /\ Readv => InputInv'
<1> SUFFICES ASSUME InputInv, Readv
             PROVE  InputInv'
  OBVIOUS
<1>1. PICK iov \in Iovs : Begin("readv", FALSE, iov)
  BY DEF Readv
<1>2. CallType(call')
  BY <1>1, BeginType
<1>3. UNCHANGED <<stdin, pos, pb, stored, ret>>
  BY DEF Readv
<1>4. /\ Sound(pb)' /\ PeekbufferType(pb)' /\ pos' \in 0 .. Len(stdin')
      /\ stdin' \in Inputs /\ Offsets' = Offsets
  BY <1>3, UnchangedStep
<1> QED BY <1>2, <1>3, <1>4 DEF InputInv, TypeOK, CallType, NoCall

LEMMA RecvmsgCallStep ==
  ASSUME InputInv, NEW fn \in {"recvmsg", "recvmmsg"}, NEW iov \in Iovs, RecvmsgCall(fn, iov)
  PROVE  InputInv'
<1>1. UNCHANGED <<stdin, stored>> /\ call = NoCall
  BY DEF RecvmsgCall
<1>2. fn \in Functions
  BY DEF Functions
<1>3. CASE Begin(fn, FALSE, iov) /\ UNCHANGED <<pos, pb, ret>>
  <2>1. CallType(call')
    BY <1>3, BeginType
  <2>2. /\ Sound(pb)' /\ PeekbufferType(pb)' /\ pos' \in 0 .. Len(stdin')
        /\ stdin' \in Inputs /\ Offsets' = Offsets
    BY <1>1, <1>3, UnchangedStep
  <2> QED BY <1>1, <1>3, <2>1, <2>2 DEF InputInv, TypeOK, CallType, NoCall
<1>4. ASSUME NEW r \in Peek(TotalLength(iov)), pb' = r.pb, pos' = r.pos,
             \/ Begin(fn, TRUE, iov) /\ UNCHANGED ret
             \/ Return(fn, TRUE, TotalLength(iov), <<>>, -1) /\ UNCHANGED call
      PROVE  InputInv'
  <2>1. OutcomeOK(r)
    BY IovType, PeekOK
  <2>2. /\ Sound(pb)' /\ PeekbufferType(pb)' /\ pos' \in 0 .. Len(stdin')
        /\ stdin' \in Inputs /\ Offsets' = Offsets
    BY <1>1, <1>4, <2>1, OutcomeStep
  <2>3. CASE Begin(fn, TRUE, iov) /\ UNCHANGED ret
    <3>1. CallType(call')
      BY <2>3, BeginType
    <3> QED BY <1>1, <2>2, <2>3, <3>1 DEF InputInv, TypeOK, CallType, NoCall
  <2>4. CASE Return(fn, TRUE, TotalLength(iov), <<>>, -1) /\ UNCHANGED call
    <3>1. <<>> \in Seq(Offsets) /\ -1 \in -1 .. Len(<<>>)
      OBVIOUS
    <3>2. /\ ret'.fn \in Functions /\ ret'.peek \in BOOLEAN
          /\ ret'.bytes \in Seq(Offsets) /\ ret'.reported \in -1 .. Len(ret'.bytes)
      BY <1>2, <2>4, <3>1, ReturnType
    <3> QED BY <1>1, <2>2, <2>4, <3>2 DEF InputInv, TypeOK, NoCall
  <2> QED BY <1>4, <2>3, <2>4
<1> QED BY <1>3, <1>4 DEF RecvmsgCall

LEMMA CallUpdate ==
  ASSUME NEW F, NEW I, NEW B,
         NEW c \in [fn : F, peek : BOOLEAN, iov : I, i : Nat, bytes : B],
         NEW n \in Nat, NEW b \in B
  PROVE  [c EXCEPT !.i = n, !.bytes = b]
           \in [fn : F, peek : BOOLEAN, iov : I, i : Nat, bytes : B]
OBVIOUS

LEMMA FillNextStep == InputInv /\ FillNext => InputInv'
<1> SUFFICES ASSUME InputInv, FillNext
             PROVE  InputInv'
  OBVIOUS
<1> DEFINE ends == call.iov.ends
           i    == call.i
           len  == ends[i] - (IF i = 1 THEN 0 ELSE ends[i - 1])
           all(r)  == call.bytes \o r.bytes
           none(r) == call.fn = "recvmmsg" /\ Len(r.bytes) < len /\ FirstMessage(call.iov, i)
           told(r) == IF ~r.ok THEN -1 ELSE IF none(r) THEN 0 ELSE Len(all(r))
<1>1. /\ call # NoCall /\ CallType(call) /\ UNCHANGED stdin
      /\ call.iov \in Iovs /\ i \in 1 .. Len(ends) /\ call.bytes \in Seq(Offsets)
  BY DEF FillNext, InputInv, TypeOK, CallType
<1>2. len \in Nat
  BY <1>1, IovType
<1>3. PICK r \in IF call.peek
                 THEN {Outcome(pb, pos, peekbuffer_cp(pb, len, Len(call.bytes)), TRUE)}
                 ELSE Fill(len, WasLocked) :
        /\ pb' = r.pb /\ pos' = r.pos
        /\ stored' = IF call.peek THEN stored ELSE stored \o r.bytes
        /\ \/ /\ i < Len(ends)
              /\ call' = [call EXCEPT !.i = i + 1, !.bytes = all(r)]
              /\ UNCHANGED ret
           \/ /\ call' = NoCall
              /\ Return(call.fn, call.peek, TotalLength(call.iov), all(r), told(r))
  BY DEF FillNext
<1> HIDE DEF len, none, told
<1>4. OutcomeOK(r)
  <2>1. CASE call.peek
    <3>1. r = Outcome(pb, pos, peekbuffer_cp(pb, len, Len(call.bytes)), TRUE)
      BY <1>3, <2>1
    <3>2. Len(call.bytes) \in Nat
      BY <1>1
    <3>3. peekbuffer_cp(pb, len, Len(call.bytes)) \in Seq(Offsets)
      BY <1>2, <3>2, CpType DEF InputInv
    <3> QED BY <3>1, <3>3, OutcomeIsOK DEF InputInv, TypeOK
  <2>2. CASE ~call.peek
    BY <1>2, <1>3, <2>2, FillOK
  <2> QED BY <2>1, <2>2
<1>5. /\ Sound(pb)' /\ PeekbufferType(pb)' /\ pos' \in 0 .. Len(stdin')
      /\ stdin' \in Inputs /\ Offsets' = Offsets
  BY <1>1, <1>3, <1>4, OutcomeStep
<1>6. stored' \in Seq(Offsets) /\ all(r) \in Seq(Offsets)
  <2>1. r.bytes \in Seq(Offsets) /\ stored \in Seq(Offsets)
    BY <1>4 DEF OutcomeOK, InputInv, TypeOK
  <2> QED BY <1>1, <1>3, <2>1
<1> HIDE DEF all
<1>7. CASE i < Len(ends) /\ call' = [call EXCEPT !.i = i + 1, !.bytes = all(r)] /\ UNCHANGED ret
  <2>1. CallType(call')
    <3>1. call \in [fn : {"readv", "recvmsg", "recvmmsg"}, peek : BOOLEAN, iov : Iovs,
                    i : Nat, bytes : Seq(Offsets)]
      BY <1>1 DEF CallType
    <3>2. call' \in [fn : {"readv", "recvmsg", "recvmmsg"}, peek : BOOLEAN, iov : Iovs,
                     i : Nat, bytes : Seq(Offsets)]
      <4>1. i + 1 \in Nat
        BY <1>1, IovType
      <4> QED BY <1>6, <1>7, <3>1, <4>1, CallUpdate
    <3>3. call'.i = i + 1 /\ call'.iov = call.iov
      BY <1>7, <3>1
    <3>4. call'.i \in 1 .. Len(call'.iov.ends)
      BY <1>1, <1>7, <3>3, IovType
    <3> QED BY <3>2, <3>4 DEF CallType
  <2> QED BY <1>5, <1>6, <1>7, <2>1 DEF InputInv, TypeOK, CallType, NoCall
<1>8. CASE /\ call' = NoCall
           /\ Return(call.fn, call.peek, TotalLength(call.iov), all(r), told(r))
  <2>1. call.fn \in Functions /\ call.peek \in BOOLEAN
    BY <1>1 DEF CallType, Functions
  <2>2. told(r) \in -1 .. Len(all(r))
    BY <1>6 DEF told
  <2>3. /\ ret'.fn \in Functions /\ ret'.peek \in BOOLEAN
        /\ ret'.bytes \in Seq(Offsets) /\ ret'.reported \in -1 .. Len(ret'.bytes)
    BY <1>6, <1>8, <2>1, <2>2, ReturnType
  <2> QED BY <1>5, <1>6, <1>8, <2>3 DEF InputInv, TypeOK
<1> QED BY <1>3, <1>7, <1>8

LEMMA InputStep == InputInv /\ [Next]_vars => InputInv'
<1> SUFFICES ASSUME InputInv, [Next]_vars
             PROVE  InputInv'
  OBVIOUS
<1>1. \A len \in 1 .. MaxLen : len \in Nat
  BY InputAssumption
<1>2. "read" \in Functions /\ "recv" \in Functions
  BY DEF Functions
<1>3. CASE Read
  BY <1>1, <1>2, <1>3, FillOneStep DEF Read
<1>4. CASE Recv
  BY <1>1, <1>2, <1>4, FillOneStep DEF Recv
<1>5. CASE RecvPeek
  BY <1>5, RecvPeekStep
<1>6. CASE Readv
  BY <1>6, ReadvStep
<1>7. CASE Recvmsg
  BY <1>7, RecvmsgCallStep DEF Recvmsg
<1>8. CASE Recvmmsg
  BY <1>8, RecvmsgCallStep DEF Recvmmsg
<1>9. CASE FillNext
  BY <1>9, FillNextStep
<1>10. CASE UNCHANGED vars
  BY <1>10, UnchangedStep DEF vars, InputInv, TypeOK
<1> QED BY <1>3, <1>4, <1>5, <1>6, <1>7, <1>8, <1>9, <1>10 DEF Next

\* Every byte an application is given is a byte of stdin, whatever the input, the
\* delimiter, the lengths and the order of its calls.
THEOREM InputTypeCorrect == Spec => []TypeOK
<1>1. Init => InputInv
  BY InputInit
<1>2. InputInv /\ [Next]_vars => InputInv'
  BY InputStep
<1>3. InputInv => TypeOK
  BY DEF InputInv
<1> QED BY <1>1, <1>2, <1>3, PTL DEF Spec

\* peekbuffer_read never writes past the end of the buffer peekbuffer_grow left.
THEOREM PeekbufferNeverOverruns == Spec => []NoOverrun
<1>1. Init => InputInv
  BY InputInit
<1>2. InputInv /\ [Next]_vars => InputInv'
  BY InputStep
<1>3. InputInv => NoOverrun
  BY DEF InputInv, Sound, NoOverrun
<1> QED BY <1>1, <1>2, <1>3, PTL DEF Spec
-----------------------------------------------------------------------------
(* What MSG_PEEK showed *)

\* the bytes shown are still there, and fewer than asked for only if there are no more
\* for recv to take
Shown(b, p, len, bytes) ==
  /\ bytes = peekbuffer_cp(b, len, 0)
  /\ Len(bytes) = len \/ b.locked \/ p = Len(stdin)

PeekInv ==
  call = NoCall /\ ret.fn = "recv" /\ ret.peek /\ ret.bytes # <<>> =>
    Shown(pb, pos, ret.len, ret.bytes)

LEMMA AppendedIs ==
  ASSUME NEW b, Sound(b), stdin \in Inputs, NEW n \in Nat, pos \in Nat, pos + n <= Len(stdin)
  PROVE  /\ Appended(b, n).size = b.size + postprocess_input(pos, n).kept
         /\ Appended(b, n).locked = (b.locked \/ postprocess_input(pos, n).kept < n)
<1>1. b \in Records(Memory(b.capacity)) /\ b.size \in Nat /\ b.locked \in BOOLEAN
  BY SoundIs
<1>2. PICK w : w = Write(b.buffer, b.start + b.size, From(pos, n))
  OBVIOUS
<1>3. PICK kept : kept = postprocess_input(pos, n).kept
  OBVIOUS
<1>4. Appended(b, n) = [b EXCEPT !.buffer = w, !.size = b.size + kept,
                                 !.locked = b.locked \/ kept < n]
  BY <1>2, <1>3 DEF Appended
<1> QED BY <1>1, <1>3, <1>4 DEF Records

LEMMA PeekShows ==
  ASSUME RegularFile, InputInv, NEW len \in 1 .. MaxLen, NEW r \in Peek(len), r.ok
  PROVE  Shown(r.pb, r.pos, len, peekbuffer_cp(r.pb, len, 0))
<1>1. /\ len \in Nat /\ len \in 0 .. SizeLimit /\ Sound(pb) /\ StdinOK /\ stdin \in Inputs
      /\ pb.size \in Nat /\ pos \in Nat /\ Len(stdin) \in Nat /\ pos <= Len(stdin)
  BY InputAssumption, PeekbufferAssumption, SoundIs, StdinType DEF InputInv, TypeOK, StdinOK
<1>2. OutcomeOK(r)
  BY <1>1, PeekOK
<1>3. Sound(r.pb) /\ r.pb.size \in Nat /\ r.pb.locked \in BOOLEAN
  BY <1>2, SoundIs DEF OutcomeOK
<1>4. Len(peekbuffer_cp(r.pb, len, 0)) = Smaller(len, r.pb.size)
  BY <1>1, <1>3, CpType
<1>5. SUFFICES r.pb.size >= len \/ r.pb.locked \/ r.pos = Len(stdin)
  BY <1>1, <1>3, <1>4 DEF Shown, Smaller
<1>6. CASE ~(len > pb.size)
  BY <1>1, <1>6 DEF Peek, Outcome
<1>7. CASE len > pb.size
  <2> DEFINE want == len - pb.size
             b    == peekbuffer_grow(pb, pb.size + want)
  <2>1. want \in Nat /\ pb.size + want = len /\ want > 0
    BY <1>1, <1>7
  <2>2. Sound(b) /\ b.size = pb.size
    BY <1>1, <1>7, <2>1, GrowMakesRoom
  <2> HIDE DEF b
  <2>3. r \in peekbuffer_read(want)
    BY <1>7 DEF Peek
  <2> HIDE DEF want
  <2>4. CASE r = Outcome(pb, pos, <<>>, TRUE) /\ pb.locked
    BY <2>4 DEF Outcome
  <2>5. ASSUME NEW n \in hook_input(want), n # -1,
               r = Outcome(Appended(b, n), postprocess_input(pos, n).pos, <<>>, TRUE)
        PROVE  r.pb.size >= len \/ r.pb.locked \/ r.pos = Len(stdin)
    <3>1. n \in 0 .. want /\ pos + n <= Len(stdin)
      BY <1>1, <2>1, <2>5, HookInputBounds
    <3>2. n = want \/ pos + n = Len(stdin)
      BY <1>1, <2>1, <2>5 DEF hook_input, Smaller
    <3>3. PICK kept, p : kept = postprocess_input(pos, n).kept /\ p = postprocess_input(pos, n).pos
      OBVIOUS
    <3>4. r.pb.size = b.size + kept /\ r.pb.locked = (b.locked \/ kept < n) /\ r.pos = p
      BY <1>1, <2>1, <2>2, <2>5, <3>1, <3>3, AppendedIs DEF Outcome
    <3>5. (kept \in Nat /\ kept < n) \/ (kept = n /\ p = pos + n)
      <4>1. \/ postprocess_input(pos, n) = [kept |-> n, pos |-> pos + n]
            \/ \E i \in 0 .. n - 1 :
                 postprocess_input(pos, n) = [kept |-> i, pos |-> pos + i + DELIMITER_LEN]
        BY <1>1, <2>1, <3>1, PostprocessFinds
      <4> QED BY <2>1, <3>1, <3>3, <4>1
    <3>6. CASE kept \in Nat /\ kept < n
      BY <3>4, <3>6
    <3>7. CASE kept = n /\ p = pos + n
      <4>1. r.pb.size = pb.size + n
        BY <2>2, <3>4, <3>7
      <4>2. CASE n = want
        BY <2>1, <4>1, <4>2
      <4>3. CASE pos + n = Len(stdin)
        BY <3>4, <3>7, <4>3
      <4> QED BY <3>2, <4>2, <4>3
    <3> QED BY <3>5, <3>6, <3>7
  <2>6. \/ r = Outcome(pb, pos, <<>>, TRUE) /\ pb.locked
        \/ r = Outcome(pb, pos, <<>>, FALSE)
        \/ r = Outcome(b, pos, <<>>, FALSE)
        \/ \E n \in hook_input(want) :
             n # -1 /\ r = Outcome(Appended(b, n), postprocess_input(pos, n).pos, <<>>, TRUE)
    BY <2>3 DEF peekbuffer_read, b
  <2> QED BY <2>4, <2>5, <2>6 DEF Outcome
<1> QED BY <1>6, <1>7

\* A recv that asks for as much takes what was shown.
LEMMA RecvTakesShown ==
  ASSUME InputInv, NEW len \in 1 .. MaxLen, NEW bytes, bytes # <<>>, Shown(pb, pos, len, bytes),
         NEW r \in Fill(len, WasLocked)
  PROVE  r.bytes = bytes
<1>1. /\ len \in Nat /\ Sound(pb) /\ StdinOK /\ stdin \in Inputs /\ pb.size \in Nat
      /\ pb.locked \in BOOLEAN /\ pos \in Nat /\ Len(stdin) \in Nat /\ pos <= Len(stdin)
  BY InputAssumption, PeekbufferAssumption, SoundIs, StdinType DEF InputInv, TypeOK, StdinOK
<1>2. /\ bytes = peekbuffer_cp(pb, len, 0) /\ bytes \in Seq(Offsets)
      /\ Len(bytes) = Smaller(len, pb.size) /\ pb.size > 0
  <2>1. /\ bytes = peekbuffer_cp(pb, len, 0) /\ bytes \in Seq(Offsets)
        /\ Len(bytes) = Smaller(len, pb.size)
    BY <1>1, CpType DEF Shown
  <2>2. Len(bytes) # 0
    BY <2>1
  <2> QED BY <1>1, <2>1, <2>2 DEF Smaller
<1> DEFINE b    == IF pb.size > 0 THEN peekbuffer_mv(pb, len) ELSE pb
           rest == len - Len(bytes)
<1>3. Fill(len, WasLocked) =
        IF WasLocked \/ rest = 0 THEN {Outcome(b, pos, bytes, TRUE)}
        ELSE {IF n = -1 THEN Outcome(b, pos, bytes, FALSE)
              ELSE LET new == postprocess_input(pos, n)
                   IN  Outcome(b, new.pos, bytes \o From(pos, new.kept), TRUE) :
                n \in hook_input(rest)}
  BY <1>2 DEF Fill
<1> HIDE DEF b
<1>4. CASE WasLocked \/ rest = 0
  BY <1>3, <1>4 DEF Outcome
<1>5. CASE ~(WasLocked \/ rest = 0)
  <2>1. pos = Len(stdin) /\ rest \in Nat
    <3>1. ~pb.locked
      BY <1>2, <1>5 DEF WasLocked
    <3> QED BY <1>1, <1>2, <1>5, <3>1 DEF Shown, Smaller
  <2>2. hook_input(rest) = {0}
    BY <1>1, <2>1 DEF hook_input, Smaller
  <2>3. postprocess_input(pos, 0).kept = 0
    <3>1. pos + 0 <= Len(stdin)
      BY <1>1
    <3>2. postprocess_input(pos, 0).kept \in 0 .. 0
      BY <1>1, <3>1, PostprocessBounds
    <3> QED BY <3>2
  <2>4. r.bytes = bytes \o From(pos, 0)
    <3>1. PICK n \in hook_input(rest) :
            r = IF n = -1 THEN Outcome(b, pos, bytes, FALSE)
                ELSE LET new == postprocess_input(pos, n)
                     IN  Outcome(b, new.pos, bytes \o From(pos, new.kept), TRUE)
      BY <1>3, <1>5
    <3>2. n = 0
      BY <2>2
    <3> QED BY <2>3, <3>1, <3>2 DEF Outcome
  <2>5. From(pos, 0) = <<>>
    BY DEF From
  <2> QED BY <1>2, <2>4, <2>5
<1> QED BY <1>4, <1>5
-----------------------------------------------------------------------------
\* What the last call returned, after a step: a recv, a peek, or nothing of recv's.
LEMMA Answers ==
  ASSUME InputInv, Next
  PROVE  /\ UNCHANGED stdin
         /\ \/ call' # NoCall /\ ret' = ret
            \/ call' = NoCall /\ ret'.fn # "recv"
            \/ \E len \in 1 .. MaxLen : \E r \in Fill(len, WasLocked) :
                 /\ call = NoCall /\ call' = NoCall /\ pb' = r.pb /\ pos' = r.pos
                 /\ Return("recv", FALSE, len, r.bytes, IF r.ok THEN Len(r.bytes) ELSE -1)
            \/ \E len \in 1 .. MaxLen : \E r \in Peek(len) :
                 /\ call' = NoCall /\ pb' = r.pb /\ pos' = r.pos
                 /\ ret'.fn = "recv" /\ ret'.peek /\ ret'.len = len
                 /\ ret'.bytes = IF r.ok THEN peekbuffer_cp(r.pb, len, 0) ELSE <<>>
<1>1. ASSUME NEW fn, NEW peek, NEW iov, Begin(fn, peek, iov), fn # "none"
      PROVE  call' # NoCall
  BY <1>1 DEF Begin, NoCall
<1>2. CASE Read
  BY <1>2 DEF Read, FillOne, Return, NoCall
<1>3. CASE Recv
  BY <1>3 DEF Recv, FillOne, NoCall
<1>4. CASE RecvPeek
  <2>1. PICK len \in 1 .. MaxLen :
          \E r \in Peek(len) :
            LET bytes == IF r.ok THEN peekbuffer_cp(r.pb, len, 0) ELSE <<>>
            IN  /\ pb' = r.pb /\ pos' = r.pos
                /\ Return("recv", TRUE, len, bytes, IF r.ok THEN Len(bytes) ELSE -1)
    BY <1>4 DEF RecvPeek
  <2>2. PICK r \in Peek(len) :
          LET bytes == IF r.ok THEN peekbuffer_cp(r.pb, len, 0) ELSE <<>>
          IN  /\ pb' = r.pb /\ pos' = r.pos
              /\ Return("recv", TRUE, len, bytes, IF r.ok THEN Len(bytes) ELSE -1)
    BY <2>1
  <2>3. UNCHANGED <<stdin, call>> /\ call = NoCall
    BY <1>4 DEF RecvPeek
  <2>4. /\ ret'.fn = "recv" /\ ret'.peek /\ ret'.len = len
        /\ ret'.bytes = IF r.ok THEN peekbuffer_cp(r.pb, len, 0) ELSE <<>>
    BY <2>2 DEF Return
  <2> QED BY <2>2, <2>3, <2>4
<1>5. CASE Readv
  BY <1>1, <1>5 DEF Readv
<1>6. ASSUME NEW fn \in {"recvmsg", "recvmmsg"}, NEW iov \in Iovs, RecvmsgCall(fn, iov)
      PROVE  UNCHANGED stdin /\ (\/ call' # NoCall /\ ret' = ret
                                 \/ call' = NoCall /\ ret'.fn # "recv")
  <2>1. UNCHANGED stdin /\ call = NoCall
    BY <1>6 DEF RecvmsgCall
  <2>2. CASE Begin(fn, FALSE, iov) /\ UNCHANGED <<pos, pb, ret>>
    BY <1>1, <1>6, <2>1, <2>2
  <2>3. ASSUME NEW r \in Peek(TotalLength(iov)),
               \/ r.ok /\ Begin(fn, TRUE, iov) /\ UNCHANGED ret
               \/ Return(fn, TRUE, TotalLength(iov), <<>>, -1) /\ UNCHANGED call
        PROVE  \/ call' # NoCall /\ ret' = ret
               \/ call' = NoCall /\ ret'.fn # "recv"
    <3>1. CASE Begin(fn, TRUE, iov) /\ UNCHANGED ret
      BY <1>1, <1>6, <3>1
    <3>2. CASE Return(fn, TRUE, TotalLength(iov), <<>>, -1) /\ UNCHANGED call
      BY <1>6, <2>1, <3>2 DEF Return
    <3> QED BY <2>3, <3>1, <3>2
  <2> QED BY <1>6, <2>1, <2>2, <2>3 DEF RecvmsgCall
<1>7. CASE Recvmsg \/ Recvmmsg
  BY <1>6, <1>7 DEF Recvmsg, Recvmmsg
<1>8. CASE FillNext
  <2>1. /\ call.fn \in {"readv", "recvmsg", "recvmmsg"} /\ UNCHANGED stdin
        /\ call \in [fn : {"readv", "recvmsg", "recvmmsg"}, peek : BOOLEAN, iov : Iovs,
                     i : Nat, bytes : Seq(Offsets)]
    BY <1>8 DEF FillNext, InputInv, TypeOK
  <2>2. \/ \E i, bytes : call' = [call EXCEPT !.i = i, !.bytes = bytes] /\ UNCHANGED ret
        \/ /\ call' = NoCall
           /\ \E len, bytes, n : Return(call.fn, call.peek, len, bytes, n)
    <3> DEFINE k   == call.i
               len == call.iov.ends[k] - (IF k = 1 THEN 0 ELSE call.iov.ends[k - 1])
    <3>1. PICK r : LET bytes == call.bytes \o r.bytes
                       short == Len(r.bytes) < len
                       none  == call.fn = "recvmmsg" /\ short /\ FirstMessage(call.iov, k)
                   IN  \/ /\ call' = [call EXCEPT !.i = k + 1, !.bytes = bytes]
                          /\ UNCHANGED ret
                       \/ /\ call' = NoCall
                          /\ Return(call.fn, call.peek, TotalLength(call.iov), bytes,
                                    IF ~r.ok THEN -1 ELSE IF none THEN 0 ELSE Len(bytes))
      BY <1>8 DEF FillNext
    <3> HIDE DEF len, k
    <3> QED BY <3>1
  <2>3. CASE \E i, bytes : call' = [call EXCEPT !.i = i, !.bytes = bytes] /\ UNCHANGED ret
    <3>1. call'.fn = call.fn
      BY <2>1, <2>3
    <3>2. call' # NoCall
      BY <2>1, <3>1 DEF NoCall
    <3> QED BY <2>1, <2>3, <3>2
  <2>4. CASE call' = NoCall /\ \E len, bytes, n : Return(call.fn, call.peek, len, bytes, n)
    BY <2>1, <2>4 DEF Return
  <2> QED BY <2>1, <2>2, <2>3, <2>4
<1> QED BY <1>2, <1>3, <1>4, <1>5, <1>7, <1>8 DEF Next

LEMMA PeekInvStep ==
  ASSUME RegularFile, InputInv, PeekInv, [Next]_vars
  PROVE  PeekInv'
<1>1. CASE UNCHANGED vars
  BY <1>1 DEF vars, PeekInv, Shown
<1>2. ASSUME NEW len \in 1 .. MaxLen, NEW r \in Peek(len), r.ok, pb' = r.pb, pos' = r.pos,
             ret'.len = len, ret'.bytes = peekbuffer_cp(r.pb, len, 0), UNCHANGED stdin
      PROVE  PeekInv'
  <2>1. Shown(r.pb, r.pos, len, peekbuffer_cp(r.pb, len, 0))
    BY <1>2, PeekShows
  <2> QED BY <1>2, <2>1 DEF PeekInv, Shown
<1>3. CASE Next
  <2>1. CASE call' # NoCall \/ ret'.fn # "recv" \/ ~ret'.peek \/ ret'.bytes = <<>>
    BY <2>1 DEF PeekInv, NoCall
  <2>2. CASE ~(call' # NoCall \/ ret'.fn # "recv" \/ ~ret'.peek \/ ret'.bytes = <<>>)
    <3>1. PICK len \in 1 .. MaxLen : \E r \in Peek(len) :
            /\ pb' = r.pb /\ pos' = r.pos /\ ret'.len = len
            /\ ret'.bytes = IF r.ok THEN peekbuffer_cp(r.pb, len, 0) ELSE <<>>
      BY <1>3, <2>2, Answers DEF Return
    <3>2. PICK r \in Peek(len) :
            /\ pb' = r.pb /\ pos' = r.pos /\ ret'.len = len
            /\ ret'.bytes = IF r.ok THEN peekbuffer_cp(r.pb, len, 0) ELSE <<>>
      BY <3>1
    <3>3. r.ok
      BY <2>2, <3>2
    <3>4. UNCHANGED stdin
      BY <1>3, Answers
    <3> QED BY <1>2, <3>2, <3>3, <3>4
  <2> QED BY <2>1, <2>2
<1> QED BY <1>1, <1>3

\* Input.tla, PeekShowsWhatRecvReturns: for every file, delimiter and length, a recv that
\* follows a recv with MSG_PEEK of the same length returns what that showed (read.c and
\* peekbuffer.c).  A pipe may have more to give by then.
THEOREM PeekThenRecv ==
  ASSUME RegularFile
  PROVE  Spec => PeekShowsWhatRecvReturns
<1> DEFINE Same == ret.fn = "recv" /\ ret.peek /\ ret.bytes # <<>>
                   /\ ret'.fn = "recv" /\ ~ret'.peek /\ ret'.len = ret.len
                   => ret'.bytes = ret.bytes
<1>1. Init => InputInv /\ PeekInv
  BY InputInit DEF Init, PeekInv
<1>2. InputInv /\ PeekInv /\ [Next]_vars => InputInv' /\ PeekInv'
  BY InputStep, PeekInvStep
<1>3. InputInv /\ PeekInv /\ [Next]_vars => [Same]_vars
  <2> SUFFICES ASSUME InputInv, PeekInv, Next, ret.fn = "recv", ret.peek, ret.bytes # <<>>,
                      ret'.fn = "recv", ~ret'.peek, ret'.len = ret.len
               PROVE  ret'.bytes = ret.bytes
    OBVIOUS
  <2>1. PICK len \in 1 .. MaxLen : \E r \in Fill(len, WasLocked) :
          /\ call = NoCall
          /\ Return("recv", FALSE, len, r.bytes, IF r.ok THEN Len(r.bytes) ELSE -1)
    BY Answers
  <2>2. PICK r \in Fill(len, WasLocked) :
          Return("recv", FALSE, len, r.bytes, IF r.ok THEN Len(r.bytes) ELSE -1)
    BY <2>1
  <2>3. ret'.len = len /\ ret'.bytes = r.bytes
    BY <2>2 DEF Return
  <2>4. Shown(pb, pos, len, ret.bytes)
    BY <2>1, <2>3 DEF PeekInv
  <2> QED BY <2>3, <2>4, RecvTakesShown
<1> QED BY <1>1, <1>2, <1>3, PTL DEF Spec, PeekShowsWhatRecvReturns
-----------------------------------------------------------------------------
(* The delimiters of an input: the definition is recursive, and the function it defines *)
(* exists because there is no least place up to which it does not.                      *)

\* g is right at p about whether a delimiter begins there
Begins(g, p) ==
  /\ MULTI_REQUEST
  /\ p + DELIMITER_LEN <= Len(stdin) /\ Matches(p, DELIMITER_LEN)
  /\ \A q \in 0 .. p - 1 : g[q] => q + DELIMITER_LEN <= p

LEMMA BeginsUpTo ==
  ASSUME Len(stdin) \in Nat, NEW m \in Nat
  PROVE  \E g \in [0 .. m - 1 -> BOOLEAN] : \A p \in 0 .. m - 1 : g[p] <=> Begins(g, p)
<1> DEFINE Part(n) == \E g \in [0 .. n - 1 -> BOOLEAN] :
                        \A p \in 0 .. n - 1 : g[p] <=> Begins(g, p)
           Bad     == {n \in Nat : ~Part(n)}
<1>1. SUFFICES ASSUME Bad # {}
               PROVE  FALSE
  OBVIOUS
<1>2. PICK n \in Nat : n \in Bad /\ \A y \in Bad : n <= y
  <2>1. Bad \in SUBSET Nat
    OBVIOUS
  <2> HIDE DEF Bad
  <2>2. Min(Bad) \in Bad /\ \A y \in Bad : Min(Bad) <= y
    BY <1>1, <2>1, MinOfNats
  <2> QED BY <2>1, <2>2
<1>3. CASE n = 0
  <2>1. Part(0)
    <3> DEFINE e == [p \in 0 .. 0 - 1 |-> TRUE]
    <3>1. e \in [0 .. 0 - 1 -> BOOLEAN]
      OBVIOUS
    <3>2. \A p \in 0 .. 0 - 1 : FALSE
      OBVIOUS
    <3> HIDE DEF e
    <3> QED BY <3>1, <3>2
  <2> HIDE DEF Part
  <2> QED BY <1>2, <1>3, <2>1
<1>4. CASE n > 0
  <2>1. n - 1 \in Nat /\ Part(n - 1)
    <3>1. n - 1 \in Nat /\ ~(n <= n - 1)
      BY <1>4
    <3>2. n - 1 \notin Bad
      BY <1>2, <3>1
    <3> HIDE DEF Part
    <3> QED BY <3>1, <3>2
  <2>2. PICK g \in [0 .. (n - 1) - 1 -> BOOLEAN] : \A p \in 0 .. (n - 1) - 1 : g[p] <=> Begins(g, p)
    BY <2>1
  <2> DEFINE h == [p \in 0 .. n - 1 |-> IF p < n - 1 THEN g[p] ELSE Begins(g, n - 1)]
  <2>3. h \in [0 .. n - 1 -> BOOLEAN]
    <3>1. \A p \in 0 .. n - 1 : p < n - 1 => g[p] \in BOOLEAN
      BY <1>4
    <3>2. Begins(g, n - 1) \in BOOLEAN
      BY DEF Begins
    <3> QED BY <3>1, <3>2
  <2>4. \A q \in 0 .. n - 2 : h[q] = g[q]
    BY <1>4
  <2>5. h[n - 1] <=> Begins(g, n - 1)
    BY <1>4
  <2> HIDE DEF h
  <2>6. ASSUME NEW p \in 0 .. n - 1
        PROVE  h[p] <=> Begins(h, p)
    <3>1. \A q \in 0 .. p - 1 : h[q] = g[q]
      BY <1>4, <2>4
    <3>2. Begins(h, p) <=> Begins(g, p)
      BY <3>1 DEF Begins
    <3>3. CASE p = n - 1
      BY <2>5, <3>2, <3>3
    <3>4. CASE p # n - 1
      <4>1. p \in 0 .. (n - 1) - 1 /\ p \in 0 .. n - 2
        BY <1>4, <3>4
      <4> QED BY <2>2, <2>4, <3>2, <4>1
    <3> QED BY <3>3, <3>4
  <2>7. Part(n)
    BY <2>3, <2>6
  <2> HIDE DEF Part
  <2> QED BY <1>2, <2>7
<1> QED BY <1>2, <1>3, <1>4

LEMMA DelimitersAre ==
  ASSUME stdin \in Inputs
  PROVE  \A p \in 0 .. Len(stdin) :
           p \in Delimiters <=> /\ MULTI_REQUEST /\ At(p)
                                /\ \A q \in Delimiters : q < p => q + DELIMITER_LEN <= p
<1> DEFINE N == Len(stdin)
<1>1. N \in Nat
  BY StdinType
<1>2. \E g : g = [p \in 0 .. N |-> Begins(g, p)]
  <2>1. N + 1 \in Nat /\ (N + 1) - 1 = N
    BY <1>1
  <2>2. PICK g \in [0 .. N -> BOOLEAN] : \A p \in 0 .. N : g[p] <=> Begins(g, p)
    BY <1>1, <2>1, BeginsUpTo
  <2>3. \A p \in 0 .. N : Begins(g, p) \in BOOLEAN
    BY DEF Begins
  <2>4. \A p \in 0 .. N : g[p] = Begins(g, p)
    BY <2>2, <2>3
  <2>5. g = [p \in 0 .. N |-> Begins(g, p)]
    BY <2>4
  <2> QED BY <2>5
<1> DEFINE f == CHOOSE g : g = [p \in 0 .. N |-> Begins(g, p)]
<1>3. f = [p \in 0 .. N |-> Begins(f, p)]
  BY <1>2
<1>4. Delimiters = {p \in 0 .. N : f[p]}
  BY DEF Delimiters, Begins
<1> HIDE DEF f
<1>5. \A p \in 0 .. N : f[p] = Begins(f, p)
  BY <1>3
<1>6. ASSUME NEW p \in 0 .. N
      PROVE  p \in Delimiters <=> /\ MULTI_REQUEST /\ At(p)
                                  /\ \A q \in Delimiters : q < p => q + DELIMITER_LEN <= p
  <2>1. p \in Delimiters <=> Begins(f, p)
    BY <1>4, <1>5
  <2>2. (\A q \in 0 .. p - 1 : f[q] => q + DELIMITER_LEN <= p)
          <=> (\A q \in Delimiters : q < p => q + DELIMITER_LEN <= p)
    <3>1. \A q \in 0 .. p - 1 : q \in 0 .. N /\ q < p
      BY <1>1
    <3>2. \A q \in 0 .. N : q < p => q \in 0 .. p - 1
      BY <1>1
    <3> HIDE DEF N
    <3> QED BY <1>4, <3>1, <3>2
  <2> QED BY <2>1, <2>2 DEF Begins, At
<1> QED BY <1>6
-----------------------------------------------------------------------------
(* Reading on in the input *)

\* no delimiter lies across offset p
Cut(p) == \A d \in Delimiters : d + DELIMITER_LEN <= p \/ p <= d

LEMMA DelimitersIn ==
  ASSUME stdin \in Inputs, NEW d \in Delimiters
  PROVE  /\ MULTI_REQUEST /\ d \in Nat /\ d <= Len(stdin) /\ At(d)
         /\ \A q \in Delimiters : q < d => q + DELIMITER_LEN <= d
<1>1. d \in 0 .. Len(stdin)
  BY DEF Delimiters
<1> QED BY <1>1, StdinType, DelimitersAre

\* What is kept of the bytes read at p is the payload up to where stdin is sought.
LEMMA ReadsPayload ==
  ASSUME stdin \in Inputs, NEW p \in Nat, NEW n \in Nat, p + n <= Len(stdin), Cut(p),
         NEW kept, NEW to, kept = postprocess_input(p, n).kept, to = postprocess_input(p, n).pos
  PROVE  /\ kept \in 0 .. n /\ to \in 0 .. Len(stdin) /\ p + kept <= to
         /\ Cut(to) /\ Payload(to) = Payload(p) \cup (p .. p + kept - 1)
         /\ \A d \in Delimiters : ~(p <= d /\ d < p + kept)
         /\ kept = n => to = p + n
         /\ kept < n => p + kept \in Delimiters /\ to = p + kept + DELIMITER_LEN
<1> DEFINE L == DELIMITER_LEN
<1>1. L \in Nat /\ L >= 1 /\ Len(stdin) \in Nat
  BY StdinType
<1>2. \A d \in Delimiters : /\ MULTI_REQUEST /\ d \in Nat /\ d <= Len(stdin) /\ At(d)
                            /\ d + L <= p \/ p <= d
                            /\ \A q \in Delimiters : q < d => q + L <= d
  BY DelimitersIn DEF Cut
<1> HIDE DEF L
<1>3. \A q : q \in Payload(p) <=> q \in 0 .. p - 1 /\ ~ \E d \in Delimiters : q \in d .. d + L - 1
  BY DEF Payload, L
<1>4. CASE /\ MULTI_REQUEST => \A i \in 0 .. n - 1 : ~At(p + i)
           /\ postprocess_input(p, n) = [kept |-> n, pos |-> p + n]
  <2>1. kept = n /\ to = p + n
    BY <1>4
  <2>2. \A d \in Delimiters : d < p \/ p + n <= d
    <3>1. ASSUME NEW d \in Delimiters, p <= d, d < p + n
          PROVE  FALSE
      <4>1. d \in Nat /\ MULTI_REQUEST /\ At(d)
        BY <1>2
      <4>2. d - p \in 0 .. n - 1 /\ p + (d - p) = d
        BY <3>1, <4>1
      <4> QED BY <1>4, <4>1, <4>2
    <3> QED BY <1>2, <3>1
  <2>3. Cut(to)
    BY <1>1, <1>2, <2>1, <2>2 DEF Cut, L
  <2>4. ASSUME NEW q \in p .. p + n - 1, NEW d \in Delimiters
        PROVE  q \notin d .. d + L - 1
    BY <1>1, <1>2, <2>2
  <2>5. Payload(to) = Payload(p) \cup (p .. p + n - 1)
    <3>1. \A q : q \in Payload(to) <=>
            q \in 0 .. p + n - 1 /\ ~ \E d \in Delimiters : q \in d .. d + L - 1
      BY <2>1 DEF Payload, L
    <3>2. \A q : q \in 0 .. p + n - 1 <=> q \in 0 .. p - 1 \/ q \in p .. p + n - 1
      OBVIOUS
    <3> QED BY <1>3, <2>4, <3>1, <3>2
  <2> QED BY <1>2, <2>1, <2>2, <2>3, <2>5
<1>5. ASSUME MULTI_REQUEST, NEW i \in 0 .. n - 1, At(p + i), \A j \in 0 .. i - 1 : ~At(p + j),
             postprocess_input(p, n) = [kept |-> i, pos |-> p + i + DELIMITER_LEN]
      PROVE  /\ kept = i /\ to = p + kept + L /\ to <= Len(stdin) /\ p + kept \in Delimiters
             /\ Cut(to) /\ Payload(to) = Payload(p) \cup (p .. p + kept - 1)
             /\ \A d \in Delimiters : ~(p <= d /\ d < p + kept)
  <2>1. kept = i /\ to = p + i + L
    BY <1>5 DEF L
  <2>2. p + i \in 0 .. Len(stdin) /\ p + i + L <= Len(stdin)
    BY <1>1, <1>5 DEF At, L
  <2>3. \A d \in Delimiters : d < p \/ p + i <= d
    <3>1. ASSUME NEW d \in Delimiters, p <= d, d < p + i
          PROVE  FALSE
      <4>1. d \in Nat /\ At(d)
        BY <1>2
      <4>2. d - p \in 0 .. i - 1 /\ p + (d - p) = d
        BY <3>1, <4>1
      <4> QED BY <1>5, <4>1, <4>2
    <3> QED BY <1>2, <3>1
  <2>4. p + i \in Delimiters
    <3>1. \A q \in Delimiters : q < p + i => q + L <= p + i
      BY <1>1, <1>2, <2>3
    <3> QED BY <1>5, <2>2, <3>1, DelimitersAre DEF L
  <2>5. Cut(to)
    <3>1. ASSUME NEW d \in Delimiters
          PROVE  d + L <= to \/ to <= d
      <4>1. d \in Nat /\ (d < p + i \/ d = p + i \/ p + i < d)
        BY <1>2
      <4>2. CASE p + i < d
        BY <1>2, <2>1, <2>4, <4>2
      <4>3. CASE d < p + i \/ d = p + i
        BY <1>1, <1>2, <2>1, <4>3
      <4> QED BY <4>1, <4>2, <4>3
    <3> QED BY <3>1 DEF Cut, L
  <2>6. \A q \in p .. p + i - 1 : \A d \in Delimiters : q \notin d .. d + L - 1
    BY <1>1, <1>2, <2>3
  <2>7. \A q \in p + i .. p + i + L - 1 : \E d \in Delimiters : q \in d .. d + L - 1
    BY <2>4
  <2>8. Payload(to) = Payload(p) \cup (p .. p + i - 1)
    <3>1. \A q : q \in Payload(to) <=>
            q \in 0 .. p + i + L - 1 /\ ~ \E d \in Delimiters : q \in d .. d + L - 1
      <4>1. 0 .. to - 1 = 0 .. p + i + L - 1
        BY <1>1, <2>1
      <4>2. \A q : q \in Payload(to) <=>
              q \in 0 .. to - 1 /\ ~ \E d \in Delimiters : q \in d .. d + L - 1
        BY DEF Payload, L
      <4> QED BY <4>1, <4>2
    <3>2. \A q : q \in 0 .. p + i + L - 1 <=>
            q \in 0 .. p - 1 \/ q \in p .. p + i - 1 \/ q \in p + i .. p + i + L - 1
      BY <1>1
    <3> QED BY <1>3, <2>6, <2>7, <3>1, <3>2
  <2> QED BY <1>2, <2>1, <2>2, <2>3, <2>4, <2>5, <2>8
<1>6. \/ /\ MULTI_REQUEST => \A i \in 0 .. n - 1 : ~At(p + i)
         /\ postprocess_input(p, n) = [kept |-> n, pos |-> p + n]
      \/ /\ MULTI_REQUEST
         /\ \E i \in 0 .. n - 1 :
              /\ At(p + i) /\ \A j \in 0 .. i - 1 : ~At(p + j)
              /\ postprocess_input(p, n) = [kept |-> i, pos |-> p + i + DELIMITER_LEN]
  BY PostprocessFinds
<1>7. CASE \E i \in 0 .. n - 1 :
             /\ MULTI_REQUEST /\ At(p + i) /\ \A j \in 0 .. i - 1 : ~At(p + j)
             /\ postprocess_input(p, n) = [kept |-> i, pos |-> p + i + DELIMITER_LEN]
  <2>1. PICK i \in 0 .. n - 1 :
             /\ MULTI_REQUEST /\ At(p + i) /\ \A j \in 0 .. i - 1 : ~At(p + j)
             /\ postprocess_input(p, n) = [kept |-> i, pos |-> p + i + DELIMITER_LEN]
    BY <1>7
  <2>2. /\ kept = i /\ to = p + kept + L /\ to <= Len(stdin) /\ p + kept \in Delimiters
        /\ Cut(to) /\ Payload(to) = Payload(p) \cup (p .. p + kept - 1)
        /\ \A d \in Delimiters : ~(p <= d /\ d < p + kept)
    BY <1>5, <2>1
  <2> QED BY <1>1, <2>2 DEF L
<1> QED BY <1>4, <1>6, <1>7
-----------------------------------------------------------------------------
(* Sequences of offsets *)

\* seq lists the elements of S in ascending order, said without counting them
Listed(seq, S) ==
  /\ seq \in Seq(Nat)
  /\ \A i, j \in 1 .. Len(seq) : i < j => seq[i] < seq[j]
  /\ \A q : q \in S <=> \E i \in 1 .. Len(seq) : seq[i] = q

LEMMA ListedLists ==
  ASSUME NEW seq, NEW S, Listed(seq, S)
  PROVE  Lists(seq, S)
<1> DEFINE n == Len(seq)
           f == [i \in 1 .. n |-> seq[i]]
<1>1. n \in Nat /\ seq \in Seq(Nat)
  BY DEF Listed
<1>2. f \in [1 .. n -> S]
  BY DEF Listed
<1>3. \A i, j \in 1 .. n : f[i] = f[j] => i = j
  <2>1. ASSUME NEW i \in 1 .. n, NEW j \in 1 .. n, f[i] = f[j], i < j
        PROVE  FALSE
    <3>1. seq[i] < seq[j] /\ seq[i] \in Nat /\ seq[i] = seq[j]
      BY <1>1, <2>1 DEF Listed
    <3> QED BY <3>1
  <2>2. \A i, j \in 1 .. n : i < j \/ j < i \/ i = j
    BY <1>1
  <2> QED BY <2>1, <2>2
<1>4. \A q \in S : \E i \in 1 .. n : f[i] = q
  BY DEF Listed
<1> HIDE DEF f
<1>5. ExistsBijection(1 .. n, S)
  <2>1. f \in Bijection(1 .. n, S)
    BY <1>2, <1>3, <1>4 DEF Bijection, Injection, Surjection, IsInjective
  <2> QED BY <2>1 DEF ExistsBijection
<1>6. IsFiniteSet(1 .. n) /\ Cardinality(1 .. n) = n
  <2>1. PICK m \in Nat : m = n
    BY <1>1
  <2>2. IsFiniteSet(1 .. m) /\ Cardinality(1 .. m) = IF 1 > m THEN 0 ELSE m - 1 + 1
    BY FS_Interval
  <2>3. (IF 1 > m THEN 0 ELSE m - 1 + 1) = m
    OBVIOUS
  <2> QED BY <2>1, <2>2, <2>3
<1>7. Cardinality(S) = n
  BY <1>5, <1>6, FS_Bijection
<1>8. \A i \in 1 .. n - 1 : seq[i] < seq[i + 1]
  BY <1>1 DEF Listed
<1>9. \A i \in 1 .. n : seq[i] \in S
  BY DEF Listed
<1> QED BY <1>7, <1>8, <1>9 DEF Lists

LEMMA SameSequence ==
  ASSUME NEW S, NEW s \in Seq(S), NEW t \in Seq(S), Len(s) = Len(t),
         \A i \in 1 .. Len(s) : s[i] = t[i]
  PROVE  s = t
OBVIOUS

LEMMA ListedNothing == Listed(<<>>, {})
BY DEF Listed

\* n further offsets from p on
LEMMA ListedAppends ==
  ASSUME NEW seq, NEW S, Listed(seq, S), NEW p \in Nat, \A q \in S : q < p, NEW n \in Nat
  PROVE  Listed(seq \o From(p, n), S \cup (p .. p + n - 1))
<1> DEFINE t == seq \o From(p, n)
           l == Len(seq)
<1>1. seq \in Seq(Nat) /\ l \in Nat
  BY DEF Listed
<1>2. From(p, n) \in Seq(Nat) /\ Len(From(p, n)) = n /\ \A i \in 1 .. n : From(p, n)[i] = p + i - 1
  <2>1. From(p, n) \in [1 .. n -> Nat]
    BY DEF From
  <2> QED BY <2>1 DEF From
<1>3. /\ t \in Seq(Nat) /\ Len(t) = l + n
      /\ \A i \in 1 .. l : t[i] = seq[i]
      /\ \A i \in l + 1 .. l + n : t[i] = p + (i - l) - 1
  <2>1. PICK u : u = From(p, n)
    OBVIOUS
  <2>2. u \in Seq(Nat) /\ Len(u) = n /\ \A i \in 1 .. n : u[i] = p + i - 1
    BY <1>2, <2>1
  <2>3. PICK v \in Seq(Nat) : v = seq
    BY <1>1
  <2>4. /\ v \o u \in Seq(Nat) /\ Len(v \o u) = Len(v) + n /\ Len(v) \in Nat
        /\ \A i \in 1 .. Len(v) : (v \o u)[i] = v[i]
        /\ \A i \in Len(v) + 1 .. Len(v) + n : (v \o u)[i] = u[i - Len(v)]
    BY <2>2
  <2>5. \A i \in Len(v) + 1 .. Len(v) + n : i - Len(v) \in 1 .. n
    BY <2>4
  <2>6. \A i \in Len(v) + 1 .. Len(v) + n : (v \o u)[i] = p + (i - Len(v)) - 1
    BY <2>2, <2>4, <2>5
  <2> QED BY <2>1, <2>3, <2>4, <2>6
<1> HIDE DEF t
<1>4. \A i \in 1 .. l : t[i] \in Nat /\ t[i] < p
  <2>1. \A i \in 1 .. l : seq[i] \in S /\ seq[i] \in Nat
    BY <1>1 DEF Listed
  <2> QED BY <1>3, <2>1
<1>5. ASSUME NEW i \in 1 .. l + n, NEW j \in 1 .. l + n, i < j
      PROVE  t[i] < t[j]
  <2>1. CASE j <= l
    <3>1. i \in 1 .. l /\ j \in 1 .. l
      BY <1>1, <1>5, <2>1
    <3> QED BY <1>3, <1>5, <3>1 DEF Listed
  <2>2. CASE j > l /\ i <= l
    <3>1. i \in 1 .. l /\ j \in l + 1 .. l + n
      BY <1>1, <2>2
    <3>2. t[i] < p /\ t[i] \in Nat /\ t[j] = p + (j - l) - 1
      BY <1>3, <1>4, <3>1
    <3> QED BY <1>1, <3>1, <3>2
  <2>3. CASE j > l /\ i > l
    <3>1. i \in l + 1 .. l + n /\ j \in l + 1 .. l + n
      BY <1>1, <2>3
    <3>2. t[i] = p + (i - l) - 1 /\ t[j] = p + (j - l) - 1
      BY <1>3, <3>1
    <3> QED BY <1>1, <1>5, <3>1, <3>2
  <2> QED BY <1>1, <2>1, <2>2, <2>3
<1>6. ASSUME NEW q
      PROVE  q \in S \cup (p .. p + n - 1) <=> \E i \in 1 .. l + n : t[i] = q
  <2>1. q \in S <=> \E i \in 1 .. l : t[i] = q
    BY <1>3 DEF Listed
  <2>2. q \in p .. p + n - 1 <=> \E i \in l + 1 .. l + n : t[i] = q
    <3>1. ASSUME q \in p .. p + n - 1
          PROVE  \E i \in l + 1 .. l + n : t[i] = q
      <4>1. q - p + l + 1 \in l + 1 .. l + n
        BY <1>1, <3>1
      <4>2. t[q - p + l + 1] = p + ((q - p + l + 1) - l) - 1
        BY <1>3, <4>1
      <4>3. t[q - p + l + 1] = q
        BY <1>1, <3>1, <4>2
      <4> QED BY <4>1, <4>3
    <3>2. ASSUME NEW i \in l + 1 .. l + n, t[i] = q
          PROVE  q \in p .. p + n - 1
      <4>1. q = p + (i - l) - 1
        BY <1>3, <3>2
      <4> QED BY <1>1, <4>1
    <3> QED BY <3>1, <3>2
  <2>3. \A i : i \in 1 .. l + n <=> i \in 1 .. l \/ i \in l + 1 .. l + n
    BY <1>1
  <2> QED BY <2>1, <2>2, <2>3
<1>7. Listed(t, S \cup (p .. p + n - 1))
  BY <1>3, <1>5, <1>6 DEF Listed
<1> QED BY <1>7 DEF t
-----------------------------------------------------------------------------
(* The bytes the peekbuffer holds *)

Held(b) == peekbuffer_cp(b, b.size, 0)

LEMMA CpIs ==
  ASSUME NEW b, Sound(b), NEW len \in Nat, NEW offset \in 0 .. b.size
  PROVE  /\ peekbuffer_cp(b, len, offset) \in Seq(Offsets)
         /\ Len(peekbuffer_cp(b, len, offset)) = Smaller(len, b.size - offset)
         /\ \A k \in 1 .. Smaller(len, b.size - offset) :
              peekbuffer_cp(b, len, offset)[k] = b.buffer[b.start + offset + k - 1]
<1>1. b.start \in Nat /\ b.size \in Nat /\ offset \in Nat
  BY SoundIs
<1>2. peekbuffer_cp(b, len, offset) \in Seq(Offsets)
  BY <1>1, CpType
<1>3. CASE offset = b.size
  <2>1. Smaller(len, b.size - offset) = 0
    BY <1>1, <1>3 DEF Smaller
  <2>2. peekbuffer_cp(b, len, offset) = <<>>
    BY <1>1, <1>3 DEF peekbuffer_cp
  <2> QED BY <1>2, <2>1, <2>2
<1>4. CASE offset < b.size
  <2>1. PICK n \in Nat : n = Smaller(len, b.size - offset)
    BY <1>1 DEF Smaller
  <2>2. peekbuffer_cp(b, len, offset) = [k \in 1 .. n |-> b.buffer[b.start + offset + k - 1]]
    BY <1>1, <1>4, <2>1 DEF peekbuffer_cp
  <2>3. Len(peekbuffer_cp(b, len, offset)) = n
    BY <1>2, <2>1, <2>2
  <2> QED BY <1>2, <2>1, <2>2, <2>3
<1> QED BY <1>1, <1>3, <1>4

LEMMA HeldIs ==
  ASSUME NEW b, Sound(b)
  PROVE  /\ Held(b) \in Seq(Offsets) /\ Len(Held(b)) = b.size /\ b.size \in Nat
         /\ \A k \in 1 .. b.size : Held(b)[k] = b.buffer[b.start + k - 1]
<1>1. b.start \in Nat /\ b.size \in Nat /\ 0 \in 0 .. b.size
  BY SoundIs
<1>2. Smaller(b.size, b.size - 0) = b.size
  BY <1>1 DEF Smaller
<1>3. PICK n \in Nat, z \in 0 .. b.size : n = b.size /\ z = 0
  BY <1>1
<1>4. /\ peekbuffer_cp(b, n, z) \in Seq(Offsets)
      /\ Len(peekbuffer_cp(b, n, z)) = Smaller(n, b.size - z)
      /\ \A k \in 1 .. Smaller(n, b.size - z) :
           peekbuffer_cp(b, n, z)[k] = b.buffer[b.start + z + k - 1]
  BY CpIs
<1>5. Held(b) = peekbuffer_cp(b, n, z)
  BY <1>3 DEF Held
<1>6. ASSUME NEW k \in 1 .. b.size
      PROVE  Held(b)[k] = b.buffer[b.start + k - 1]
  <2>1. b.start + z + k - 1 = b.start + k - 1
    BY <1>1, <1>3
  <2> QED BY <1>2, <1>3, <1>4, <1>5, <2>1
<1> QED BY <1>1, <1>2, <1>3, <1>4, <1>5, <1>6

\* A copy from offset on is that part of what is held.
LEMMA CpOfHeld ==
  ASSUME NEW b, Sound(b), NEW len \in Nat, NEW offset \in 0 .. b.size,
         NEW k \in 1 .. Len(peekbuffer_cp(b, len, offset))
  PROVE  offset + k \in 1 .. b.size /\ peekbuffer_cp(b, len, offset)[k] = Held(b)[offset + k]
<1>1. b.start \in Nat /\ b.size \in Nat /\ offset \in Nat
  BY SoundIs
<1>2. k \in 1 .. Smaller(len, b.size - offset)
  BY CpIs
<1>3. offset + k \in 1 .. b.size
  BY <1>1, <1>2 DEF Smaller
<1>4. peekbuffer_cp(b, len, offset)[k] = b.buffer[b.start + offset + k - 1]
  BY <1>2, CpIs
<1>5. Held(b)[offset + k] = b.buffer[b.start + (offset + k) - 1]
  BY <1>3, HeldIs
<1>6. b.start + offset + k - 1 = b.start + (offset + k) - 1
  BY <1>1, <1>2
<1> QED BY <1>3, <1>4, <1>5, <1>6

\* what peekbuffer_mv leaves behind when len bytes are taken
Rest(b, len) == IF b.size > 0 THEN peekbuffer_mv(b, len) ELSE b

LEMMA RestIs ==
  ASSUME NEW b, Sound(b), NEW len \in Nat
  PROVE  /\ Sound(Rest(b, len))
         /\ b.size <= len => Rest(b, len).size = 0
         /\ b.size > len => /\ Rest(b, len).size = b.size - len
                            /\ Rest(b, len).start = b.start + len
                            /\ Rest(b, len).buffer = b.buffer
                            /\ Rest(b, len).locked = b.locked
<1>1. b \in Records(Memory(b.capacity)) /\ b.start \in Nat /\ b.size \in Nat
  BY SoundIs
<1>2. Sound(Rest(b, len))
  BY MvSound DEF Rest
<1>3. b.size <= len => Rest(b, len).size = 0
  BY <1>1 DEF Rest, peekbuffer_mv, Records
<1>4. ASSUME b.size > len
      PROVE  Rest(b, len) = [b EXCEPT !.size = b.size - len, !.start = b.start + len]
  BY <1>1, <1>4 DEF Rest, peekbuffer_mv
<1> QED BY <1>1, <1>2, <1>3, <1>4 DEF Records

\* s followed by t
LEMMA Joined ==
  ASSUME NEW S, NEW s \in Seq(S), NEW t \in Seq(S)
  PROVE  /\ s \o t \in Seq(S) /\ Len(s \o t) = Len(s) + Len(t) /\ Len(s) \in Nat /\ Len(t) \in Nat
         /\ \A i \in 1 .. Len(s) : (s \o t)[i] = s[i]
         /\ \A i \in 1 .. Len(t) : (s \o t)[Len(s) + i] = t[i]
OBVIOUS

LEMMA RestHolds ==
  ASSUME NEW b, Sound(b), NEW len \in Nat
  PROVE  Held(b) = peekbuffer_cp(b, len, 0) \o Held(Rest(b, len))
<1> DEFINE s == peekbuffer_cp(b, len, 0)
           t == Held(Rest(b, len))
<1>1. b.start \in Nat /\ b.size \in Nat /\ 0 \in 0 .. b.size
  BY SoundIs
<1>2. /\ s \in Seq(Offsets) /\ Len(s) = Smaller(len, b.size - 0)
      /\ \A k \in 1 .. Len(s) : s[k] = b.buffer[b.start + 0 + k - 1]
  <2>1. /\ s \in Seq(Offsets) /\ Len(s) = Smaller(len, b.size - 0)
        /\ \A k \in 1 .. Smaller(len, b.size - 0) : s[k] = b.buffer[b.start + 0 + k - 1]
    BY <1>1, CpIs
  <2> HIDE DEF s
  <2> QED BY <2>1
<1>3. /\ t \in Seq(Offsets) /\ Len(t) = Rest(b, len).size
      /\ \A k \in 1 .. Rest(b, len).size : t[k] = Rest(b, len).buffer[Rest(b, len).start + k - 1]
  BY RestIs, HeldIs
<1>4. /\ Held(b) \in Seq(Offsets) /\ Len(Held(b)) = b.size
      /\ \A k \in 1 .. b.size : Held(b)[k] = b.buffer[b.start + k - 1]
  BY HeldIs
<1> HIDE DEF s, t
<1>5. CASE b.size <= len
  <2>1. Len(s) = b.size /\ t = <<>>
    <3>1. Rest(b, len).size = 0
      BY <1>5, RestIs
    <3>2. t = <<>>
      BY <1>3, <3>1
    <3>3. Len(s) = b.size
      BY <1>1, <1>2, <1>5 DEF Smaller
    <3> QED BY <3>2, <3>3
  <2>2. s \o t = s
    BY <1>2, <2>1
  <2>3. \A k \in 1 .. b.size : s[k] = Held(b)[k]
    BY <1>1, <1>2, <1>4, <2>1
  <2>4. s = Held(b)
    BY <1>2, <1>4, <2>1, <2>3, SameSequence
  <2> QED BY <2>2, <2>4 DEF s, t
<1>6. CASE b.size > len
  <2>1. /\ Len(s) = len /\ Len(t) = b.size - len
        /\ \A k \in 1 .. b.size - len : t[k] = b.buffer[b.start + len + k - 1]
    <3>1. /\ Rest(b, len).size = b.size - len /\ Rest(b, len).start = b.start + len
          /\ Rest(b, len).buffer = b.buffer
      BY <1>6, RestIs
    <3>2. Len(s) = len
      BY <1>1, <1>2, <1>6 DEF Smaller
    <3> QED BY <1>3, <3>1, <3>2
  <2>2. PICK u, v : u = s /\ v = t
    OBVIOUS
  <2>3. /\ u \o v \in Seq(Offsets) /\ Len(u \o v) = b.size
        /\ \A k \in 1 .. len : (u \o v)[k] = u[k]
        /\ \A k \in len + 1 .. b.size : (u \o v)[k] = v[k - len]
    <3>1. u \in Seq(Offsets) /\ v \in Seq(Offsets) /\ Len(u) = len /\ Len(v) = b.size - len
      BY <1>2, <1>3, <2>1, <2>2
    <3>2. /\ u \o v \in Seq(Offsets) /\ Len(u \o v) = Len(u) + Len(v)
          /\ \A i \in 1 .. Len(u) : (u \o v)[i] = u[i]
          /\ \A i \in 1 .. Len(v) : (u \o v)[Len(u) + i] = v[i]
      <4>1. u \in Seq(Offsets) /\ v \in Seq(Offsets)
        BY <3>1
      <4> QED BY <4>1, Joined
    <3>3. len + (b.size - len) = b.size
      BY <1>1
    <3>4. ASSUME NEW k \in len + 1 .. b.size
          PROVE  (u \o v)[k] = v[k - len]
      <4>1. k - len \in 1 .. b.size - len /\ len + (k - len) = k
        BY <1>1
      <4> QED BY <3>1, <3>2, <4>1
    <3> QED BY <3>1, <3>2, <3>3, <3>4
  <2>4. ASSUME NEW k \in 1 .. b.size
        PROVE  Held(b)[k] = (u \o v)[k]
    <3>1. Held(b)[k] = b.buffer[b.start + k - 1]
      BY <1>4
    <3>2. CASE k <= len
      <4>1. k \in 1 .. len /\ k \in 1 .. Len(s)
        BY <2>1, <3>2
      <4>2. (u \o v)[k] = s[k]
        BY <2>2, <2>3, <4>1
      <4>3. s[k] = b.buffer[b.start + 0 + k - 1]
        BY <1>2, <4>1
      <4>4. b.start + 0 + k - 1 = b.start + k - 1
        BY <1>1
      <4> QED BY <3>1, <4>2, <4>3, <4>4
    <3>3. CASE k > len
      <4>1. k \in len + 1 .. b.size /\ k - len \in 1 .. b.size - len
        BY <1>1, <3>3
      <4>2. (u \o v)[k] = b.buffer[b.start + len + (k - len) - 1]
        BY <2>1, <2>2, <2>3, <4>1
      <4>3. b.start + len + (k - len) - 1 = b.start + k - 1
        BY <1>1, <4>1
      <4> QED BY <3>1, <4>2, <4>3
    <3>4. k <= len \/ k > len
      BY <1>1
    <3> QED BY <3>2, <3>3, <3>4
  <2>5. Held(b) = u \o v
    BY <1>4, <2>3, <2>4, SameSequence
  <2> QED BY <2>2, <2>5 DEF s, t
<1> QED BY <1>1, <1>5, <1>6
-----------------------------------------------------------------------------
LEMMA HeldBy ==
  ASSUME NEW b, Sound(b), NEW s \in Seq(Offsets), Len(s) = b.size,
         \A k \in 1 .. b.size : s[k] = b.buffer[b.start + k - 1]
  PROVE  Held(b) = s
<1>1. \A k \in 1 .. b.size : Held(b)[k] = s[k]
  BY HeldIs
<1> QED BY <1>1, HeldIs, SameSequence

LEMMA GrowKeeps ==
  ASSUME NEW b, Sound(b), NEW new_size \in Nat, b.size <= new_size, new_size <= SizeLimit
  PROVE  Held(peekbuffer_grow(b, new_size)) = Held(b)
<1>1. /\ b \in Records(Memory(b.capacity)) /\ b.start \in Nat /\ b.size \in Nat
      /\ b.capacity \in Nat /\ b.start + b.size <= b.capacity
      /\ DOMAIN b.buffer = 0 .. b.capacity - 1
  BY SoundIs DEF Sound
<1>2. /\ Held(b) \in Seq(Offsets) /\ Len(Held(b)) = b.size
      /\ \A k \in 1 .. b.size : Held(b)[k] = b.buffer[b.start + k - 1]
  BY HeldIs
<1>3. ASSUME NEW c, Sound(c), c.start = 0, c.size = b.size,
             \A k \in 0 .. b.size - 1 : c.buffer[k] = b.buffer[b.start + k]
      PROVE  Held(c) = Held(b)
  <2>1. ASSUME NEW k \in 1 .. c.size
        PROVE  Held(b)[k] = c.buffer[c.start + k - 1]
    <3>1. k - 1 \in 0 .. b.size - 1 /\ c.start + k - 1 = k - 1 /\ b.start + (k - 1) = b.start + k - 1
      BY <1>1, <1>3
    <3>2. c.buffer[k - 1] = b.buffer[b.start + (k - 1)]
      BY <1>3, <3>1
    <3> QED BY <1>2, <1>3, <3>1, <3>2
  <2> QED BY <1>2, <1>3, <2>1, HeldBy
<1>4. CASE b.start + new_size <= b.capacity
  BY <1>4 DEF peekbuffer_grow
<1>5. CASE ~(b.start + new_size <= b.capacity) /\ new_size <= b.capacity
  <2>1. Sound(Moved(b)) /\ Moved(b).size = b.size /\ Moved(b).start = 0
    BY MovedSound
  <2> DEFINE m == [k \in DOMAIN b.buffer |-> IF k < b.size THEN b.buffer[b.start + k] ELSE b.buffer[k]]
  <2>2. \A k \in 0 .. b.size - 1 : m[k] = b.buffer[b.start + k]
    BY <1>1
  <2>3. Moved(b) = [b EXCEPT !.start = 0, !.buffer = m]
    BY DEF Moved
  <2> HIDE DEF m
  <2>4. Moved(b).buffer = m
    BY <1>1, <2>3 DEF Records
  <2>5. Held(Moved(b)) = Held(b)
    BY <1>3, <2>1, <2>2, <2>4
  <2> QED BY <1>5, <2>5 DEF peekbuffer_grow
<1>6. CASE ~(b.start + new_size <= b.capacity) /\ ~(new_size <= b.capacity)
  <2>1. /\ Sound(Reallocated(b, new_size)) /\ Reallocated(b, new_size).size = b.size
        /\ Reallocated(b, new_size).start = 0
    BY ReallocatedSound
  <2> DEFINE c == next_pow_2(new_size)
             m == [k \in 0 .. c - 1 |-> IF k < b.size THEN b.buffer[b.start + k] ELSE Junk]
  <2>2. \A k \in 0 .. b.size - 1 : m[k] = b.buffer[b.start + k]
    <3>1. c \in Nat /\ c >= new_size
      BY NextPow2Reaches
    <3> HIDE DEF c
    <3> QED BY <1>1, <3>1
  <2>3. Reallocated(b, new_size) = [b EXCEPT !.start = 0, !.capacity = c, !.buffer = m]
    BY DEF Reallocated
  <2> HIDE DEF m, c
  <2>4. Reallocated(b, new_size).buffer = m
    BY <1>1, <2>3 DEF Records
  <2>5. Held(Reallocated(b, new_size)) = Held(b)
    BY <1>3, <2>1, <2>2, <2>4
  <2> QED BY <1>6, <2>5 DEF peekbuffer_grow
<1> QED BY <1>4, <1>5, <1>6

LEMMA FromIs ==
  ASSUME NEW p \in Nat, NEW n \in Nat
  PROVE  From(p, n) \in Seq(Nat) /\ Len(From(p, n)) = n /\ \A i \in 1 .. n : From(p, n)[i] = p + i - 1
<1>1. From(p, n) \in [1 .. n -> Nat]
  BY DEF From
<1> QED BY <1>1 DEF From

LEMMA Places ==
  ASSUME NEW s \in Nat, NEW z \in Nat, NEW n \in Nat, NEW i \in 1 .. n
  PROVE  /\ s + (z + i) - 1 \in s + z .. s + z + n - 1
         /\ (s + (z + i) - 1) - (s + z) + 1 = i
OBVIOUS

LEMMA Beyond ==
  ASSUME NEW z \in Nat, NEW n \in Nat, NEW m \in 0 .. n, NEW k \in 1 .. z + m, k > z
  PROVE  k - z \in 1 .. m /\ k = z + (k - z)
OBVIOUS

LEMMA AppendKeeps ==
  ASSUME StdinOK, NEW b, Sound(b), NEW n \in Nat, pos + n <= Len(stdin),
         b.start + b.size + n <= b.capacity
  PROVE  Held(Appended(b, n)) = Held(b) \o From(pos, postprocess_input(pos, n).kept)
<1> DEFINE at == b.start + b.size
           f  == From(pos, n)
           w  == Write(b.buffer, at, f)
<1>1. pos \in Nat /\ stdin \in Inputs /\ Len(stdin) \in Nat
  BY StdinType DEF StdinOK
<1>2. PICK kept \in 0 .. n : kept = postprocess_input(pos, n).kept
  BY <1>1, PostprocessBounds
<1>3. /\ b \in Records(Memory(b.capacity)) /\ b.start \in Nat /\ b.size \in Nat
      /\ b.capacity \in Nat /\ DOMAIN b.buffer = 0 .. b.capacity - 1
  BY SoundIs DEF Sound
<1>4. PICK l : l = (b.locked \/ kept < n)
  OBVIOUS
<1>5. Appended(b, n) = [b EXCEPT !.buffer = w, !.size = b.size + kept, !.locked = l]
  BY <1>2, <1>4 DEF Appended
<1>6. Len(f) = n /\ \A i \in 1 .. n : f[i] = pos + i - 1
  BY <1>1, FromIs
<1> HIDE DEF f
<1>7. /\ \A k \in b.start .. at - 1 : w[k] = b.buffer[k]
      /\ \A k \in at .. at + n - 1 : w[k] = f[k - at + 1]
  <2>1. w = [k \in (0 .. b.capacity - 1) \cup (at .. at + n - 1) |->
               IF k \in at .. at + n - 1 THEN f[k - at + 1] ELSE b.buffer[k]]
    BY <1>3, <1>6 DEF Write
  <2>2. ASSUME NEW k \in b.start .. at - 1
        PROVE  k \in 0 .. b.capacity - 1 /\ k \notin at .. at + n - 1
    BY <1>3
  <2> HIDE DEF w, at
  <2> QED BY <2>1, <2>2
<1> HIDE DEF w
<1>8. Sound(Appended(b, n))
  BY AppendedSound
<1>9. /\ Appended(b, n).buffer = w /\ Appended(b, n).size = b.size + kept
      /\ Appended(b, n).start = b.start
  BY <1>3, <1>5 DEF Records
<1>10. PICK u, v : u = Held(b) /\ v = From(pos, kept)
  OBVIOUS
<1>11. /\ u \in Seq(Offsets) /\ Len(u) = b.size
       /\ \A k \in 1 .. b.size : u[k] = b.buffer[b.start + k - 1]
  BY <1>10, HeldIs
<1>12. v \in Seq(Offsets) /\ Len(v) = kept /\ \A i \in 1 .. kept : v[i] = pos + i - 1
  <2>1. kept \in Nat /\ pos + kept <= Len(stdin)
    BY <1>1, <1>2
  <2> QED BY <1>1, <1>10, <2>1, FromIs, FromType
<1>13. /\ u \o v \in Seq(Offsets) /\ Len(u \o v) = b.size + kept
       /\ \A i \in 1 .. b.size : (u \o v)[i] = u[i]
       /\ \A i \in 1 .. kept : (u \o v)[b.size + i] = v[i]
  <2>1. /\ u \o v \in Seq(Offsets) /\ Len(u \o v) = Len(u) + Len(v)
        /\ \A i \in 1 .. Len(u) : (u \o v)[i] = u[i]
        /\ \A i \in 1 .. Len(v) : (u \o v)[Len(u) + i] = v[i]
    <3>1. u \in Seq(Offsets) /\ v \in Seq(Offsets)
      BY <1>11, <1>12
    <3> QED BY <3>1, Joined
  <2> QED BY <1>11, <1>12, <2>1
<1>14. ASSUME NEW k \in 1 .. b.size + kept
       PROVE  (u \o v)[k] = w[b.start + k - 1]
  <2>1. CASE k <= b.size
    <3>1. k \in 1 .. b.size /\ b.start + k - 1 \in b.start .. at - 1
      BY <1>3, <2>1
    <3> QED BY <1>7, <1>11, <1>13, <3>1
  <2>2. CASE k > b.size
    <3>1. PICK i \in 1 .. kept : k = b.size + i
      <4>1. k - b.size \in 1 .. kept /\ k = b.size + (k - b.size)
        BY <1>2, <1>3, <2>2, Beyond
      <4> QED BY <4>1
    <3>2. /\ b.start + k - 1 \in at .. at + n - 1 /\ (b.start + k - 1) - at + 1 = i
          /\ i \in 1 .. n
      <4>1. i \in 1 .. n /\ at = b.start + b.size
        BY <1>2, <3>1
      <4> QED BY <1>3, <3>1, <4>1, Places
    <3>3. w[b.start + k - 1] = f[i]
      BY <1>7, <3>2
    <3> QED BY <1>6, <1>12, <1>13, <3>1, <3>2, <3>3
  <2>3. k <= b.size \/ k > b.size
    BY <1>3
  <2> QED BY <2>1, <2>2, <2>3
<1>15. Held(Appended(b, n)) = u \o v
  BY <1>8, <1>9, <1>13, <1>14, HeldBy
<1> QED BY <1>2, <1>10, <1>15
-----------------------------------------------------------------------------
(* What the functions that read leave behind, as sequences of bytes *)

LEMMA GrowKeepsLock ==
  ASSUME NEW b, Sound(b), NEW new_size
  PROVE  peekbuffer_grow(b, new_size).locked = b.locked
<1>1. b \in Records(Memory(b.capacity))
  BY SoundIs
<1>2. Moved(b).locked = b.locked
  BY MovedSound
<1>3. Reallocated(b, new_size).locked = b.locked
  <2> DEFINE c == next_pow_2(new_size)
             m == [k \in 0 .. c - 1 |-> IF k < b.size THEN b.buffer[b.start + k] ELSE Junk]
  <2>1. Reallocated(b, new_size) = [b EXCEPT !.start = 0, !.capacity = c, !.buffer = m]
    BY DEF Reallocated
  <2> HIDE DEF m, c
  <2> QED BY <1>1, <2>1 DEF Records
<1> QED BY <1>2, <1>3 DEF peekbuffer_grow

\* r reads n bytes of stdin after the bytes s
ReadsOn(s, after, r, n) ==
  /\ n \in Nat /\ pos + n <= Len(stdin)
  /\ after = s \o From(pos, postprocess_input(pos, n).kept)
  /\ r.pos = postprocess_input(pos, n).pos

LEMMA PeekIs ==
  ASSUME InputInv, NEW len \in 0 .. SizeLimit, NEW r \in Peek(len)
  PROVE  \/ /\ Held(r.pb) = Held(pb) /\ r.pb.size = pb.size /\ r.pb.locked = pb.locked
            /\ r.pos = pos
         \/ /\ ~pb.locked
            /\ \E n : /\ ReadsOn(Held(pb), Held(r.pb), r, n)
                      /\ r.pb.locked = (postprocess_input(pos, n).kept < n)
<1>1. SizeLimit \in Nat /\ len \in Nat
  BY PeekbufferAssumption
<1>2. /\ Sound(pb) /\ StdinOK /\ stdin \in Inputs /\ pos \in Nat
      /\ pb.size \in Nat /\ pb.locked \in BOOLEAN
  BY SoundIs, StdinType DEF InputInv, TypeOK, StdinOK
<1>3. CASE r = Outcome(pb, pos, <<>>, TRUE) \/ r = Outcome(pb, pos, <<>>, FALSE)
  BY <1>3 DEF Outcome
<1>4. CASE len > pb.size
  <2> DEFINE want == len - pb.size
             b    == peekbuffer_grow(pb, pb.size + want)
  <2>1. want \in Nat /\ pb.size + want = len
    BY <1>1, <1>2, <1>4
  <2>2. /\ Sound(b) /\ b.size = pb.size /\ b.start + len <= b.capacity
        /\ Held(b) = Held(pb) /\ b.locked = pb.locked
    BY <1>1, <1>2, <1>4, <2>1, GrowMakesRoom, GrowKeeps, GrowKeepsLock
  <2> HIDE DEF b
  <2>3. r \in peekbuffer_read(want)
    BY <1>4 DEF Peek
  <2> HIDE DEF want
  <2>4. CASE r = Outcome(b, pos, <<>>, FALSE)
    BY <2>2, <2>4 DEF Outcome
  <2>5. ASSUME NEW n \in hook_input(want), n # -1, ~pb.locked,
               r = Outcome(Appended(b, n), postprocess_input(pos, n).pos, <<>>, TRUE)
        PROVE  \E m : /\ ReadsOn(Held(pb), Held(r.pb), r, m)
                      /\ r.pb.locked = (postprocess_input(pos, m).kept < m)
    <3>1. n \in Nat /\ n <= want /\ pos + n <= Len(stdin)
      BY <1>2, <2>1, <2>5, HookInputBounds
    <3>2. b.start + b.size + n <= b.capacity
      <4>1. b.start \in Nat /\ b.size \in Nat /\ b.capacity \in Nat
        BY <2>2, SoundIs
      <4>2. b.size + n <= len
        BY <1>2, <2>1, <2>2, <3>1
      <4> QED BY <1>1, <2>2, <3>1, <4>1, <4>2
    <3>3. r.pb = Appended(b, n) /\ r.pos = postprocess_input(pos, n).pos
      BY <2>5 DEF Outcome
    <3>4. Held(r.pb) = Held(pb) \o From(pos, postprocess_input(pos, n).kept)
      BY <1>2, <2>2, <3>1, <3>2, <3>3, AppendKeeps
    <3>5. r.pb.locked = (b.locked \/ postprocess_input(pos, n).kept < n)
      BY <1>2, <2>2, <3>1, <3>3, AppendedIs
    <3>6. ReadsOn(Held(pb), Held(r.pb), r, n)
      BY <3>1, <3>3, <3>4 DEF ReadsOn
    <3>7. b.locked = FALSE
      BY <1>2, <2>2, <2>5
    <3>8. r.pb.locked = (postprocess_input(pos, n).kept < n)
      BY <3>5, <3>7
    <3> QED BY <3>6, <3>8
  <2>6. \/ r = Outcome(pb, pos, <<>>, TRUE) \/ r = Outcome(pb, pos, <<>>, FALSE)
        \/ r = Outcome(b, pos, <<>>, FALSE)
        \/ ~pb.locked /\ \E n \in hook_input(want) :
             n # -1 /\ r = Outcome(Appended(b, n), postprocess_input(pos, n).pos, <<>>, TRUE)
    BY <2>3 DEF peekbuffer_read, b
  <2>7. CASE ~pb.locked /\ \E n \in hook_input(want) :
               n # -1 /\ r = Outcome(Appended(b, n), postprocess_input(pos, n).pos, <<>>, TRUE)
    BY <2>5, <2>7
  <2> QED BY <1>3, <2>4, <2>6, <2>7
<1>5. CASE ~(len > pb.size)
  BY <1>3, <1>5 DEF Peek
<1> QED BY <1>4, <1>5

LEMMA FillIs ==
  ASSUME InputInv, NEW len \in Nat, NEW stops, NEW r \in Fill(len, stops)
  PROVE  /\ r.pb = Rest(pb, len)
         /\ \/ r.pos = pos /\ r.bytes = peekbuffer_cp(pb, len, 0)
            \/ /\ ~stops /\ Held(Rest(pb, len)) = <<>> /\ Rest(pb, len).size = 0
               /\ \E n : ReadsOn(Held(pb), r.bytes, r, n)
<1> DEFINE moved == peekbuffer_cp(pb, len, 0)
           b     == IF pb.size > 0 THEN peekbuffer_mv(pb, len) ELSE pb
           rest  == len - Len(moved)
<1>1. /\ Sound(pb) /\ StdinOK /\ stdin \in Inputs /\ pos \in Nat /\ pb.size \in Nat
      /\ 0 \in 0 .. pb.size
  BY SoundIs, StdinType DEF InputInv, TypeOK, StdinOK
<1>2. moved \in Seq(Offsets) /\ Len(moved) = Smaller(len, pb.size - 0)
  BY <1>1, CpIs
<1>3. b = Rest(pb, len)
  BY DEF Rest
<1>4. \/ r = Outcome(b, pos, moved, TRUE)
      \/ r = Outcome(b, pos, moved, FALSE)
      \/ /\ ~stops /\ rest # 0
         /\ \E n \in hook_input(rest) :
              /\ n # -1
              /\ r = Outcome(b, postprocess_input(pos, n).pos,
                             moved \o From(pos, postprocess_input(pos, n).kept), TRUE)
  BY DEF Fill
<1> HIDE DEF moved, b
<1>5. CASE r = Outcome(b, pos, moved, TRUE) \/ r = Outcome(b, pos, moved, FALSE)
  BY <1>3, <1>5 DEF Outcome, moved
<1>6. ASSUME ~stops, rest # 0, NEW n \in hook_input(rest), n # -1,
             r = Outcome(b, postprocess_input(pos, n).pos,
                         moved \o From(pos, postprocess_input(pos, n).kept), TRUE)
      PROVE  /\ r.pb = Rest(pb, len) /\ Held(Rest(pb, len)) = <<>> /\ Rest(pb, len).size = 0
             /\ \E m : ReadsOn(Held(pb), r.bytes, r, m)
  <2>1. rest \in Nat /\ pb.size <= len
    BY <1>1, <1>2, <1>6 DEF Smaller
  <2>2. n \in Nat /\ pos + n <= Len(stdin)
    BY <1>1, <1>6, <2>1, HookInputBounds
  <2>3. Sound(Rest(pb, len)) /\ Rest(pb, len).size = 0
    BY <1>1, <2>1, RestIs
  <2>4. Held(Rest(pb, len)) = <<>>
    BY <2>3, HeldIs
  <2>5. Held(pb) = moved
    <3>1. Held(pb) = moved \o <<>>
      BY <1>1, <2>4, RestHolds DEF moved
    <3> QED BY <1>2, <3>1
  <2>6. /\ r.pb = b /\ r.pos = postprocess_input(pos, n).pos
        /\ r.bytes = moved \o From(pos, postprocess_input(pos, n).kept)
    BY <1>6 DEF Outcome
  <2> QED BY <1>3, <2>2, <2>3, <2>4, <2>5, <2>6 DEF ReadsOn
<1> QED BY <1>4, <1>5, <1>6
-----------------------------------------------------------------------------
(* Nothing is lost *)

\* What the application was given, s, and what the peekbuffer holds is the payload before p.
Told(s, b, p) == Cut(p) /\ Listed(s \o Held(b), Payload(p))

LEMMA ReadsPayloadOn ==
  ASSUME InputInv, NEW s, Cut(pos), Listed(s, Payload(pos)),
         NEW n \in Nat, pos + n <= Len(stdin)
  PROVE  /\ Cut(postprocess_input(pos, n).pos)
         /\ Listed(s \o From(pos, postprocess_input(pos, n).kept),
                   Payload(postprocess_input(pos, n).pos))
<1>1. stdin \in Inputs /\ pos \in Nat
  BY StdinType DEF InputInv, TypeOK
<1>2. PICK kept, to : kept = postprocess_input(pos, n).kept /\ to = postprocess_input(pos, n).pos
  OBVIOUS
<1>3. /\ kept \in Nat /\ Cut(to) /\ Payload(to) = Payload(pos) \cup (pos .. pos + kept - 1)
  BY <1>1, <1>2, ReadsPayload
<1>4. \A q \in Payload(pos) : q < pos
  BY <1>1 DEF Payload
<1>5. Listed(s \o From(pos, kept), Payload(pos) \cup (pos .. pos + kept - 1))
  BY <1>1, <1>3, <1>4, ListedAppends
<1> QED BY <1>2, <1>3, <1>5

LEMMA Associative ==
  ASSUME NEW s \in Seq(Nat), NEW t \in Seq(Nat), NEW u \in Seq(Nat)
  PROVE  (s \o t) \o u = s \o (t \o u)
<1>1. PICK st, tu : st = s \o t /\ tu = t \o u
  OBVIOUS
<1>2. PICK a, b, c : a = Len(s) /\ b = Len(t) /\ c = Len(u)
  OBVIOUS
<1>3. a \in Nat /\ b \in Nat /\ c \in Nat
  BY <1>2
<1>4. /\ st \in Seq(Nat) /\ Len(st) = a + b
      /\ \A i \in 1 .. a : st[i] = s[i]
      /\ \A i \in 1 .. b : st[a + i] = t[i]
  BY <1>1, <1>2, Joined
<1>5. /\ tu \in Seq(Nat) /\ Len(tu) = b + c
      /\ \A i \in 1 .. b : tu[i] = t[i]
      /\ \A i \in 1 .. c : tu[b + i] = u[i]
  BY <1>1, <1>2, Joined
<1>6. PICK l, r : l = st \o u /\ r = s \o tu
  OBVIOUS
<1>7. /\ l \in Seq(Nat) /\ Len(l) = (a + b) + c
      /\ \A i \in 1 .. a + b : l[i] = st[i]
      /\ \A i \in 1 .. c : l[(a + b) + i] = u[i]
  <2>1. st \in Seq(Nat) /\ u \in Seq(Nat)
    BY <1>4
  <2>2. /\ st \o u \in Seq(Nat) /\ Len(st \o u) = Len(st) + Len(u)
        /\ \A i \in 1 .. Len(st) : (st \o u)[i] = st[i]
        /\ \A i \in 1 .. Len(u) : (st \o u)[Len(st) + i] = u[i]
    BY <2>1, Joined
  <2> QED BY <1>2, <1>4, <1>6, <2>2
<1>8. /\ r \in Seq(Nat) /\ Len(r) = a + (b + c)
      /\ \A i \in 1 .. a : r[i] = s[i]
      /\ \A i \in 1 .. b + c : r[a + i] = tu[i]
  <2>1. s \in Seq(Nat) /\ tu \in Seq(Nat)
    BY <1>5
  <2>2. /\ s \o tu \in Seq(Nat) /\ Len(s \o tu) = Len(s) + Len(tu)
        /\ \A i \in 1 .. Len(s) : (s \o tu)[i] = s[i]
        /\ \A i \in 1 .. Len(tu) : (s \o tu)[Len(s) + i] = tu[i]
    BY <2>1, Joined
  <2> QED BY <1>2, <1>5, <1>6, <2>2
<1>9. ASSUME NEW i \in 1 .. (a + b) + c
      PROVE  l[i] = r[i]
  <2>1. CASE i <= a
    <3>1. i \in 1 .. a /\ i \in 1 .. a + b
      BY <1>3, <2>1
    <3> QED BY <1>4, <1>7, <1>8, <3>1
  <2>2. CASE i > a /\ i <= a + b
    <3>1. i - a \in 1 .. b /\ i - a \in 1 .. b + c /\ i \in 1 .. a + b /\ a + (i - a) = i
      BY <1>3, <2>2
    <3>2. l[i] = t[i - a]
      BY <1>4, <1>7, <3>1
    <3>3. r[i] = t[i - a]
      BY <1>5, <1>8, <3>1
    <3> QED BY <3>2, <3>3
  <2>3. CASE i > a + b
    <3>1. /\ i - (a + b) \in 1 .. c /\ (a + b) + (i - (a + b)) = i
          /\ b + (i - (a + b)) \in 1 .. b + c /\ a + (b + (i - (a + b))) = i
      BY <1>3, <2>3
    <3>2. l[i] = u[i - (a + b)]
      BY <1>7, <3>1
    <3>3. r[i] = tu[b + (i - (a + b))] /\ tu[b + (i - (a + b))] = u[i - (a + b)]
      BY <1>5, <1>8, <3>1
    <3> QED BY <3>2, <3>3
  <2>4. i <= a \/ (i > a /\ i <= a + b) \/ i > a + b
    BY <1>3
  <2> QED BY <2>1, <2>2, <2>3, <2>4
<1>10. Len(l) = Len(r) /\ Len(l) = (a + b) + c
  BY <1>3, <1>7, <1>8
<1>11. l = r
  BY <1>7, <1>8, <1>9, <1>10, SameSequence
<1> QED BY <1>1, <1>6, <1>11

LEMMA OffsetsAreNats ==
  ASSUME stdin \in Inputs, NEW s \in Seq(Offsets)
  PROVE  s \in Seq(Nat)
<1>1. Offsets \subseteq Nat
  BY StdinType DEF Offsets
<1>2. Len(s) \in Nat /\ s \in [1 .. Len(s) -> Offsets]
  OBVIOUS
<1>3. s \in [1 .. Len(s) -> Nat]
  BY <1>1, <1>2
<1> QED BY <1>2, <1>3

LEMMA PeekTells ==
  ASSUME InputInv, Told(stored, pb, pos), NEW len \in 0 .. SizeLimit, NEW r \in Peek(len)
  PROVE  Told(stored, r.pb, r.pos)
<1>1. CASE Held(r.pb) = Held(pb) /\ r.pos = pos
  BY <1>1 DEF Told
<1>2. ASSUME NEW n, ReadsOn(Held(pb), Held(r.pb), r, n)
      PROVE  Told(stored, r.pb, r.pos)
  <2>1. PICK kept : kept = postprocess_input(pos, n).kept
    OBVIOUS
  <2>2. /\ n \in Nat /\ pos + n <= Len(stdin) /\ Held(r.pb) = Held(pb) \o From(pos, kept)
        /\ r.pos = postprocess_input(pos, n).pos
    BY <1>2, <2>1 DEF ReadsOn
  <2>3. Cut(r.pos) /\ Listed((stored \o Held(pb)) \o From(pos, kept), Payload(r.pos))
    BY <2>1, <2>2, ReadsPayloadOn DEF Told
  <2>4. stored \in Seq(Nat) /\ Held(pb) \in Seq(Nat) /\ From(pos, kept) \in Seq(Nat)
    <3>1. stdin \in Inputs /\ pos \in Nat /\ Sound(pb) /\ stored \in Seq(Offsets)
      BY StdinType DEF InputInv, TypeOK
    <3>2. Held(pb) \in Seq(Offsets)
      BY <3>1, HeldIs
    <3>3. kept \in Nat
      BY <2>1, <2>2, <3>1, PostprocessBounds
    <3>4. From(pos, kept) \in Seq(Nat)
      BY <3>1, <3>3, FromIs
    <3> QED BY <3>1, <3>2, <3>4, OffsetsAreNats
  <2>5. (stored \o Held(pb)) \o From(pos, kept) = stored \o Held(r.pb)
    <3>1. (stored \o Held(pb)) \o From(pos, kept) = stored \o (Held(pb) \o From(pos, kept))
      BY <2>4, Associative
    <3> QED BY <2>2, <3>1
  <2> QED BY <2>3, <2>5 DEF Told
<1> QED BY <1>1, <1>2, PeekIs

LEMMA FillTells ==
  ASSUME InputInv, Told(stored, pb, pos), NEW len \in Nat, NEW stops, NEW r \in Fill(len, stops)
  PROVE  Told(stored \o r.bytes, r.pb, r.pos)
<1>1. /\ stdin \in Inputs /\ pos \in Nat /\ Sound(pb) /\ pb.size \in Nat /\ 0 \in 0 .. pb.size
      /\ stored \in Seq(Nat)
  <2>1. stdin \in Inputs /\ pos \in Nat /\ Sound(pb) /\ stored \in Seq(Offsets)
    BY StdinType DEF InputInv, TypeOK
  <2>2. stored \in Seq(Nat)
    BY <2>1, OffsetsAreNats
  <2>3. pb.size \in Nat
    BY <2>1, SoundIs
  <2> QED BY <2>1, <2>2, <2>3
<1>2. Held(pb) \in Seq(Nat)
  <2>1. Held(pb) \in Seq(Offsets)
    BY <1>1, HeldIs
  <2> QED BY <1>1, <2>1, OffsetsAreNats
<1>3. CASE r.pb = Rest(pb, len) /\ r.pos = pos /\ r.bytes = peekbuffer_cp(pb, len, 0)
  <2>1. Held(pb) = r.bytes \o Held(r.pb)
    BY <1>1, <1>3, RestHolds
  <2>2. r.bytes \in Seq(Nat) /\ Held(r.pb) \in Seq(Nat)
    <3>1. r.bytes \in Seq(Offsets) /\ Sound(r.pb)
      <4>1. peekbuffer_cp(pb, len, 0) \in Seq(Offsets)
        BY <1>1, CpIs
      <4>2. Sound(Rest(pb, len))
        BY <1>1, RestIs
      <4> QED BY <1>3, <4>1, <4>2
    <3>2. Held(r.pb) \in Seq(Offsets)
      BY <3>1, HeldIs
    <3> QED BY <1>1, <3>1, <3>2, OffsetsAreNats
  <2>3. (stored \o r.bytes) \o Held(r.pb) = stored \o Held(pb)
    <3>1. (stored \o r.bytes) \o Held(r.pb) = stored \o (r.bytes \o Held(r.pb))
      BY <1>1, <2>2, Associative
    <3> QED BY <2>1, <3>1
  <2> QED BY <1>3, <2>3 DEF Told
<1>4. ASSUME Held(r.pb) = <<>>, NEW n, ReadsOn(Held(pb), r.bytes, r, n)
      PROVE  Told(stored \o r.bytes, r.pb, r.pos)
  <2>1. PICK kept : kept = postprocess_input(pos, n).kept
    OBVIOUS
  <2>2. /\ n \in Nat /\ pos + n <= Len(stdin) /\ r.bytes = Held(pb) \o From(pos, kept)
        /\ r.pos = postprocess_input(pos, n).pos
    BY <1>4, <2>1 DEF ReadsOn
  <2>3. Cut(r.pos) /\ Listed((stored \o Held(pb)) \o From(pos, kept), Payload(r.pos))
    BY <2>1, <2>2, ReadsPayloadOn DEF Told
  <2>4. From(pos, kept) \in Seq(Nat)
    <3>1. kept \in Nat
      BY <1>1, <2>1, <2>2, PostprocessBounds
    <3> QED BY <1>1, <3>1, FromIs
  <2>5. (stored \o Held(pb)) \o From(pos, kept) = stored \o r.bytes
    <3>1. (stored \o Held(pb)) \o From(pos, kept) = stored \o (Held(pb) \o From(pos, kept))
      BY <1>1, <1>2, <2>4, Associative
    <3> QED BY <2>2, <3>1
  <2>6. stored \o r.bytes \in Seq(Nat)
    BY <2>3, <2>5 DEF Listed
  <2>7. (stored \o r.bytes) \o Held(r.pb) = stored \o r.bytes
    BY <1>4, <2>6
  <2> QED BY <2>3, <2>5, <2>7 DEF Told
<1>5. \/ r.pb = Rest(pb, len) /\ r.pos = pos /\ r.bytes = peekbuffer_cp(pb, len, 0)
      \/ Held(r.pb) = <<>> /\ \E n : ReadsOn(Held(pb), r.bytes, r, n)
  BY FillIs
<1> QED BY <1>3, <1>4, <1>5
-----------------------------------------------------------------------------
\* How a step reads on: not at all, into the application's buffer, or into the peekbuffer.
LEMMA Advances ==
  ASSUME InputInv, Next
  PROVE  /\ UNCHANGED stdin
         /\ \/ UNCHANGED <<stored, pb, pos>>
            \/ \E len \in Nat, stops \in BOOLEAN : \E r \in Fill(len, stops) :
                 pb' = r.pb /\ pos' = r.pos /\ stored' = stored \o r.bytes
            \/ \E len \in 0 .. SizeLimit : \E r \in Peek(len) :
                 pb' = r.pb /\ pos' = r.pos /\ stored' = stored
<1>1. \A len \in 1 .. MaxLen : len \in Nat /\ len \in 0 .. SizeLimit
  BY InputAssumption, PeekbufferAssumption
<1>2. WasLocked \in BOOLEAN
  BY DEF WasLocked
<1>3. CASE Read
  <2>1. PICK len \in 1 .. MaxLen : FillOne("read", len, FALSE)
    BY <1>3 DEF Read
  <2> QED BY <1>1, <2>1 DEF FillOne
<1>4. CASE Recv
  <2>1. PICK len \in 1 .. MaxLen : FillOne("recv", len, WasLocked)
    BY <1>4 DEF Recv
  <2>2. PICK stops \in BOOLEAN : stops = WasLocked
    BY <1>2
  <2>3. FillOne("recv", len, stops)
    BY <2>1, <2>2
  <2> QED BY <1>1, <2>3 DEF FillOne
<1>5. CASE RecvPeek
  <2>1. /\ UNCHANGED <<stdin, stored>>
        /\ \E len \in 1 .. MaxLen : \E r \in Peek(len) : pb' = r.pb /\ pos' = r.pos
    BY <1>5 DEF RecvPeek
  <2> QED BY <1>1, <2>1
<1>6. CASE Readv
  BY <1>6 DEF Readv
<1>7. ASSUME NEW fn, NEW iov \in Iovs, RecvmsgCall(fn, iov)
      PROVE  /\ UNCHANGED <<stdin, stored>>
             /\ \/ UNCHANGED <<pb, pos>>
                \/ \E len \in 0 .. SizeLimit : \E r \in Peek(len) : pb' = r.pb /\ pos' = r.pos
  BY <1>7, IovType DEF RecvmsgCall
<1>8. CASE Recvmsg \/ Recvmmsg
  <2>1. \E fn \in {"recvmsg", "recvmmsg"}, iov \in Iovs : RecvmsgCall(fn, iov)
    BY <1>8 DEF Recvmsg, Recvmmsg
  <2>2. /\ UNCHANGED <<stdin, stored>>
        /\ \/ UNCHANGED <<pb, pos>>
           \/ \E len \in 0 .. SizeLimit : \E r \in Peek(len) : pb' = r.pb /\ pos' = r.pos
    BY <1>7, <2>1
  <2> QED BY <2>2
<1>9. CASE FillNext
  <2> DEFINE i   == call.i
             e   == call.iov.ends
             len == e[i] - (IF i = 1 THEN 0 ELSE e[i - 1])
  <2>1. UNCHANGED stdin /\ call.iov \in Iovs /\ i \in 1 .. Len(e)
    BY <1>9 DEF FillNext, InputInv, TypeOK
  <2>2. len \in Nat
    BY <2>1, IovType
  <2>3. PICK r \in IF call.peek
                   THEN {Outcome(pb, pos, peekbuffer_cp(pb, len, Len(call.bytes)), TRUE)}
                   ELSE Fill(len, WasLocked) :
          /\ pb' = r.pb /\ pos' = r.pos
          /\ stored' = IF call.peek THEN stored ELSE stored \o r.bytes
    BY <1>9 DEF FillNext
  <2> HIDE DEF len
  <2>4. CASE call.peek
    BY <2>1, <2>3, <2>4 DEF Outcome
  <2>5. CASE ~call.peek
    <3>1. PICK stops \in BOOLEAN : stops = WasLocked
      BY <1>2
    <3>2. r \in Fill(len, stops)
      BY <2>3, <2>5, <3>1
    <3> QED BY <2>1, <2>2, <2>3, <2>5, <3>2
  <2> QED BY <2>4, <2>5
<1> QED BY <1>3, <1>4, <1>5, <1>6, <1>8, <1>9 DEF Next

LEMMA SameDelimiters ==
  ASSUME UNCHANGED stdin
  PROVE  Delimiters' = Delimiters
BY DEF Delimiters, Matches

SavedInv == Told(stored, pb, pos)

LEMMA SavedStep ==
  ASSUME InputInv, SavedInv, [Next]_vars
  PROVE  SavedInv'
<1>1. UNCHANGED stdin /\ Told(stored', pb', pos')
  <2>1. CASE UNCHANGED vars
    BY <2>1 DEF vars, SavedInv
  <2>2. CASE Next
    <3> SUFFICES Told(stored', pb', pos')
      BY <2>2, Advances
    <3>1. CASE UNCHANGED <<stored, pb, pos>>
      BY <3>1 DEF SavedInv
    <3>2. CASE \E len \in Nat, stops \in BOOLEAN : \E r \in Fill(len, stops) :
                 pb' = r.pb /\ pos' = r.pos /\ stored' = stored \o r.bytes
      <4>1. PICK len \in Nat, stops \in BOOLEAN : \E r \in Fill(len, stops) :
                 pb' = r.pb /\ pos' = r.pos /\ stored' = stored \o r.bytes
        BY <3>2
      <4>2. PICK r \in Fill(len, stops) :
                 pb' = r.pb /\ pos' = r.pos /\ stored' = stored \o r.bytes
        BY <4>1
      <4>3. Told(stored \o r.bytes, r.pb, r.pos)
        BY FillTells DEF SavedInv
      <4> QED BY <4>2, <4>3
    <3>3. CASE \E len \in 0 .. SizeLimit : \E r \in Peek(len) :
                 pb' = r.pb /\ pos' = r.pos /\ stored' = stored
      <4>1. PICK len \in 0 .. SizeLimit : \E r \in Peek(len) :
                 pb' = r.pb /\ pos' = r.pos /\ stored' = stored
        BY <3>3
      <4>2. PICK r \in Peek(len) : pb' = r.pb /\ pos' = r.pos /\ stored' = stored
        BY <4>1
      <4>3. Told(stored, r.pb, r.pos)
        BY PeekTells DEF SavedInv
      <4> QED BY <4>2, <4>3
    <3> QED BY <2>2, <3>1, <3>2, <3>3, Advances
  <2>3. UNCHANGED stdin
    BY <2>1, <2>2, Advances DEF vars
  <2> QED BY <2>1, <2>2, <2>3
<1>2. Delimiters' = Delimiters
  BY <1>1, SameDelimiters
<1>3. Payload(pos)' = Payload(pos')
  BY <1>2 DEF Payload
<1>4. Cut(pos)' = Cut(pos')
  BY <1>2 DEF Cut
<1> QED BY <1>1, <1>3, <1>4 DEF SavedInv, Told

LEMMA SavedInit ==
  ASSUME Init
  PROVE  SavedInv
<1>1. stdin \in Inputs /\ pos = 0 /\ stored = <<>> /\ pb.size = 0
  BY DEF Init, NothingRead
<1>2. Held(pb) = <<>>
  BY <1>1 DEF Held, peekbuffer_cp
<1>3. Payload(pos) = {}
  BY <1>1 DEF Payload
<1>4. Cut(pos)
  BY <1>1, DelimitersIn DEF Cut
<1>5. stored \o Held(pb) = <<>>
  BY <1>1, <1>2
<1> QED BY <1>3, <1>4, <1>5, ListedNothing DEF SavedInv, Told

\* Input.tla, NothingLost: whatever the input, its delimiters, the capacity and the order
\* and lengths of the calls, what the application was given and what the peekbuffer holds
\* is the payload read so far, each byte once and in order (read.c, peekbuffer.c, multi.c).
THEOREM NothingIsLost == Spec => []NothingLost
<1>1. Init => InputInv /\ SavedInv
  BY InputInit, SavedInit
<1>2. InputInv /\ SavedInv /\ [Next]_vars => InputInv' /\ SavedInv'
  BY InputStep, SavedStep
<1>3. SavedInv => NothingLost
  BY ListedLists DEF SavedInv, Told, NothingLost, Held
<1> QED BY <1>1, <1>2, <1>3, PTL DEF Spec
-----------------------------------------------------------------------------
(* One request at a time *)

\* no request ends between a byte of s and offset p
Free(s, p) == \A d \in Delimiters, i \in 1 .. Len(s) : ~(s[i] < d /\ d < p)

\* The peekbuffer holds bytes of one request, and those before p are all of that request
\* unless it is locked: then it reads on.
One(b, p) ==
  /\ ~Spans(Held(b))
  /\ b.size > 0 /\ ~b.locked => Free(Held(b), p)

\* What a peek that is under way has gathered is the beginning of what is held.
Gathered(c, b) ==
  c # NoCall /\ c.peek =>
    /\ Len(c.bytes) <= b.size
    /\ \A i \in 1 .. Len(c.bytes) : c.bytes[i] = Held(b)[i]

\* bytes are the first of those of s
Opens(bytes, s) == Len(bytes) <= Len(s) /\ \A i \in 1 .. Len(bytes) : bytes[i] = s[i]

OneInv == One(pb, pos) /\ Gathered(call, pb) /\ OneRequestAtATime

LEMMA FirstOf ==
  ASSUME NEW s \in Seq(Nat), ~Spans(s), NEW bytes \in Seq(Nat), Opens(bytes, s)
  PROVE  ~Spans(bytes)
<1>1. 1 .. Len(bytes) \subseteq 1 .. Len(s)
  BY DEF Opens
<1> QED BY <1>1 DEF Spans, Opens

LEMMA SpansNothing == ~Spans(<<>>)
BY DEF Spans

\* Reading on after bytes of one request gives bytes of one request.
LEMMA GoesOn ==
  ASSUME stdin \in Inputs, pos \in Nat, Cut(pos), NEW n \in Nat, pos + n <= Len(stdin),
         NEW s \in Seq(Nat), Free(s, pos), \A i \in 1 .. Len(s) : s[i] < pos,
         NEW kept, kept = postprocess_input(pos, n).kept
  PROVE  /\ s \o From(pos, kept) \in Seq(Nat)
         /\ ~Spans(s \o From(pos, kept))
         /\ kept = n => Free(s \o From(pos, kept), postprocess_input(pos, n).pos)
<1>1. PICK to : to = postprocess_input(pos, n).pos
  OBVIOUS
<1>2. /\ kept \in Nat /\ (kept = n => to = pos + n)
      /\ \A d \in Delimiters : ~(pos <= d /\ d < pos + kept)
  BY <1>1, ReadsPayload
<1>3. \A d \in Delimiters : d \in Nat
  BY DelimitersIn
<1>4. PICK f : f = From(pos, kept)
  OBVIOUS
<1>5. f \in Seq(Nat) /\ Len(f) = kept /\ \A i \in 1 .. kept : f[i] = pos + i - 1
  BY <1>2, <1>4, FromIs
<1>6. PICK t : t = s \o f
  OBVIOUS
<1>7. /\ t \in Seq(Nat) /\ Len(t) = Len(s) + kept /\ Len(s) \in Nat
      /\ \A i \in 1 .. Len(s) : t[i] = s[i]
      /\ \A i \in 1 .. kept : t[Len(s) + i] = f[i]
  <2>1. f \in Seq(Nat)
    BY <1>5
  <2>2. /\ s \o f \in Seq(Nat) /\ Len(s \o f) = Len(s) + Len(f) /\ Len(s) \in Nat
        /\ \A i \in 1 .. Len(s) : (s \o f)[i] = s[i]
        /\ \A i \in 1 .. Len(f) : (s \o f)[Len(s) + i] = f[i]
    BY <2>1, Joined
  <2> QED BY <1>5, <1>6, <2>2
<1>8. ASSUME NEW i \in 1 .. Len(t)
      PROVE  \/ i \in 1 .. Len(s) /\ t[i] = s[i] /\ t[i] \in Nat /\ t[i] < pos
             \/ t[i] \in Nat /\ pos <= t[i] /\ t[i] < pos + kept
  <2>1. CASE i <= Len(s)
    <3>1. i \in 1 .. Len(s)
      BY <1>7, <2>1
    <3>2. t[i] = s[i]
      BY <1>7, <3>1
    <3>3. s[i] \in Nat /\ s[i] < pos
      BY <3>1
    <3> QED BY <3>1, <3>2, <3>3
  <2>2. CASE i > Len(s)
    <3>1. i - Len(s) \in 1 .. kept /\ Len(s) + (i - Len(s)) = i
      BY <1>2, <1>7, <2>2
    <3>2. t[i] = pos + (i - Len(s)) - 1
      BY <1>5, <1>7, <3>1
    <3> QED BY <1>2, <3>1, <3>2
  <2>3. i <= Len(s) \/ i > Len(s)
    BY <1>7
  <2> QED BY <2>1, <2>2, <2>3
<1>9. ASSUME NEW d \in Delimiters, NEW i \in 1 .. Len(t), t[i] < d, d < pos + kept
      PROVE  FALSE
  <2>1. d \in Nat /\ ~(pos <= d)
    BY <1>2, <1>3, <1>9
  <2>2. i \in 1 .. Len(s) /\ t[i] = s[i]
    BY <1>8, <1>9, <2>1
  <2>3. s[i] < d /\ d < pos
    BY <1>9, <2>1, <2>2
  <2> QED BY <2>2, <2>3 DEF Free
<1>10. ~Spans(t)
  <2>1. SUFFICES ASSUME NEW d \in Delimiters, NEW i \in 1 .. Len(t), NEW j \in 1 .. Len(t),
                        t[i] < d, d < t[j]
                 PROVE  FALSE
    BY DEF Spans
  <2>2. t[j] \in Nat /\ t[j] < pos + kept
    <3>1. t[j] \in Nat /\ (t[j] < pos \/ t[j] < pos + kept)
      BY <1>8
    <3>2. PICK x : x = t[j]
      OBVIOUS
    <3>3. x \in Nat /\ (x < pos \/ x < pos + kept)
      BY <3>1, <3>2
    <3> QED BY <1>2, <3>2, <3>3
  <2>3. d < pos + kept
    <3>1. PICK x : x = t[j]
      OBVIOUS
    <3>2. x \in Nat /\ x < pos + kept /\ d < x
      BY <2>1, <2>2, <3>1
    <3> QED BY <1>2, <1>3, <3>2
  <2> QED BY <1>9, <2>1, <2>3
<1>11. kept = n => Free(t, to)
  BY <1>2, <1>9 DEF Free
<1> QED BY <1>1, <1>4, <1>6, <1>7, <1>10, <1>11

\* the bytes held precede pos
LEMMA HeldBefore ==
  ASSUME InputInv, SavedInv
  PROVE  /\ stdin \in Inputs /\ pos \in Nat /\ Cut(pos) /\ Sound(pb) /\ pb.size \in Nat
         /\ Held(pb) \in Seq(Nat) /\ Len(Held(pb)) = pb.size
         /\ \A i \in 1 .. pb.size : Held(pb)[i] < pos
<1>1. /\ stdin \in Inputs /\ pos \in Nat /\ Sound(pb) /\ pb.size \in Nat
      /\ stored \in Seq(Offsets) /\ Cut(pos)
  BY SoundIs, StdinType DEF InputInv, TypeOK, SavedInv, Told
<1>2. Held(pb) \in Seq(Offsets) /\ Len(Held(pb)) = pb.size
  BY <1>1, HeldIs
<1>3. PICK h : h = Held(pb)
  OBVIOUS
<1>4. h \in Seq(Nat) /\ stored \in Seq(Nat)
  BY <1>1, <1>2, <1>3, OffsetsAreNats
<1>5. ASSUME NEW i \in 1 .. pb.size
      PROVE  h[i] < pos
  <2>1. /\ Len(stored \o h) = Len(stored) + pb.size /\ Len(stored) \in Nat
        /\ (stored \o h)[Len(stored) + i] = h[i]
    BY <1>2, <1>3, <1>4, Joined
  <2>2. Len(stored) + i \in 1 .. Len(stored \o h)
    BY <1>1, <2>1
  <2>3. h[i] \in Payload(pos)
    BY <1>3, <2>1, <2>2 DEF SavedInv, Told, Listed
  <2> QED BY <1>1, <2>3 DEF Payload
<1> QED BY <1>1, <1>2, <1>3, <1>4, <1>5
-----------------------------------------------------------------------------
LEMMA ReadsOnFree ==
  ASSUME InputInv, SavedInv, One(pb, pos), ~WasLocked
  PROVE  Free(Held(pb), pos)
<1>1. pb.size \in Nat /\ Len(Held(pb)) = pb.size
  BY HeldBefore
<1>2. CASE pb.size = 0
  <2>1. 1 .. Len(Held(pb)) = {}
    BY <1>1, <1>2
  <2> QED BY <2>1 DEF Free
<1>3. CASE pb.size > 0
  BY <1>3 DEF One, WasLocked
<1> QED BY <1>1, <1>2, <1>3

LEMMA PeekOne ==
  ASSUME InputInv, SavedInv, One(pb, pos), NEW len \in 0 .. SizeLimit, NEW r \in Peek(len)
  PROVE  One(r.pb, r.pos)
<1>1. CASE /\ Held(r.pb) = Held(pb) /\ r.pb.size = pb.size /\ r.pb.locked = pb.locked
           /\ r.pos = pos
  BY <1>1 DEF One
<1>2. ASSUME ~pb.locked, NEW n, ReadsOn(Held(pb), Held(r.pb), r, n),
             r.pb.locked = (postprocess_input(pos, n).kept < n)
      PROVE  One(r.pb, r.pos)
  <2>1. PICK kept : kept = postprocess_input(pos, n).kept
    OBVIOUS
  <2>2. /\ n \in Nat /\ pos + n <= Len(stdin) /\ Held(r.pb) = Held(pb) \o From(pos, kept)
        /\ r.pos = postprocess_input(pos, n).pos
    BY <1>2, <2>1 DEF ReadsOn
  <2>3. /\ stdin \in Inputs /\ pos \in Nat /\ Cut(pos) /\ Held(pb) \in Seq(Nat)
        /\ \A i \in 1 .. Len(Held(pb)) : Held(pb)[i] < pos
    BY HeldBefore
  <2>4. Free(Held(pb), pos)
    BY <1>2, ReadsOnFree DEF WasLocked
  <2>5. kept \in 0 .. n
    BY <2>1, <2>2, <2>3, PostprocessBounds
  <2>6. PICK h : h = Held(pb)
    OBVIOUS
  <2>7. /\ ~Spans(h \o From(pos, kept))
        /\ kept = n => Free(h \o From(pos, kept), postprocess_input(pos, n).pos)
    BY <2>1, <2>2, <2>3, <2>4, <2>6, GoesOn
  <2>8. ~r.pb.locked => kept = n
    <3>1. ASSUME ~r.pb.locked
          PROVE  ~(postprocess_input(pos, n).kept < n)
      BY <1>2, <3>1, Zenon
    <3>2. ~(kept < n) => kept = n
      BY <2>2, <2>5
    <3> QED BY <2>1, <3>1, <3>2
  <2> QED BY <2>2, <2>6, <2>7, <2>8 DEF One
<1> QED BY <1>1, <1>2, PeekIs

LEMMA FillRequest ==
  ASSUME InputInv, SavedInv, One(pb, pos), NEW len \in Nat, NEW stops, NEW r \in Fill(len, stops)
  PROVE  One(r.pb, r.pos) /\ (stops = WasLocked => ~Spans(r.bytes))
<1>1. /\ stdin \in Inputs /\ pos \in Nat /\ Cut(pos) /\ Held(pb) \in Seq(Nat) /\ Sound(pb)
      /\ \A i \in 1 .. Len(Held(pb)) : Held(pb)[i] < pos
      /\ pb.size \in Nat /\ Len(Held(pb)) = pb.size /\ 0 \in 0 .. pb.size
  BY HeldBefore
<1>2. r.pb = Rest(pb, len)
  BY FillIs
<1>3. CASE r.pos = pos /\ r.bytes = peekbuffer_cp(pb, len, 0)
  <2>1. PICK h, s, t : h = Held(pb) /\ s = r.bytes /\ t = Held(r.pb)
    OBVIOUS
  <2>2. h = s \o t
    BY <1>1, <1>2, <1>3, <2>1, RestHolds
  <2>3. s \in Seq(Nat) /\ t \in Seq(Nat)
    <3>1. s \in Seq(Offsets) /\ Sound(r.pb)
      <4>1. peekbuffer_cp(pb, len, 0) \in Seq(Offsets)
        BY <1>1, CpIs
      <4>2. Sound(Rest(pb, len))
        BY <1>1, RestIs
      <4> QED BY <1>2, <1>3, <2>1, <4>1, <4>2
    <3>2. t \in Seq(Offsets)
      BY <2>1, <3>1, HeldIs
    <3> QED BY <1>1, <3>1, <3>2, OffsetsAreNats
  <2>4. /\ Len(h) = Len(s) + Len(t) /\ Len(s) \in Nat /\ Len(t) \in Nat
        /\ \A i \in 1 .. Len(s) : h[i] = s[i]
        /\ \A i \in 1 .. Len(t) : h[Len(s) + i] = t[i]
    BY <2>2, <2>3, Joined
  <2>5. ~Spans(h) /\ h \in Seq(Nat)
    BY <1>1, <2>1 DEF One
  <2>6. ~Spans(s)
    <3>1. Opens(s, h)
      BY <2>4 DEF Opens
    <3> QED BY <2>3, <2>5, <3>1, FirstOf
  <2>7. \A i \in 1 .. Len(t) : Len(s) + i \in 1 .. Len(h)
    BY <2>4
  <2>8. ~Spans(t)
    <3>1. SUFFICES ASSUME NEW d \in Delimiters, NEW i \in 1 .. Len(t), NEW j \in 1 .. Len(t),
                          t[i] < d, d < t[j]
                   PROVE  FALSE
      BY DEF Spans
    <3>2. h[Len(s) + i] < d /\ d < h[Len(s) + j]
      BY <2>4, <3>1
    <3> QED BY <2>5, <2>7, <3>2 DEF Spans
  <2>9. ASSUME r.pb.size > 0, ~r.pb.locked
        PROVE  Free(t, pos)
    <3>1. /\ pb.size <= len => r.pb.size = 0
          /\ pb.size > len => r.pb.locked = pb.locked
      BY <1>1, <1>2, RestIs
    <3>2. ~(pb.size <= len) /\ ~(r.pb.size = 0)
      BY <2>9, <3>1
    <3>3. pb.size > len /\ pb.size > 0
      BY <1>1, <3>2
    <3>4. ~pb.locked
      BY <2>9, <3>1, <3>3
    <3>5. Free(h, pos)
      BY <2>1, <3>3, <3>4 DEF One
    <3>6. SUFFICES ASSUME NEW d \in Delimiters, NEW i \in 1 .. Len(t), t[i] < d, d < pos
                   PROVE  FALSE
      BY DEF Free
    <3>7. h[Len(s) + i] < d
      BY <2>4, <3>6
    <3> QED BY <2>7, <3>5, <3>6, <3>7 DEF Free
  <2> QED BY <1>3, <2>1, <2>6, <2>8, <2>9 DEF One
<1>4. ASSUME ~stops, Held(Rest(pb, len)) = <<>>, Rest(pb, len).size = 0,
             NEW n, ReadsOn(Held(pb), r.bytes, r, n)
      PROVE  One(r.pb, r.pos) /\ (stops = WasLocked => ~Spans(r.bytes))
  <2>1. One(r.pb, r.pos)
    BY <1>2, <1>4, SpansNothing DEF One
  <2>2. ASSUME stops = WasLocked
        PROVE  ~Spans(r.bytes)
    <3>1. PICK kept : kept = postprocess_input(pos, n).kept
      OBVIOUS
    <3>2. /\ n \in Nat /\ pos + n <= Len(stdin) /\ r.bytes = Held(pb) \o From(pos, kept)
      BY <1>4, <3>1 DEF ReadsOn
    <3>3. Free(Held(pb), pos)
      BY <1>4, <2>2, ReadsOnFree
    <3>4. PICK h : h = Held(pb)
      OBVIOUS
    <3>5. ~Spans(h \o From(pos, kept))
      BY <1>1, <3>1, <3>2, <3>3, <3>4, GoesOn
    <3> QED BY <3>2, <3>4, <3>5
  <2> QED BY <2>1, <2>2
<1>5. \/ r.pos = pos /\ r.bytes = peekbuffer_cp(pb, len, 0)
      \/ /\ ~stops /\ Held(Rest(pb, len)) = <<>> /\ Rest(pb, len).size = 0
         /\ \E n : ReadsOn(Held(pb), r.bytes, r, n)
  BY FillIs
<1> QED BY <1>3, <1>4, <1>5

LEMMA CpOpens ==
  ASSUME stdin \in Inputs, NEW b, Sound(b), ~Spans(Held(b)), NEW len \in Nat
  PROVE  ~Spans(peekbuffer_cp(b, len, 0))
<1>1. b.size \in Nat /\ 0 \in 0 .. b.size
  BY SoundIs
<1>2. PICK h, s : h = Held(b) /\ s = peekbuffer_cp(b, len, 0)
  OBVIOUS
<1>3. s \in Seq(Nat) /\ h \in Seq(Nat) /\ Len(h) = b.size /\ Len(s) = Smaller(len, b.size - 0)
  <2>1. s \in Seq(Offsets) /\ Len(s) = Smaller(len, b.size - 0)
    BY <1>1, <1>2, CpIs
  <2>2. h \in Seq(Offsets) /\ Len(h) = b.size
    BY <1>2, HeldIs
  <2> QED BY <2>1, <2>2, OffsetsAreNats
<1>4. ASSUME NEW i \in 1 .. Len(s)
      PROVE  s[i] = h[i]
  <2>1. s[i] = h[0 + i]
    BY <1>1, <1>2, CpOfHeld
  <2>2. 0 + i = i
    BY <1>3
  <2> QED BY <2>1, <2>2
<1>5. Opens(s, h)
  BY <1>1, <1>3, <1>4 DEF Opens, Smaller
<1> QED BY <1>2, <1>3, <1>5, FirstOf
-----------------------------------------------------------------------------
LEMMA GathersMore ==
  ASSUME stdin \in Inputs, NEW b, Sound(b), NEW c \in Seq(Offsets), Opens(c, Held(b)),
         NEW len \in Nat
  PROVE  /\ c \o peekbuffer_cp(b, len, Len(c)) \in Seq(Offsets)
         /\ Opens(c \o peekbuffer_cp(b, len, Len(c)), Held(b))
<1>1. b.size \in Nat /\ Len(c) \in Nat /\ Held(b) \in Seq(Offsets) /\ Len(Held(b)) = b.size
  BY SoundIs, HeldIs
<1>2. PICK at \in 0 .. b.size : at = Len(c)
  BY <1>1 DEF Opens
<1>3. PICK s : s = peekbuffer_cp(b, len, at)
  OBVIOUS
<1>4. s \in Seq(Offsets) /\ Len(s) = Smaller(len, b.size - at)
  BY <1>2, <1>3, CpIs
<1>5. ASSUME NEW k \in 1 .. Len(s)
      PROVE  at + k \in 1 .. b.size /\ s[k] = Held(b)[at + k]
  <2>1. k \in 1 .. Len(peekbuffer_cp(b, len, at))
    BY <1>3
  <2>2. at + k \in 1 .. b.size /\ peekbuffer_cp(b, len, at)[k] = Held(b)[at + k]
    BY <2>1, CpOfHeld
  <2> QED BY <1>3, <2>2
<1>6. PICK t : t = c \o s
  OBVIOUS
<1>7. /\ t \in Seq(Offsets) /\ Len(t) = at + Len(s)
      /\ \A i \in 1 .. at : t[i] = c[i]
      /\ \A i \in 1 .. Len(s) : t[at + i] = s[i]
  <2>1. s \in Seq(Offsets) /\ c \in Seq(Offsets)
    BY <1>4
  <2>2. /\ c \o s \in Seq(Offsets) /\ Len(c \o s) = Len(c) + Len(s)
        /\ \A i \in 1 .. Len(c) : (c \o s)[i] = c[i]
        /\ \A i \in 1 .. Len(s) : (c \o s)[Len(c) + i] = s[i]
    BY <2>1, Joined
  <2> QED BY <1>2, <1>6, <2>2
<1>8. Len(t) <= b.size
  BY <1>1, <1>2, <1>4, <1>7 DEF Smaller
<1>9. ASSUME NEW i \in 1 .. Len(t)
      PROVE  t[i] = Held(b)[i]
  <2>1. CASE i <= at
    BY <1>2, <1>7, <2>1 DEF Opens
  <2>2. CASE i > at
    <3>1. i - at \in 1 .. Len(s) /\ at + (i - at) = i
      BY <1>2, <1>4, <1>7, <2>2
    <3> QED BY <1>5, <1>7, <3>1
  <2> QED BY <1>2, <2>1, <2>2
<1>10. Opens(t, Held(b))
  BY <1>1, <1>8, <1>9 DEF Opens
<1> QED BY <1>2, <1>3, <1>6, <1>7, <1>10

\* what OneRequestAtATime says of an answer
Answer(r) == r.peek \/ r.fn = "recv" => ~Spans(r.bytes)

LEMMA OneNext ==
  ASSUME InputInv, SavedInv, OneInv, Next
  PROVE  One(pb', pos') /\ Gathered(call', pb') /\ Answer(ret')
<1>1. \A len \in 1 .. MaxLen : len \in Nat /\ len \in 0 .. SizeLimit
  BY InputAssumption, PeekbufferAssumption
<1>2. One(pb, pos) /\ Gathered(call, pb) /\ Answer(ret)
  BY DEF OneInv, OneRequestAtATime, Answer
<1>3. /\ stdin \in Inputs /\ Sound(pb) /\ Held(pb) \in Seq(Nat) /\ Len(Held(pb)) = pb.size
      /\ ~Spans(Held(pb))
  BY <1>2, HeldBefore DEF One
<1>4. CASE Read
  <2>1. PICK len \in 1 .. MaxLen : FillOne("read", len, FALSE)
    BY <1>4 DEF Read
  <2>2. PICK r \in Fill(len, FALSE) :
          /\ pb' = r.pb /\ pos' = r.pos
          /\ Return("read", FALSE, len, r.bytes, IF r.ok THEN Len(r.bytes) ELSE -1)
    BY <2>1 DEF FillOne
  <2>3. One(r.pb, r.pos)
    BY <1>1, <1>2, FillRequest
  <2>4. ret'.fn = "read" /\ ~ret'.peek
    BY <2>2 DEF Return
  <2>5. call' = NoCall
    BY <2>1 DEF FillOne
  <2> QED BY <2>2, <2>3, <2>4, <2>5 DEF Gathered, Answer
<1>5. CASE Recv
  <2>1. PICK len \in 1 .. MaxLen : FillOne("recv", len, WasLocked)
    BY <1>5 DEF Recv
  <2>2. PICK r \in Fill(len, WasLocked) :
          /\ pb' = r.pb /\ pos' = r.pos
          /\ Return("recv", FALSE, len, r.bytes, IF r.ok THEN Len(r.bytes) ELSE -1)
    BY <2>1 DEF FillOne
  <2>3. One(r.pb, r.pos) /\ ~Spans(r.bytes)
    <3>1. PICK stops : stops = WasLocked
      OBVIOUS
    <3>2. r \in Fill(len, stops) /\ len \in Nat
      BY <1>1, <3>1
    <3> QED BY <1>2, <3>1, <3>2, FillRequest
  <2>4. ret'.bytes = r.bytes
    BY <2>2 DEF Return
  <2>5. call' = NoCall
    BY <2>1 DEF FillOne
  <2> QED BY <2>2, <2>3, <2>4, <2>5 DEF Gathered, Answer
<1>6. CASE RecvPeek
  <2>1. PICK len \in 1 .. MaxLen :
          \E r \in Peek(len) :
            LET bytes == IF r.ok THEN peekbuffer_cp(r.pb, len, 0) ELSE <<>>
            IN  /\ pb' = r.pb /\ pos' = r.pos
                /\ Return("recv", TRUE, len, bytes, IF r.ok THEN Len(bytes) ELSE -1)
    BY <1>6 DEF RecvPeek
  <2>2. PICK r \in Peek(len) :
          LET bytes == IF r.ok THEN peekbuffer_cp(r.pb, len, 0) ELSE <<>>
          IN  /\ pb' = r.pb /\ pos' = r.pos
              /\ Return("recv", TRUE, len, bytes, IF r.ok THEN Len(bytes) ELSE -1)
    BY <2>1
  <2>3. One(r.pb, r.pos)
    BY <1>1, <1>2, PeekOne
  <2>4. ~Spans(peekbuffer_cp(r.pb, len, 0))
    <3>1. Sound(r.pb)
      BY <1>1, PeekOK DEF OutcomeOK
    <3> QED BY <1>1, <1>3, <2>3, <3>1, CpOpens DEF One
  <2>5. ret'.bytes = peekbuffer_cp(r.pb, len, 0) \/ ret'.bytes = <<>>
    BY <2>2 DEF Return
  <2>6. call' = NoCall
    BY <1>6 DEF RecvPeek
  <2> QED BY <2>2, <2>3, <2>4, <2>5, <2>6, SpansNothing DEF Gathered, Answer
<1>7. ASSUME NEW fn, NEW peek, NEW iov, Begin(fn, peek, iov)
      PROVE  call'.peek = peek /\ call'.bytes = <<>>
  BY <1>7 DEF Begin
<1>8. CASE Readv
  <2>1. ~call'.peek /\ UNCHANGED <<pos, pb, ret>>
    BY <1>7, <1>8 DEF Readv
  <2> QED BY <1>2, <2>1 DEF Gathered
<1>9. ASSUME NEW fn, NEW iov \in Iovs, RecvmsgCall(fn, iov)
      PROVE  One(pb', pos') /\ Gathered(call', pb') /\ Answer(ret')
  <2>1. CASE Begin(fn, FALSE, iov) /\ UNCHANGED <<pos, pb, ret>>
    <3>1. ~call'.peek
      BY <1>7, <2>1
    <3> QED BY <1>2, <2>1, <3>1 DEF Gathered
  <2>2. ASSUME NEW r \in Peek(TotalLength(iov)), pb' = r.pb, pos' = r.pos,
               \/ Begin(fn, TRUE, iov) /\ UNCHANGED ret
               \/ Return(fn, TRUE, TotalLength(iov), <<>>, -1) /\ UNCHANGED call
        PROVE  One(pb', pos') /\ Gathered(call', pb') /\ Answer(ret')
    <3>1. TotalLength(iov) \in 0 .. SizeLimit
      BY IovType
    <3>2. One(r.pb, r.pos)
      BY <1>2, <3>1, PeekOne
    <3>3. r.pb.size \in Nat
      BY <3>1, PeekOK, SoundIs DEF OutcomeOK
    <3>4. CASE Begin(fn, TRUE, iov) /\ UNCHANGED ret
      <4>1. call'.bytes = <<>>
        BY <1>7, <3>4
      <4>2. Gathered(call', r.pb)
        BY <3>3, <4>1 DEF Gathered
      <4> QED BY <1>2, <2>2, <3>2, <3>4, <4>2
    <3>5. CASE Return(fn, TRUE, TotalLength(iov), <<>>, -1) /\ UNCHANGED call
      <4>1. ret'.bytes = <<>>
        BY <3>5 DEF Return
      <4>2. call' = NoCall
        BY <1>9, <3>5 DEF RecvmsgCall
      <4> QED BY <2>2, <3>2, <4>1, <4>2, SpansNothing DEF Gathered, Answer
    <3> QED BY <2>2, <3>4, <3>5
  <2> QED BY <1>9, <2>1, <2>2 DEF RecvmsgCall
<1>10. CASE Recvmsg \/ Recvmmsg
  <2>1. \E fn \in {"recvmsg", "recvmmsg"}, iov \in Iovs : RecvmsgCall(fn, iov)
    BY <1>10 DEF Recvmsg, Recvmmsg
  <2> QED BY <1>9, <2>1
<1>11. CASE FillNext
  <2> DEFINE i   == call.i
             e   == call.iov.ends
             len == e[i] - (IF i = 1 THEN 0 ELSE e[i - 1])
             all(r) == call.bytes \o r.bytes
  <2>1. /\ call # NoCall /\ call.iov \in Iovs /\ i \in 1 .. Len(e) /\ call.bytes \in Seq(Offsets)
        /\ call.fn # "recv"
        /\ call \in [fn : {"readv", "recvmsg", "recvmmsg"}, peek : BOOLEAN, iov : Iovs,
                     i : Nat, bytes : Seq(Offsets)]
    BY <1>11 DEF FillNext, InputInv, TypeOK
  <2>2. len \in Nat
    BY <2>1, IovType
  <2>3. PICK r \in IF call.peek
                   THEN {Outcome(pb, pos, peekbuffer_cp(pb, len, Len(call.bytes)), TRUE)}
                   ELSE Fill(len, WasLocked) :
          /\ pb' = r.pb /\ pos' = r.pos
          /\ \/ call' = [call EXCEPT !.i = i + 1, !.bytes = all(r)] /\ UNCHANGED ret
             \/ /\ call' = NoCall
                /\ \E n : Return(call.fn, call.peek, TotalLength(call.iov), all(r), n)
    BY <1>11 DEF FillNext
  <2> HIDE DEF len
  <2>4. CASE call.peek
    <3>1. /\ r.pb = pb /\ r.pos = pos
          /\ r.bytes = peekbuffer_cp(pb, len, Len(call.bytes))
      BY <2>3, <2>4 DEF Outcome
    <3>2. Opens(call.bytes, Held(pb))
      BY <1>2, <1>3, <2>1, <2>4 DEF Gathered, Opens
    <3>3. all(r) \in Seq(Offsets) /\ Opens(all(r), Held(pb))
      BY <1>3, <2>1, <2>2, <3>1, <3>2, GathersMore
    <3> HIDE DEF all
    <3>4. ~Spans(all(r))
      <4>1. all(r) \in Seq(Nat)
        BY <1>3, <3>3, OffsetsAreNats
      <4> QED BY <1>3, <3>3, <4>1, FirstOf
    <3>5. CASE call' = [call EXCEPT !.i = i + 1, !.bytes = all(r)] /\ UNCHANGED ret
      <4>1. call'.bytes = all(r)
        BY <2>1, <3>5
      <4>2. Gathered(call', pb)
        BY <1>3, <3>3, <4>1 DEF Gathered, Opens
      <4> QED BY <1>2, <2>3, <3>1, <3>5, <4>2
    <3>6. CASE /\ call' = NoCall
               /\ \E n : Return(call.fn, call.peek, TotalLength(call.iov), all(r), n)
      <4>1. ret'.bytes = all(r)
        BY <3>6 DEF Return
      <4> QED BY <1>2, <2>3, <3>1, <3>4, <3>6, <4>1 DEF Gathered, Answer
    <3> QED BY <2>3, <3>5, <3>6
  <2>5. CASE ~call.peek
    <3>1. One(r.pb, r.pos)
      <4>1. PICK stops : stops = WasLocked
        OBVIOUS
      <4>2. r \in Fill(len, stops)
        BY <2>3, <2>5, <4>1
      <4> QED BY <1>2, <2>2, <4>2, FillRequest
    <3> HIDE DEF all
    <3>2. CASE call' = [call EXCEPT !.i = i + 1, !.bytes = all(r)] /\ UNCHANGED ret
      <4>1. ~call'.peek
        BY <2>1, <2>5, <3>2
      <4> QED BY <1>2, <2>3, <3>1, <3>2, <4>1 DEF Gathered
    <3>3. CASE /\ call' = NoCall
               /\ \E n : Return(call.fn, call.peek, TotalLength(call.iov), all(r), n)
      <4>1. ret'.fn = call.fn /\ ret'.peek = call.peek
        BY <3>3 DEF Return
      <4> QED BY <2>1, <2>3, <2>5, <3>1, <3>3, <4>1 DEF Gathered, Answer
    <3> QED BY <2>3, <3>2, <3>3
  <2> QED BY <2>4, <2>5
<1> QED BY <1>4, <1>5, <1>6, <1>8, <1>10, <1>11 DEF Next

LEMMA OneStep ==
  ASSUME InputInv, SavedInv, OneInv, [Next]_vars
  PROVE  OneInv'
<1>1. One(pb', pos') /\ Gathered(call', pb') /\ Answer(ret') /\ UNCHANGED stdin
  <2>1. CASE UNCHANGED vars
    BY <2>1 DEF vars, OneInv, OneRequestAtATime, Answer
  <2>2. CASE Next
    BY <2>2, OneNext, Advances
  <2> QED BY <2>1, <2>2
<1>2. Delimiters' = Delimiters
  BY <1>1, SameDelimiters
<1>3. One(pb, pos)'
  BY <1>1, <1>2 DEF One, Spans, Free
<1>4. OneRequestAtATime'
  BY <1>1, <1>2 DEF OneRequestAtATime, Answer, Spans
<1> QED BY <1>1, <1>3, <1>4 DEF OneInv, Gathered

\* Input.tla, OneRequestAtATime: whatever the input, its delimiters, the capacity and the
\* calls before it, no call that peeks shows bytes of two requests, and recv and recvfrom
\* return none (recv and recvfrom src/read.c, peekbuffer_read src/peekbuffer.c).
THEOREM RequestsKeptApart == Spec => []OneRequestAtATime
<1>1. Init => InputInv /\ SavedInv /\ OneInv
  <2> SUFFICES ASSUME Init
               PROVE  InputInv /\ SavedInv /\ OneInv
    OBVIOUS
  <2>1. pb.size = 0 /\ call = NoCall /\ ret.bytes = <<>>
    BY DEF Init, NothingRead
  <2>2. Held(pb) = <<>>
    BY <2>1 DEF Held, peekbuffer_cp
  <2>3. One(pb, pos)
    BY <2>1, <2>2, SpansNothing DEF One
  <2> QED BY <2>1, <2>3, InputInit, SavedInit, SpansNothing
          DEF OneInv, Gathered, OneRequestAtATime
<1>2. InputInv /\ SavedInv /\ OneInv /\ [Next]_vars => InputInv' /\ SavedInv' /\ OneInv'
  BY InputStep, SavedStep, OneStep
<1>3. OneInv => OneRequestAtATime
  BY DEF OneInv
<1> QED BY <1>1, <1>2, <1>3, PTL DEF Spec
=============================================================================
