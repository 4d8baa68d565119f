---------------------------- MODULE Serve_proofs ---------------------------
(***************************************************************************)
(* With one connection at a time, the reads of any number of threads are a *)
(* sequence of calls as in module Input: the semaphore alone keeps one     *)
(* thread's steps together, for there is no lock on the peekbuffer.        *)
(***************************************************************************)
EXTENDS Serve, Peekbuffer_proofs, FiniteSetTheorems

\* README of the repository, max_conns: the number it recommends
OneConnection == MAX_CONNS = 1
-----------------------------------------------------------------------------
(* The inductive invariant *)

\* a thread's connection, call and locals
Locals ==
  [fd : Fds \cup {NoFd}, step : {"idle", "move", "grow", "input", "post", "copy"},
   fn : {"none", "read", "recv", "peek"}, len : 0 .. MaxLen, buflen : Nat, locked : BOOLEAN,
   bytes : Seq(Offsets), from : Nat, n : Nat]

\* One thread at most has the connection, and only a thread that has it is in a call.
ThreadsOK ==
  /\ waiting \subseteq Threads
  /\ local \in [Threads -> Locals]
  /\ conns = {local[t].fd : t \in Threads} \ {NoFd}
  /\ \A t \in Threads : /\ local[t].fd = NoFd => local[t] = Idle(NoFd)
                        /\ local[t].step = "idle" => local[t] = Idle(local[t].fd)
  /\ \A t, u \in Threads : local[t].fd # NoFd /\ local[u].fd # NoFd => t = u

\* what the last call left behind was sound
SeenOK ==
  /\ stdin \in Inputs
  /\ seen.pos \in 0 .. Len(stdin)
  /\ Sound(seen.pb)

\* nothing has happened since the last call returned
Same == pos = seen.pos /\ pb = seen.pb

\* what a read has taken from the peekbuffer, and what a peek has made of it
Taken(l) == peekbuffer_cp(seen.pb, l.len, 0)
Left(l)  == IF seen.pb.size > 0 THEN peekbuffer_mv(seen.pb, l.len) ELSE seen.pb
Grown(l) == peekbuffer_grow(seen.pb, l.len)

\* stdin must be read for the rest of a read, or of a peek
ReadsOn(l) ==
  /\ l.fn \in {"read", "recv"}
  /\ ~(l.fn = "recv" /\ OneReader!WasLocked)
  /\ l.bytes = Taken(l) /\ Len(l.bytes) < l.len
PeeksOn(l) ==
  /\ l.fn = "peek" /\ l.buflen = seen.pb.size
  /\ l.len > seen.pb.size /\ ~seen.pb.locked

AtMove(l) ==
  /\ l.fn \in {"read", "recv"} /\ Same
  /\ l.buflen = seen.pb.size /\ l.locked = (l.fn = "recv" /\ OneReader!WasLocked)
AtGrow(l) == PeeksOn(l) /\ Same
AtInput(l) ==
  /\ pos = seen.pos
  /\ \/ ReadsOn(l) /\ pb = Left(l)
     \/ PeeksOn(l) /\ pb = Grown(l)
AtPost(l) ==
  /\ l.from = seen.pos /\ l.n <= l.len /\ l.from + l.n <= Len(stdin) /\ pos = l.from + l.n
  /\ \/ ReadsOn(l) /\ pb = Left(l) /\ l.n \in OneReader!hook_input(l.len - Len(l.bytes))
     \/ /\ PeeksOn(l) /\ l.n \in OneReader!hook_input(l.len - l.buflen) /\ l.n <= l.len - l.buflen
        /\ pb = [Grown(l) EXCEPT
                   !.buffer = Write(@, Grown(l).start + Grown(l).size, From(l.from, l.n))]
AtCopy(l) ==
  /\ l.fn = "peek"
  /\ \E r \in OneReader!Peek(l.len) : r.ok /\ pb = r.pb /\ pos = r.pos

\* How far a call has come, in terms of what it found: nobody else has touched the
\* peekbuffer and stdin since.
UnderWay(l) ==
  /\ l.len \in 1 .. MaxLen
  /\ \/ l.step = "move" /\ AtMove(l)
     \/ l.step = "grow" /\ AtGrow(l)
     \/ l.step = "input" /\ AtInput(l)
     \/ l.step = "post" /\ AtPost(l)
     \/ l.step = "copy" /\ AtCopy(l)

ServeInv ==
  /\ StdinOK /\ Sound(pb) /\ SeenOK
  /\ ThreadsOK
  /\ (\A t \in Threads : local[t].step = "idle") => Same
  /\ \A t \in Threads : local[t].n <= local[t].len
  /\ \A t \in Threads, l \in Locals : l = local[t] /\ l.step # "idle" => UnderWay(l)
-----------------------------------------------------------------------------
(* The operators of Input that OneReader uses are those of Serve, at the place seen. *)

LEMMA SamePeekbuffer ==
  /\ \A b, len, offset : OneReader!peekbuffer_cp(b, len, offset) = peekbuffer_cp(b, len, offset)
  /\ \A b, len : OneReader!peekbuffer_mv(b, len) = peekbuffer_mv(b, len)
  /\ \A b, size : OneReader!peekbuffer_grow(b, size) = peekbuffer_grow(b, size)
<1>1. \A b, len, offset : OneReader!peekbuffer_cp(b, len, offset) = peekbuffer_cp(b, len, offset)
  BY DEF OneReader!peekbuffer_cp, peekbuffer_cp, OneReader!Smaller, Smaller
<1>2. \A b, len : OneReader!peekbuffer_mv(b, len) = peekbuffer_mv(b, len)
  BY DEF OneReader!peekbuffer_mv, peekbuffer_mv
<1>3. \A size : OneReader!next_pow_2(size) = next_pow_2(size)
  BY DEF OneReader!next_pow_2, next_pow_2, OneReader!Min, Min
<1>4. \A b, size : OneReader!Reallocated(b, size) = Reallocated(b, size)
  BY <1>3 DEF OneReader!Reallocated, Reallocated, OneReader!Junk, Junk
<1>5. \A b : OneReader!Moved(b) = Moved(b)
  BY DEF OneReader!Moved, Moved
<1>6. \A b, size : OneReader!peekbuffer_grow(b, size) = peekbuffer_grow(b, size)
  BY <1>4, <1>5 DEF OneReader!peekbuffer_grow, peekbuffer_grow
<1> QED BY <1>1, <1>2, <1>6

LEMMA SameStdin ==
  /\ \A p, n : OneReader!From(p, n) = From(p, n)
  /\ \A p, n : OneReader!postprocess_input(p, n) = postprocess_input(p, n)
  /\ \A buffer, at, bytes : OneReader!Write(buffer, at, bytes) = Write(buffer, at, bytes)
  /\ \A b, p, bytes, ok : OneReader!Outcome(b, p, bytes, ok) = Outcome(b, p, bytes, ok)
  /\ pos = seen.pos => \A len : OneReader!hook_input(len) = hook_input(len)
<1>1. \A p, n : OneReader!From(p, n) = From(p, n)
  BY DEF OneReader!From, From
<1>2. \A p, n : OneReader!Matches(p, n) = Matches(p, n)
  BY DEF OneReader!Matches, Matches
<1>3. OneReader!DELIMITER_LEN = DELIMITER_LEN
  BY DEF OneReader!DELIMITER_LEN, DELIMITER_LEN
<1>4. \A p : OneReader!is_partial_delimiter(p) = is_partial_delimiter(p)
  BY <1>2, <1>3 DEF OneReader!is_partial_delimiter, is_partial_delimiter
<1>5. \A S : OneReader!Min(S) = Min(S)
  BY DEF OneReader!Min, Min
<1>6. \A p, n : OneReader!postprocess_input(p, n) = postprocess_input(p, n)
  <2> TAKE p, n
  <2> DEFINE whole   == {i \in 0 .. n - DELIMITER_LEN : Matches(p + i, DELIMITER_LEN)}
             tail    == {i \in 0 .. n - 1 : /\ i > n - DELIMITER_LEN
                                            /\ Matches(p + i, n - i)
                                            /\ is_partial_delimiter(p + i)}
             starts  == IF ~MULTI_REQUEST THEN {} ELSE IF whole # {} THEN whole ELSE tail
             whole2  == {i \in 0 .. n - OneReader!DELIMITER_LEN :
                           OneReader!Matches(p + i, OneReader!DELIMITER_LEN)}
             tail2   == {i \in 0 .. n - 1 : /\ i > n - OneReader!DELIMITER_LEN
                                            /\ OneReader!Matches(p + i, n - i)
                                            /\ OneReader!is_partial_delimiter(p + i)}
             starts2 == IF ~MULTI_REQUEST THEN {} ELSE IF whole2 # {} THEN whole2 ELSE tail2
             kept(S, min, length) ==
               IF S = {} THEN [kept |-> n, pos |-> p + n]
               ELSE [kept |-> min, pos |-> p + min + length]
  <2>1. whole2 = whole /\ tail2 = tail
    BY <1>2, <1>3, <1>4
  <2>2. starts2 = starts
    BY <2>1
  <2>3. postprocess_input(p, n) = kept(starts, Min(starts), DELIMITER_LEN)
    BY DEF postprocess_input
  <2>4. OneReader!postprocess_input(p, n)
          = kept(starts2, OneReader!Min(starts2), OneReader!DELIMITER_LEN)
    BY DEF OneReader!postprocess_input
  <2>5. OneReader!Min(starts2) = Min(starts)
    BY <1>5, <2>2
  <2> HIDE DEF starts, starts2, kept
  <2> QED BY <1>3, <2>2, <2>3, <2>4, <2>5
<1>7. \A buffer, at, bytes : OneReader!Write(buffer, at, bytes) = Write(buffer, at, bytes)
  BY DEF OneReader!Write, Write
<1>8. \A b, p, bytes, ok : OneReader!Outcome(b, p, bytes, ok) = Outcome(b, p, bytes, ok)
  BY DEF OneReader!Outcome, Outcome
<1>9. pos = seen.pos => \A len : OneReader!hook_input(len) = hook_input(len)
  BY DEF OneReader!hook_input, hook_input, OneReader!Smaller, Smaller
<1> QED BY <1>1, <1>6, <1>7, <1>8, <1>9

\* a call of the hook gives no more than there is room for, and than stdin holds
LEMMA SeenHookBounds ==
  ASSUME SeenOK, NEW len \in Nat, NEW n \in OneReader!hook_input(len), n # -1
  PROVE  n \in 0 .. len /\ seen.pos + n <= Len(stdin)
BY StdinType DEF SeenOK, OneReader!hook_input, OneReader!Smaller

LEMMA SameNoCall ==
  /\ OneReader!NoCall = In!NoCall
  /\ OneReader!WasLocked = (seen.pb.size > 0 /\ seen.pb.locked)
BY DEF OneReader!NoCall, In!NoCall, OneReader!WasLocked
-----------------------------------------------------------------------------
(* What Input says a read or a peek may leave behind *)

LEMMA FillHas ==
  ASSUME SeenOK, NEW l \in Locals, NEW stops
  PROVE  /\ stops \/ Len(Taken(l)) = l.len =>
              Outcome(Left(l), seen.pos, Taken(l), TRUE) \in OneReader!Fill(l.len, stops)
         /\ ~stops /\ Len(Taken(l)) < l.len =>
              \A n \in OneReader!hook_input(l.len - Len(Taken(l))) :
                /\ n = -1 =>
                     Outcome(Left(l), seen.pos, Taken(l), FALSE) \in OneReader!Fill(l.len, stops)
                /\ n # -1 =>
                     Outcome(Left(l), postprocess_input(seen.pos, n).pos,
                             Taken(l) \o From(seen.pos, postprocess_input(seen.pos, n).kept), TRUE)
                       \in OneReader!Fill(l.len, stops)
<1> DEFINE rest == l.len - Len(Taken(l))
           one(n) == IF n = -1 THEN Outcome(Left(l), seen.pos, Taken(l), FALSE)
                     ELSE Outcome(Left(l), postprocess_input(seen.pos, n).pos,
                                  Taken(l) \o From(seen.pos, postprocess_input(seen.pos, n).kept), TRUE)
<1>1. l.len \in Nat /\ Len(Taken(l)) \in Nat
  <2>1. l.len \in Nat
    BY ServeAssumption, PeekbufferAssumption DEF Locals
  <2>2. Taken(l) \in Seq(Offsets)
    BY <2>1, CpType DEF SeenOK, Taken
  <2> QED BY <2>1, <2>2
<1>2. OneReader!Fill(l.len, stops) =
        IF stops \/ rest = 0 THEN {Outcome(Left(l), seen.pos, Taken(l), TRUE)}
        ELSE {one(n) : n \in OneReader!hook_input(rest)}
  BY SamePeekbuffer, SameStdin DEF OneReader!Fill, Left, Taken
<1>3. rest = 0 <=> Len(Taken(l)) = l.len
  BY <1>1
<1> HIDE DEF rest, one
<1>4. ASSUME stops \/ Len(Taken(l)) = l.len
      PROVE  Outcome(Left(l), seen.pos, Taken(l), TRUE) \in OneReader!Fill(l.len, stops)
  BY <1>2, <1>3, <1>4
<1>5. ASSUME ~stops, Len(Taken(l)) < l.len, NEW n \in OneReader!hook_input(rest)
      PROVE  one(n) \in OneReader!Fill(l.len, stops)
  <2>1. ~(rest = 0)
    BY <1>1, <1>3, <1>5
  <2> QED BY <1>2, <1>5, <2>1
<1> QED BY <1>4, <1>5 DEF one, rest

LEMMA PeekHas ==
  ASSUME SeenOK, NEW l \in Locals, l.buflen = seen.pb.size
  PROVE  /\ l.len <= seen.pb.size \/ seen.pb.locked =>
              Outcome(seen.pb, seen.pos, <<>>, TRUE) \in OneReader!Peek(l.len)
         /\ PeeksOn(l) /\ MallocFails /\ l.len > seen.pb.capacity =>
              Outcome(seen.pb, seen.pos, <<>>, FALSE) \in OneReader!Peek(l.len)
         /\ PeeksOn(l) =>
              \A n \in OneReader!hook_input(l.len - l.buflen) :
                /\ n = -1 => Outcome(Grown(l), seen.pos, <<>>, FALSE) \in OneReader!Peek(l.len)
                /\ n # -1 => Outcome(OneReader!Appended(Grown(l), n),
                                     postprocess_input(seen.pos, n).pos, <<>>, TRUE)
                               \in OneReader!Peek(l.len)
<1> DEFINE more == l.len - seen.pb.size
           fails == IF MallocFails /\ seen.pb.size + more > seen.pb.capacity
                    THEN {Outcome(seen.pb, seen.pos, <<>>, FALSE)} ELSE {}
           one(n) == IF n = -1 THEN Outcome(Grown(l), seen.pos, <<>>, FALSE)
                     ELSE Outcome(OneReader!Appended(Grown(l), n),
                                  postprocess_input(seen.pos, n).pos, <<>>, TRUE)
<1>1. /\ l.len \in Nat /\ seen.pb.size \in Nat /\ seen.pb.locked \in BOOLEAN
      /\ seen.pb.capacity \in Nat
  BY ServeAssumption, PeekbufferAssumption, SoundIs DEF Locals, SeenOK
<1>2. seen.pb.size + more = l.len
  BY <1>1
<1>3. OneReader!Peek(l.len) = IF l.len > seen.pb.size THEN OneReader!peekbuffer_read(more)
                              ELSE {Outcome(seen.pb, seen.pos, <<>>, TRUE)}
  BY SameStdin DEF OneReader!Peek
<1>4. OneReader!peekbuffer_read(more) =
        IF seen.pb.locked THEN {Outcome(seen.pb, seen.pos, <<>>, TRUE)}
        ELSE {one(n) : n \in OneReader!hook_input(more)} \cup fails
  <2>1. peekbuffer_grow(seen.pb, seen.pb.size + more) = Grown(l)
    BY <1>2 DEF Grown
  <2> HIDE DEF more
  <2> QED BY <2>1, SamePeekbuffer, SameStdin DEF OneReader!peekbuffer_read
<1>5. ASSUME l.len <= seen.pb.size \/ seen.pb.locked
      PROVE  Outcome(seen.pb, seen.pos, <<>>, TRUE) \in OneReader!Peek(l.len)
  <2> HIDE DEF more, one, fails
  <2>1. CASE l.len <= seen.pb.size
    <3>1. ~(l.len > seen.pb.size)
      BY <1>1, <2>1
    <3> QED BY <1>3, <3>1
  <2>2. CASE seen.pb.locked
    BY <1>3, <1>4, <2>2
  <2> QED BY <1>5, <2>1, <2>2
<1>6. ASSUME PeeksOn(l)
      PROVE  OneReader!Peek(l.len) = {one(n) : n \in OneReader!hook_input(more)} \cup fails
  <2> HIDE DEF more, one, fails
  <2> QED BY <1>3, <1>4, <1>6 DEF PeeksOn
<1>7. ASSUME PeeksOn(l), MallocFails, l.len > seen.pb.capacity
      PROVE  Outcome(seen.pb, seen.pos, <<>>, FALSE) \in OneReader!Peek(l.len)
  <2>1. Outcome(seen.pb, seen.pos, <<>>, FALSE) \in fails
    BY <1>2, <1>7
  <2> HIDE DEF more, one, fails
  <2> QED BY <1>6, <1>7, <2>1
<1>8. ASSUME PeeksOn(l), NEW n \in OneReader!hook_input(more)
      PROVE  one(n) \in OneReader!Peek(l.len)
  <2> HIDE DEF more, one, fails
  <2> QED BY <1>6, <1>8
<1>9. more = l.len - l.buflen
  OBVIOUS
<1> HIDE DEF more, fails
<1> QED BY <1>5, <1>7, <1>8, <1>9

\* A read or recv that returns what Fill says is a step of Input.
LEMMA ReadReturns ==
  ASSUME NEW t \in Threads, NEW l \in Locals, l = local[t], l.fn \in {"read", "recv"},
         l.len \in 1 .. MaxLen, NEW bytes, NEW ok, Returned(t, bytes, ok), NEW r,
         l.fn = "read" => r \in OneReader!Fill(l.len, FALSE),
         l.fn = "recv" => r \in OneReader!Fill(l.len, OneReader!WasLocked),
         r = Outcome(pb', pos', bytes, ok)
  PROVE  OneReader!Next
<1>1. r.pb = pb' /\ r.pos = pos' /\ r.bytes = bytes /\ r.ok = ok
  BY DEF Outcome
<1>2. seen'.pb = r.pb /\ seen'.pos = r.pos /\ stdin' = stdin /\ stored' = stored \o r.bytes
  BY <1>1 DEF Returned, Go
<1>3. ret' = [fn |-> l.fn, peek |-> FALSE, len |-> l.len, bytes |-> r.bytes,
              reported |-> IF r.ok THEN Len(r.bytes) ELSE -1]
  BY <1>1 DEF Returned, In!Return
<1>4. OneReader!Return(l.fn, FALSE, l.len, r.bytes, IF r.ok THEN Len(r.bytes) ELSE -1)
  BY <1>3 DEF OneReader!Return
<1>5. CASE l.fn = "read"
  <2>1. OneReader!FillOne("read", l.len, FALSE)
    BY <1>2, <1>4, <1>5, SameNoCall DEF OneReader!FillOne
  <2> QED BY <2>1 DEF OneReader!Read, OneReader!Next
<1>6. CASE l.fn = "recv"
  <2>1. OneReader!FillOne("recv", l.len, OneReader!WasLocked)
    BY <1>2, <1>4, <1>6, SameNoCall DEF OneReader!FillOne
  <2> QED BY <2>1 DEF OneReader!Recv, OneReader!Next
<1> QED BY <1>5, <1>6

\* So is a peek that returns a copy of what it made of the peekbuffer.
LEMMA PeekReturns ==
  ASSUME NEW t \in Threads, NEW l \in Locals, l = local[t], l.fn = "peek",
         l.len \in 1 .. MaxLen, NEW bytes, NEW ok, Returned(t, bytes, ok),
         NEW r \in OneReader!Peek(l.len), r.pb = pb', r.pos = pos', r.ok = ok,
         bytes = IF r.ok THEN peekbuffer_cp(r.pb, l.len, 0) ELSE <<>>
  PROVE  OneReader!Next
<1>1. seen'.pb = r.pb /\ seen'.pos = r.pos /\ stdin' = stdin /\ stored' = stored
  BY DEF Returned, Go
<1>2. ret' = [fn |-> "recv", peek |-> TRUE, len |-> l.len, bytes |-> bytes,
              reported |-> IF r.ok THEN Len(bytes) ELSE -1]
  BY DEF Returned, In!Return
<1>3. OneReader!Return("recv", TRUE, l.len, bytes, IF r.ok THEN Len(bytes) ELSE -1)
  BY <1>2 DEF OneReader!Return
<1>4. bytes = IF r.ok THEN OneReader!peekbuffer_cp(r.pb, l.len, 0) ELSE <<>>
  BY SamePeekbuffer
<1>5. OneReader!RecvPeek
  BY <1>1, <1>3, <1>4, SameNoCall DEF OneReader!RecvPeek
<1> QED BY <1>5 DEF OneReader!Next
-----------------------------------------------------------------------------
(* The thread that has the connection goes on *)

LEMMA GoesOn ==
  ASSUME ServeInv, NEW t \in Threads, NEW l \in Locals, l.n <= l.len,
         l.fd = local[t].fd, l.fd # NoFd, Go(t, l),
         StdinOK', Sound(pb)', SeenOK',
         l.step = "idle" => l = Idle(l.fd) /\ Same', l.step # "idle" => UnderWay(l)'
  PROVE  ServeInv'
<1>1. /\ local' = [local EXCEPT ![t] = l] /\ local' \in [Threads -> Locals]
      /\ conns' = conns /\ waiting' = waiting
  BY DEF Go, ServeInv, ThreadsOK
<1>0. Locals' = Locals
  BY DEF Go, Locals, Offsets
<1>2. \A u \in Threads : local'[u] = IF u = t THEN l ELSE local[u]
  BY <1>1 DEF ServeInv, ThreadsOK
<1>3. \A u \in Threads : local'[u].fd = local[u].fd
  BY <1>2
<1>4. \A u \in Threads \ {t} : local[u] = Idle(NoFd)
  BY DEF ServeInv, ThreadsOK
<1>5. ThreadsOK'
  <2>1. {local'[u].fd : u \in Threads} = {local[u].fd : u \in Threads}
    BY <1>3
  <2>2. conns' = {local'[u].fd : u \in Threads} \ {NoFd}
    BY <1>1, <2>1 DEF ServeInv, ThreadsOK
  <2>3. ASSUME NEW u \in Threads \ {t}
        PROVE  local'[u] = Idle(NoFd) /\ local'[u].fd = NoFd
    <3>1. local'[u] = Idle(NoFd)
      BY <1>2, <1>4
    <3> QED BY <3>1 DEF Idle
  <2>4. /\ local'[t].fd # NoFd
        /\ local'[t].step = "idle" => local'[t] = Idle(local'[t].fd)
    BY <1>2
  <2>5. waiting' \subseteq Threads
    BY <1>1 DEF ServeInv, ThreadsOK
  <2>6. conns' = ({local[u].fd : u \in Threads} \ {NoFd})'
    BY <2>2
  <2>7. (local \in [Threads -> Locals])'
    BY <1>0, <1>1
  <2>8. (\A u, v \in Threads : local[u].fd # NoFd /\ local[v].fd # NoFd => u = v)'
    BY <1>3 DEF ServeInv, ThreadsOK
  <2>9. (/\ waiting \subseteq Threads
        /\ local \in [Threads -> Locals]
        /\ conns = {local[u].fd : u \in Threads} \ {NoFd})'
    BY <2>5, <2>6, <2>7
  <2>10. (\A u \in Threads : local[u].fd = NoFd => local[u] = Idle(NoFd))'
    BY <2>3, <2>4 DEF Idle
  <2>11. (\A u \in Threads : local[u].step = "idle" => local[u] = Idle(local[u].fd))'
    BY <2>3, <2>4 DEF Idle
  <2> QED BY <2>8, <2>9, <2>10, <2>11 DEF ThreadsOK
<1>6. \A u \in Threads \ {t} : local'[u].step = "idle" /\ local'[u].n <= local'[u].len
  BY <1>2, <1>4 DEF Idle
<1>7. ((\A u \in Threads : local[u].step = "idle") => Same)'
  BY <1>2
<1>8. (\A u \in Threads : local[u].n <= local[u].len)'
  BY <1>2, <1>6
<1>9. (\A u \in Threads, k \in Locals : k = local[u] /\ k.step # "idle" => UnderWay(k))'
  <2>1. ASSUME NEW u \in Threads, NEW k \in Locals', (k = local[u] /\ k.step # "idle")'
        PROVE  UnderWay(k)'
    <3>1. k = l
      BY <1>2, <1>6, <2>1
    <3>2. l.step # "idle"
      BY <2>1, <3>1
    <3> QED BY <3>1, <3>2
  <2> QED BY <1>0, <2>1
<1> QED BY <1>5, <1>7, <1>8, <1>9 DEF ServeInv

\* in particular when its call returns
LEMMA Returns ==
  ASSUME ServeInv, NEW t \in Threads, local[t].fd # NoFd, NEW bytes, NEW ok,
         Returned(t, bytes, ok), StdinOK', Sound(pb)'
  PROVE  ServeInv'
<1> PICK l : l = Idle(local[t].fd)
  OBVIOUS
<1>1. local[t] \in Locals
  BY DEF ServeInv, ThreadsOK
<1>2. /\ l = [fd |-> local[t].fd, step |-> "idle", fn |-> "none", len |-> 0, buflen |-> 0,
              locked |-> FALSE, bytes |-> <<>>, from |-> 0, n |-> 0]
  BY DEF Idle
<1>3. l \in Locals /\ l.n <= l.len /\ l.fd = local[t].fd /\ l.step = "idle"
  BY <1>1, <1>2, ServeAssumption DEF Locals
<1>4. Go(t, l) /\ Same' /\ SeenOK'
  BY DEF Returned, StdinOK, SeenOK, Same
<1> QED BY <1>3, <1>4, GoesOn
-----------------------------------------------------------------------------
(* While a call is under way, what it found when it began stays as it is. *)

LEMMA StillSeen ==
  ASSUME stdin' = stdin, seen' = seen, NEW l
  PROVE  /\ SeenOK => SeenOK'
         /\ Taken(l)' = Taken(l) /\ Left(l)' = Left(l) /\ Grown(l)' = Grown(l)
         /\ ReadsOn(l) => ReadsOn(l)'
         /\ PeeksOn(l) => PeeksOn(l)'
<1>1. SeenOK => SeenOK'
  BY DEF SeenOK, Sound, PeekbufferType, Offsets
<1>2. Taken(l)' = Taken(l) /\ Left(l)' = Left(l) /\ Grown(l)' = Grown(l)
  BY DEF Taken, Left, Grown
<1>3. ReadsOn(l) => ReadsOn(l)'
  BY <1>2, SameNoCall DEF ReadsOn, OneReader!WasLocked
<1>4. PeeksOn(l) => PeeksOn(l)'
  BY DEF PeeksOn
<1> QED BY <1>1, <1>2, <1>3, <1>4

LEMMA StillReads ==
  ASSUME stdin' = stdin, seen' = seen, NEW len
  PROVE  /\ OneReader!hook_input(len)' = OneReader!hook_input(len)
         /\ OneReader!Peek(len)' = OneReader!Peek(len)
<1>1. \A k : OneReader!hook_input(k)' = OneReader!hook_input(k)
  BY DEF OneReader!hook_input, OneReader!Smaller
<1>2. \A p, n : OneReader!Matches(p, n)' = OneReader!Matches(p, n)
  BY DEF OneReader!Matches
<1>3. \A p : OneReader!is_partial_delimiter(p)' = OneReader!is_partial_delimiter(p)
  BY <1>2 DEF OneReader!is_partial_delimiter, OneReader!DELIMITER_LEN
<1>4. \A p, n : OneReader!postprocess_input(p, n)' = OneReader!postprocess_input(p, n)
  <2> TAKE p, n
  <2> DEFINE whole  == {i \in 0 .. n - OneReader!DELIMITER_LEN :
                          OneReader!Matches(p + i, OneReader!DELIMITER_LEN)}
             tail   == {i \in 0 .. n - 1 : /\ i > n - OneReader!DELIMITER_LEN
                                           /\ OneReader!Matches(p + i, n - i)
                                           /\ OneReader!is_partial_delimiter(p + i)}
             starts == IF ~MULTI_REQUEST THEN {} ELSE IF whole # {} THEN whole ELSE tail
             kept(S) ==
               IF S = {} THEN [kept |-> n, pos |-> p + n]
               ELSE [kept |-> OneReader!Min(S),
                     pos |-> p + OneReader!Min(S) + OneReader!DELIMITER_LEN]
  <2>1. OneReader!DELIMITER_LEN' = OneReader!DELIMITER_LEN
    BY DEF OneReader!DELIMITER_LEN
  <2>2. whole' = whole /\ tail' = tail
    BY <1>2, <1>3, <2>1
  <2>3. OneReader!postprocess_input(p, n) = kept(starts)
    BY DEF OneReader!postprocess_input
  <2>4. OneReader!postprocess_input(p, n)' = kept(starts)'
    BY DEF OneReader!postprocess_input
  <2>5. starts' = starts
    BY <2>2
  <2>6. \A S : kept(S)' = kept(S)
    BY <2>1
  <2> HIDE DEF kept, starts
  <2> QED BY <2>3, <2>4, <2>5, <2>6
<1>5. \A b, n : OneReader!Appended(b, n)' = OneReader!Appended(b, n)
  BY <1>4 DEF OneReader!Appended
<1>6. \A k : OneReader!peekbuffer_read(k)' = OneReader!peekbuffer_read(k)
  BY <1>1, <1>4, <1>5 DEF OneReader!peekbuffer_read
<1>7. OneReader!Peek(len)' = OneReader!Peek(len)
  BY <1>6 DEF OneReader!Peek
<1> QED BY <1>1, <1>7

LEMMA NothingSeen ==
  ASSUME stdin' = stdin, UNCHANGED History
  PROVE  UNCHANGED OneReader!vars
BY DEF History, OneReader!vars, In!NoCall

LEMMA StillSound ==
  ASSUME stdin' = stdin, NEW b, Sound(b), pb' = b
  PROVE  Sound(pb)'
BY DEF Sound, PeekbufferType, Offsets

\* what is known of the thread that has the connection
LEMMA HasConnection ==
  ASSUME ServeInv, NEW t \in Threads, local[t].fd # NoFd
  PROVE  /\ local[t] \in Locals /\ local[t].n <= local[t].len
         /\ local[t].step = "idle" => Same /\ local[t] = Idle(local[t].fd)
         /\ local[t].step # "idle" => UnderWay(local[t])
<1>1. /\ local[t] \in Locals /\ local[t].n <= local[t].len
      /\ local[t].step = "idle" => local[t] = Idle(local[t].fd)
  BY DEF ServeInv, ThreadsOK
<1>2. ASSUME local[t].step = "idle"
      PROVE  Same
  <2>1. \A u \in Threads \ {t} : local[u] = Idle(NoFd)
    BY DEF ServeInv, ThreadsOK
  <2>2. \A u \in Threads : local[u].step = "idle"
    BY <1>2, <2>1 DEF Idle
  <2> QED BY <2>2 DEF ServeInv
<1>3. ASSUME local[t].step # "idle"
      PROVE  UnderWay(local[t])
  BY <1>1, <1>3 DEF ServeInv
<1> QED BY <1>1, <1>2, <1>3
-----------------------------------------------------------------------------
(* The steps of a call *)

LEMMA EnterStep ==
  ASSUME ServeInv, NEW t \in Threads, Enter(t)
  PROVE  ServeInv' /\ UNCHANGED OneReader!vars
<1>1. PICK fn \in {"read", "recv", "peek"} : \E len \in 1 .. MaxLen :
        Go(t, [local[t] EXCEPT !.step = IF fn # "peek" THEN "move"
                                       ELSE IF len > pb.size /\ ~pb.locked THEN "grow" ELSE "copy",
                              !.fn = fn, !.len = len, !.buflen = pb.size,
                              !.locked = fn = "recv" /\ pb.size > 0 /\ pb.locked])
  BY DEF Enter
<1>2. PICK len \in 1 .. MaxLen :
        Go(t, [local[t] EXCEPT !.step = IF fn # "peek" THEN "move"
                                       ELSE IF len > pb.size /\ ~pb.locked THEN "grow" ELSE "copy",
                              !.fn = fn, !.len = len, !.buflen = pb.size,
                              !.locked = fn = "recv" /\ pb.size > 0 /\ pb.locked])
  BY <1>1
<1>3. /\ local[t].step = "idle" /\ local[t].fd # NoFd
      /\ UNCHANGED <<pos, pb, History, stdin>>
  BY <1>2 DEF Enter, Go
<1>4. /\ local[t] \in Locals /\ Same /\ local[t] = Idle(local[t].fd)
      /\ StdinOK /\ Sound(pb) /\ SeenOK
  BY <1>3, HasConnection DEF ServeInv
<1>5. PICK step \in {"move", "grow", "copy"} :
        step = IF fn # "peek" THEN "move"
               ELSE IF len > pb.size /\ ~pb.locked THEN "grow" ELSE "copy"
  OBVIOUS
<1>6. PICK locked \in BOOLEAN : locked = (fn = "recv" /\ pb.size > 0 /\ pb.locked)
  OBVIOUS
<1>7. PICK l : l = [local[t] EXCEPT !.step = step, !.fn = fn, !.len = len, !.buflen = pb.size,
                                    !.locked = locked]
  OBVIOUS
<1>8. /\ l \in Locals
      /\ l.fd = local[t].fd /\ l.step = step /\ l.fn = fn /\ l.len = len /\ l.buflen = pb.size
      /\ l.locked = locked /\ l.n = 0
  <2>1. pb.size \in Nat /\ len \in 0 .. MaxLen
    BY <1>4, SoundIs, ServeAssumption
  <2>2. local[t].n = 0
    BY <1>4 DEF Idle
  <2> QED BY <1>4, <1>7, <2>1, <2>2 DEF Locals
<1>9. Go(t, l)
  BY <1>2, <1>5, <1>6, <1>7
<1>10. StdinOK' /\ Sound(pb)' /\ SeenOK' /\ Same'
  BY <1>3, <1>4, StillSound, StillSeen DEF StdinOK, Same, History
<1>11. UnderWay(l)'
  <2>1. l.len \in 1 .. MaxLen /\ l.fn = fn /\ l.step = step /\ l.buflen = pb.size
    BY <1>8
  <2>2. seen' = seen /\ stdin' = stdin /\ pb' = pb /\ pos' = pos
    BY <1>3 DEF History
  <2>3. CASE fn # "peek"
    <3>1. AtMove(l)
      BY <1>4, <1>6, <1>8, <2>3, SameNoCall DEF AtMove, Same
    <3>2. AtMove(l)'
      BY <3>1, <2>2 DEF AtMove, Same, OneReader!WasLocked
    <3>3. l.step = "move"
      BY <1>5, <2>1, <2>3
    <3> QED BY <2>1, <3>2, <3>3 DEF UnderWay
  <2>4. CASE fn = "peek" /\ len > pb.size /\ ~pb.locked
    <3>1. PeeksOn(l)
      BY <1>4, <1>8, <2>4 DEF PeeksOn, Same
    <3>2. AtGrow(l)'
      BY <1>10, <2>2, <3>1, StillSeen DEF AtGrow
    <3>3. l.step = "grow"
      BY <1>5, <2>1, <2>4
    <3> QED BY <2>1, <3>2, <3>3 DEF UnderWay
  <2>5. CASE fn = "peek" /\ ~(len > pb.size /\ ~pb.locked)
    <3>1. l.len <= seen.pb.size \/ seen.pb.locked
      BY <1>4, <1>8, <2>5, SoundIs DEF Same
    <3>2. Outcome(seen.pb, seen.pos, <<>>, TRUE) \in OneReader!Peek(l.len)
      BY <1>4, <1>8, <2>1, <3>1, PeekHas DEF Same
    <3>3. Outcome(seen.pb, seen.pos, <<>>, TRUE) \in OneReader!Peek(l.len)'
      BY <2>2, <3>2, StillReads
    <3>4. AtCopy(l)'
      BY <1>4, <2>1, <2>2, <2>5, <3>3 DEF AtCopy, Outcome, Same
    <3>5. l.step = "copy"
      BY <1>5, <2>1, <2>5
    <3> QED BY <2>1, <3>4, <3>5 DEF UnderWay
  <2> QED BY <2>3, <2>4, <2>5
<1>12. l.fd = local[t].fd /\ l.n <= l.len /\ l.step # "idle"
  BY <1>8, ServeAssumption
<1>13. ServeInv'
  BY <1>3, <1>8, <1>9, <1>10, <1>11, <1>12, GoesOn
<1> QED BY <1>3, <1>13, NothingSeen
-----------------------------------------------------------------------------
LEMMA MoveStep ==
  ASSUME ServeInv, NEW t \in Threads, local[t].fd # NoFd, Move(t)
  PROVE  ServeInv' /\ (OneReader!Next \/ UNCHANGED OneReader!vars)
<1>1. PICK l : l = local[t]
  OBVIOUS
<1>2. PICK bytes : bytes = IF l.buflen > 0 THEN peekbuffer_cp(pb, l.len, 0) ELSE <<>>
  OBVIOUS
<1>3. /\ l.step = "move"
      /\ pb' = IF l.buflen > 0 THEN peekbuffer_mv(pb, l.len) ELSE pb
      /\ pos' = pos
      /\ \/ (l.locked \/ Len(bytes) = l.len) /\ Returned(t, bytes, TRUE)
         \/ /\ ~l.locked /\ Len(bytes) < l.len
            /\ Go(t, [l EXCEPT !.step = "input", !.bytes = bytes])
            /\ UNCHANGED History
  BY <1>1, <1>2 DEF Move
<1>4. /\ l \in Locals /\ l.n <= l.len /\ l.len \in 1 .. MaxLen /\ AtMove(l)
      /\ StdinOK /\ Sound(pb) /\ SeenOK
  BY <1>1, <1>3, HasConnection DEF ServeInv, UnderWay
<1>5. /\ pb = seen.pb /\ pos = seen.pos /\ l.buflen = seen.pb.size
      /\ l.locked = (l.fn = "recv" /\ OneReader!WasLocked) /\ l.fn \in {"read", "recv"}
  BY <1>4 DEF AtMove, Same
<1>6. /\ seen.pb.size \in Nat /\ l.len \in Nat
      /\ Taken(l) \in Seq(Offsets) /\ Len(Taken(l)) <= l.len
  BY <1>4, ServeAssumption, PeekbufferAssumption, SoundIs, CpType DEF SeenOK, Taken
<1>7. bytes = Taken(l) /\ pb' = Left(l)
  <2>1. CASE seen.pb.size > 0
    BY <1>2, <1>3, <1>5, <2>1 DEF Taken, Left
  <2>2. CASE seen.pb.size = 0
    BY <1>2, <1>3, <1>5, <2>2 DEF Taken, Left, peekbuffer_cp
  <2> QED BY <1>6, <2>1, <2>2
<1>8. stdin' = stdin
  BY <1>3 DEF Returned, Go
<1>9. StdinOK' /\ Sound(pb)'
  <2>1. Sound(Left(l))
    BY <1>4, <1>6, MvSound DEF SeenOK, Left
  <2> QED BY <1>3, <1>4, <1>7, <1>8, <2>1, StillSound DEF StdinOK
<1>10. CASE (l.locked \/ Len(bytes) = l.len) /\ Returned(t, bytes, TRUE)
  <2>1. ServeInv'
    BY <1>9, <1>10, Returns
  <2> DEFINE stops == l.fn = "recv" /\ OneReader!WasLocked
             r     == Outcome(Left(l), seen.pos, Taken(l), TRUE)
  <2>2. stops \/ Len(Taken(l)) = l.len
    BY <1>5, <1>7, <1>10
  <2>3. r \in OneReader!Fill(l.len, stops)
    <3> HIDE DEF stops
    <3> QED BY <1>4, <2>2, FillHas
  <2>4. r = Outcome(pb', pos', bytes, TRUE)
    BY <1>3, <1>5, <1>7
  <2>5. l.fn = "read" => r \in OneReader!Fill(l.len, FALSE)
    BY <2>3
  <2>6. l.fn = "recv" => r \in OneReader!Fill(l.len, OneReader!WasLocked)
    <3>1. l.fn = "recv" => stops = OneReader!WasLocked
      BY SameNoCall
    <3> HIDE DEF stops
    <3> QED BY <2>3, <3>1
  <2> HIDE DEF r, stops
  <2>7. OneReader!Next
    BY <1>1, <1>4, <1>5, <1>10, <2>4, <2>5, <2>6, ReadReturns
  <2> QED BY <2>1, <2>7
<1>11. CASE /\ ~l.locked /\ Len(bytes) < l.len
            /\ Go(t, [l EXCEPT !.step = "input", !.bytes = bytes])
            /\ UNCHANGED History
  <2>1. PICK k : k = [l EXCEPT !.step = "input", !.bytes = bytes]
    OBVIOUS
  <2>2. /\ k \in Locals /\ k.fd = l.fd /\ k.step = "input" /\ k.fn = l.fn /\ k.len = l.len
        /\ k.bytes = bytes /\ k.n = l.n
    BY <1>4, <1>6, <1>7, <2>1 DEF Locals
  <2>3. Taken(k) = Taken(l) /\ Left(k) = Left(l)
    BY <2>2 DEF Taken, Left
  <2>4. ReadsOn(k)
    BY <1>5, <1>7, <1>11, <2>2, <2>3 DEF ReadsOn
  <2>5. SeenOK' /\ ReadsOn(k)' /\ Left(k)' = Left(k) /\ seen' = seen
    BY <1>4, <1>8, <1>11, <2>4, StillSeen DEF History
  <2>6. UnderWay(k)'
    BY <1>3, <1>4, <1>5, <1>7, <2>2, <2>3, <2>5 DEF UnderWay, AtInput
  <2>7. ServeInv'
    BY <1>1, <1>4, <1>9, <1>11, <2>1, <2>2, <2>5, <2>6, GoesOn
  <2> QED BY <1>8, <1>11, <2>7, NothingSeen
<1> QED BY <1>3, <1>10, <1>11

LEMMA GrowStep ==
  ASSUME ServeInv, NEW t \in Threads, local[t].fd # NoFd, Grow(t)
  PROVE  ServeInv' /\ (OneReader!Next \/ UNCHANGED OneReader!vars)
<1>1. PICK l : l = local[t]
  OBVIOUS
<1>2. PICK size : size = pb.size + l.len - l.buflen
  OBVIOUS
<1>3. /\ l.step = "grow" /\ pos' = pos
      /\ \/ /\ pb' = peekbuffer_grow(pb, size)
            /\ Go(t, [l EXCEPT !.step = "input"]) /\ UNCHANGED History
         \/ /\ MallocFails /\ size > pb.capacity
            /\ pb' = pb /\ Returned(t, <<>>, FALSE)
  BY <1>1, <1>2 DEF Grow
<1>4. /\ l \in Locals /\ l.n <= l.len /\ l.len \in 1 .. MaxLen /\ AtGrow(l)
      /\ StdinOK /\ Sound(pb) /\ SeenOK
  BY <1>1, <1>3, HasConnection DEF ServeInv, UnderWay
<1>5. /\ pb = seen.pb /\ pos = seen.pos /\ PeeksOn(l) /\ l.buflen = seen.pb.size
      /\ l.fn = "peek" /\ l.len > seen.pb.size
  BY <1>4 DEF AtGrow, PeeksOn, Same
<1>6. /\ seen.pb.size \in Nat /\ l.len \in Nat /\ seen.pb.size <= l.len /\ l.len <= SizeLimit
      /\ size = l.len
  BY <1>2, <1>4, <1>5, ServeAssumption, PeekbufferAssumption, SoundIs DEF SeenOK
<1>7. stdin' = stdin
  BY <1>3 DEF Returned, Go
<1>8. CASE /\ pb' = peekbuffer_grow(pb, size)
           /\ Go(t, [l EXCEPT !.step = "input"]) /\ UNCHANGED History
  <2>1. PICK k : k = [l EXCEPT !.step = "input"]
    OBVIOUS
  <2>2. /\ k \in Locals /\ k.fd = l.fd /\ k.step = "input" /\ k.fn = l.fn /\ k.len = l.len
        /\ k.buflen = l.buflen /\ k.n = l.n
    BY <1>4, <2>1 DEF Locals
  <2>3. pb' = Grown(k) /\ Sound(Grown(k))
    BY <1>4, <1>5, <1>6, <1>8, <2>2, GrowMakesRoom DEF Grown
  <2>4. PeeksOn(k)
    BY <1>5, <2>2 DEF PeeksOn
  <2>5. SeenOK' /\ PeeksOn(k)' /\ Grown(k)' = Grown(k) /\ seen' = seen
    BY <1>4, <1>7, <1>8, <2>4, StillSeen DEF History
  <2>6. StdinOK' /\ Sound(pb)'
    BY <1>3, <1>4, <1>7, <2>3, StillSound DEF StdinOK
  <2>7. UnderWay(k)'
    BY <1>3, <1>4, <1>5, <2>2, <2>3, <2>5 DEF UnderWay, AtInput
  <2>8. ServeInv'
    BY <1>1, <1>4, <1>8, <2>1, <2>2, <2>5, <2>6, <2>7, GoesOn
  <2> QED BY <1>7, <1>8, <2>8, NothingSeen
<1>9. CASE MallocFails /\ size > pb.capacity /\ pb' = pb /\ Returned(t, <<>>, FALSE)
  <2>1. StdinOK' /\ Sound(pb)'
    BY <1>3, <1>4, <1>7, <1>9, StillSound DEF StdinOK
  <2>2. ServeInv'
    BY <1>9, <2>1, Returns
  <2>3. Outcome(seen.pb, seen.pos, <<>>, FALSE) \in OneReader!Peek(l.len)
    BY <1>4, <1>5, <1>6, <1>9, PeekHas
  <2>4. PICK r \in OneReader!Peek(l.len) : r = Outcome(seen.pb, seen.pos, <<>>, FALSE)
    BY <2>3
  <2>5. r.pb = pb' /\ r.pos = pos' /\ r.ok = FALSE
    BY <1>3, <1>5, <1>9, <2>4 DEF Outcome
  <2>6. OneReader!Next
    BY <1>1, <1>4, <1>5, <1>9, <2>5, PeekReturns
  <2> QED BY <2>2, <2>6
<1> QED BY <1>3, <1>8, <1>9
-----------------------------------------------------------------------------
LEMMA InputStep ==
  ASSUME ServeInv, NEW t \in Threads, local[t].fd # NoFd, Input(t)
  PROVE  ServeInv' /\ (OneReader!Next \/ UNCHANGED OneReader!vars)
<1>1. PICK l : l = local[t]
  OBVIOUS
<1>2. PICK have : have = IF l.fn = "peek" THEN l.buflen ELSE Len(l.bytes)
  OBVIOUS
<1>3. l.step = "input"
  BY <1>1 DEF Input
<1>4. PICK n \in hook_input(l.len - have) :
        \/ /\ n >= 0
           /\ pos' = pos + n
           /\ pb' = IF l.fn = "peek"
                    THEN [pb EXCEPT !.buffer = Write(@, pb.start + pb.size, From(pos, n))]
                    ELSE pb
           /\ Go(t, [l EXCEPT !.step = "post", !.from = pos, !.n = n]) /\ UNCHANGED History
        \/ n = -1 /\ UNCHANGED <<pos, pb>>
           /\ Returned(t, IF l.fn = "peek" THEN <<>> ELSE l.bytes, FALSE)
  BY <1>1, <1>2 DEF Input
<1>5. /\ l \in Locals /\ l.n <= l.len /\ l.len \in 1 .. MaxLen /\ AtInput(l)
      /\ StdinOK /\ Sound(pb) /\ SeenOK
  BY <1>1, <1>3, HasConnection DEF ServeInv, UnderWay
<1>6. /\ pos = seen.pos
      /\ \/ ReadsOn(l) /\ pb = Left(l)
         \/ PeeksOn(l) /\ pb = Grown(l)
  BY <1>5 DEF AtInput
<1>7. /\ l.len \in Nat /\ l.len <= SizeLimit /\ l.buflen \in Nat /\ l.bytes \in Seq(Offsets)
      /\ seen.pos \in Nat /\ have \in Nat /\ have < l.len
  <2>1. l.len \in Nat /\ l.len <= SizeLimit /\ l.buflen \in Nat /\ l.bytes \in Seq(Offsets)
    BY <1>5, ServeAssumption, PeekbufferAssumption DEF Locals
  <2>2. Len(l.bytes) \in Nat /\ seen.pos \in Nat
    BY <1>5, <2>1, StdinType DEF SeenOK
  <2>3. CASE ReadsOn(l)
    BY <1>2, <2>1, <2>2, <2>3 DEF ReadsOn
  <2>4. CASE PeeksOn(l)
    BY <1>2, <2>1, <2>2, <2>4 DEF PeeksOn
  <2> QED BY <1>6, <2>1, <2>2, <2>3, <2>4
<1>8. stdin' = stdin
  BY <1>4 DEF Returned, Go
<1>9. n \in OneReader!hook_input(l.len - have)
  BY <1>6, SameStdin
<1>10. CASE /\ n >= 0
            /\ pos' = pos + n
            /\ pb' = IF l.fn = "peek"
                     THEN [pb EXCEPT !.buffer = Write(@, pb.start + pb.size, From(pos, n))]
                     ELSE pb
            /\ Go(t, [l EXCEPT !.step = "post", !.from = pos, !.n = n]) /\ UNCHANGED History
  <2>1. n \in Nat /\ n <= l.len - have /\ n <= l.len /\ seen.pos + n <= Len(stdin) /\ n # -1
    <3>1. n # -1
      BY <1>10
    <3>2. l.len - have \in Nat
      BY <1>7
    <3>3. n \in 0 .. l.len - have /\ seen.pos + n <= Len(stdin)
      BY <1>5, <1>9, <3>1, <3>2, SeenHookBounds
    <3> QED BY <1>7, <3>1, <3>3
  <2>2. PICK k : k = [l EXCEPT !.step = "post", !.from = seen.pos, !.n = n]
    OBVIOUS
  <2>3. /\ k \in Locals /\ k.fd = l.fd /\ k.step = "post" /\ k.fn = l.fn /\ k.len = l.len
        /\ k.buflen = l.buflen /\ k.bytes = l.bytes /\ k.n = n /\ k.from = seen.pos
    BY <1>5, <1>7, <2>1, <2>2 DEF Locals
  <2>4. seen' = seen /\ pos' = seen.pos + n
    BY <1>6, <1>10 DEF History
  <2>5. SeenOK' /\ OneReader!hook_input(l.len - have)' = OneReader!hook_input(l.len - have)
    BY <1>5, <1>8, <2>4, StillSeen, StillReads
  <2>6. StdinOK'
    BY <1>5, <1>7, <1>8, <2>1, <2>4 DEF StdinOK, SeenOK
  <2>7. Sound(pb)' /\ UnderWay(k)'
    <3>1. CASE ReadsOn(l) /\ pb = Left(l)
      <4>1. l.fn # "peek" /\ have = Len(l.bytes)
        BY <1>2, <3>1 DEF ReadsOn
      <4>2. pb' = Left(k) /\ ReadsOn(k)
        BY <1>10, <2>3, <3>1, <4>1 DEF ReadsOn, Left, Taken
      <4>3. ReadsOn(k)' /\ Left(k)' = Left(k)
        BY <1>8, <2>4, <4>2, StillSeen
      <4>4. n \in OneReader!hook_input(k.len - Len(k.bytes))'
        BY <1>9, <2>3, <2>5, <4>1
      <4>5. AtPost(k)'
        BY <1>8, <2>1, <2>3, <2>4, <4>2, <4>3, <4>4 DEF AtPost
      <4>6. Sound(pb)'
        BY <1>5, <1>8, <1>10, <4>1, StillSound
      <4> QED BY <1>5, <2>3, <4>5, <4>6 DEF UnderWay
    <3>2. CASE PeeksOn(l) /\ pb = Grown(l)
      <4>1. l.fn = "peek" /\ have = l.buflen /\ have = seen.pb.size
        BY <1>2, <3>2 DEF PeeksOn
      <4>2. /\ Sound(Grown(l)) /\ Grown(l).size = seen.pb.size
            /\ Grown(l).start + l.len <= Grown(l).capacity
        BY <1>5, <1>7, <4>1, GrowMakesRoom DEF Grown, SeenOK
      <4>3. PICK g : g = Grown(l)
        OBVIOUS
      <4>4. pb' = [g EXCEPT !.buffer = Write(g.buffer, g.start + g.size, From(seen.pos, n))]
        BY <1>6, <1>10, <3>2, <4>1, <4>3
      <4>5. /\ g.start \in Nat /\ g.size \in Nat /\ g.capacity \in Nat /\ g.locked \in BOOLEAN
            /\ g \in Records(Memory(g.capacity)) /\ g.start + g.size + n <= g.capacity
        <5>1. /\ g.start \in Nat /\ g.size \in Nat /\ g.capacity \in Nat /\ g.locked \in BOOLEAN
              /\ g \in Records(Memory(g.capacity))
          BY <4>2, <4>3, SoundIs
        <5>2. g.size = have /\ g.start + l.len <= g.capacity
          BY <4>1, <4>2, <4>3
        <5>3. g.start + g.size + n <= g.capacity
          BY <1>7, <2>1, <5>1, <5>2
        <5> QED BY <5>1, <5>3
      <4>6. Sound([g EXCEPT !.buffer = Write(g.buffer, g.start + g.size, From(seen.pos, n)),
                            !.size = g.size + 0, !.locked = g.locked])
        <5>1. 0 \in 0 .. n
          BY <2>1
        <5> QED BY <1>5, <1>7, <2>1, <4>2, <4>3, <4>5, <5>1, WrittenSound DEF SeenOK
      <4>7. PICK w : w = Write(g.buffer, g.start + g.size, From(seen.pos, n))
        OBVIOUS
      <4>8. [g EXCEPT !.buffer = w, !.size = g.size + 0, !.locked = g.locked]
              = [g EXCEPT !.buffer = w]
        <5>1. g.size + 0 = g.size
          BY <4>5
        <5>2. PICK z \in Nat, lo \in BOOLEAN : z = g.size /\ lo = g.locked
          BY <4>5
        <5>3. [g EXCEPT !.buffer = w, !.size = z, !.locked = lo] = [g EXCEPT !.buffer = w]
          <6>1. [g EXCEPT !.buffer = w, !.size = z, !.locked = lo] \in Records({w})
            BY <4>5 DEF Records
          <6>2. [g EXCEPT !.buffer = w] \in Records({w})
            BY <4>5 DEF Records
          <6> QED BY <4>5, <5>2, <6>1, <6>2 DEF Records
        <5> QED BY <5>1, <5>2, <5>3
      <4>9. Sound(pb)'
        <5>1. pb' = [g EXCEPT !.buffer = w]
          BY <4>4, <4>7
        <5>2. Sound([g EXCEPT !.buffer = w])
          BY <4>6, <4>7, <4>8
        <5> QED BY <1>8, <5>1, <5>2, StillSound
      <4>10. PeeksOn(k) /\ Grown(k) = g
        BY <2>3, <3>2, <4>3 DEF PeeksOn, Grown
      <4>11. PeeksOn(k)' /\ Grown(k)' = g
        BY <1>8, <2>4, <4>10, StillSeen
      <4>12. n \in OneReader!hook_input(k.len - k.buflen)' /\ n <= k.len - k.buflen
        BY <1>9, <2>1, <2>3, <2>5, <4>1
      <4>13. AtPost(k)'
        BY <1>8, <2>1, <2>3, <2>4, <4>4, <4>11, <4>12 DEF AtPost
      <4> QED BY <1>5, <2>3, <4>9, <4>13 DEF UnderWay
    <3> QED BY <1>6, <3>1, <3>2
  <2>8. ServeInv'
    BY <1>1, <1>6, <1>10, <2>1, <2>2, <2>3, <2>5, <2>6, <2>7, GoesOn
  <2> QED BY <1>8, <1>10, <2>8, NothingSeen
<1>11. CASE n = -1 /\ UNCHANGED <<pos, pb>>
            /\ Returned(t, IF l.fn = "peek" THEN <<>> ELSE l.bytes, FALSE)
  <2>1. StdinOK' /\ Sound(pb)'
    BY <1>5, <1>8, <1>11, StillSound DEF StdinOK
  <2>2. ServeInv'
    BY <1>11, <2>1, Returns
  <2>3. CASE ReadsOn(l) /\ pb = Left(l)
    <3>1. l.fn \in {"read", "recv"} /\ l.fn # "peek" /\ have = Len(l.bytes) /\ l.bytes = Taken(l)
      BY <1>2, <2>3 DEF ReadsOn
    <3> DEFINE stops == l.fn = "recv" /\ OneReader!WasLocked
               r     == Outcome(Left(l), seen.pos, Taken(l), FALSE)
    <3>2. ~stops /\ Len(Taken(l)) < l.len
      BY <2>3 DEF ReadsOn
    <3>3. r \in OneReader!Fill(l.len, stops)
      <4> HIDE DEF stops
      <4> QED BY <1>5, <1>9, <1>11, <3>1, <3>2, FillHas
    <3>4. l.fn = "recv" => r \in OneReader!Fill(l.len, OneReader!WasLocked)
      <4>1. l.fn = "recv" => stops = OneReader!WasLocked
        BY SameNoCall
      <4> HIDE DEF stops
      <4> QED BY <3>3, <4>1
    <3>5. l.fn = "read" => r \in OneReader!Fill(l.len, FALSE)
      BY <3>3
    <3>6. r = Outcome(pb', pos', l.bytes, FALSE) /\ Returned(t, l.bytes, FALSE)
      BY <1>6, <1>11, <2>3, <3>1
    <3> HIDE DEF r, stops
    <3>7. OneReader!Next
      BY <1>1, <1>5, <3>1, <3>4, <3>5, <3>6, ReadReturns
    <3> QED BY <2>2, <3>7
  <2>4. CASE PeeksOn(l) /\ pb = Grown(l)
    <3>1. l.fn = "peek" /\ have = l.buflen /\ l.buflen = seen.pb.size
      BY <1>2, <2>4 DEF PeeksOn
    <3>2. Outcome(Grown(l), seen.pos, <<>>, FALSE) \in OneReader!Peek(l.len)
      BY <1>5, <1>9, <1>11, <2>4, <3>1, PeekHas
    <3>3. PICK r \in OneReader!Peek(l.len) : r = Outcome(Grown(l), seen.pos, <<>>, FALSE)
      BY <3>2
    <3>4. r.pb = pb' /\ r.pos = pos' /\ r.ok = FALSE /\ Returned(t, <<>>, FALSE)
      BY <1>6, <1>11, <2>4, <3>1, <3>3 DEF Outcome
    <3>5. OneReader!Next
      BY <1>1, <1>5, <3>1, <3>4, PeekReturns
    <3> QED BY <2>2, <3>5
  <2> QED BY <1>6, <2>3, <2>4
<1> QED BY <1>4, <1>10, <1>11
-----------------------------------------------------------------------------
LEMMA PostprocessStep ==
  ASSUME ServeInv, NEW t \in Threads, local[t].fd # NoFd, Postprocess(t)
  PROVE  ServeInv' /\ (OneReader!Next \/ UNCHANGED OneReader!vars)
<1>1. PICK l : l = local[t]
  OBVIOUS
<1>2. PICK n, p : n = l.n /\ p = l.from
  OBVIOUS
<1>3. PICK post : post = postprocess_input(p, n)
  OBVIOUS
<1>4. /\ l.step = "post"
      /\ pos' = pos + post.pos - (p + n)
      /\ \/ /\ l.fn = "peek"
            /\ pb' = [pb EXCEPT !.locked = @ \/ post.kept < n, !.size = @ + post.kept]
            /\ Go(t, [l EXCEPT !.step = "copy"]) /\ UNCHANGED History
         \/ /\ l.fn # "peek" /\ pb' = pb
            /\ Returned(t, l.bytes \o From(p, post.kept), TRUE)
  BY <1>1, <1>2, <1>3 DEF Postprocess
<1>5. /\ l \in Locals /\ l.n <= l.len /\ l.len \in 1 .. MaxLen /\ AtPost(l)
      /\ StdinOK /\ Sound(pb) /\ SeenOK
  BY <1>1, <1>4, HasConnection DEF ServeInv, UnderWay
<1>6. p = seen.pos /\ p + n <= Len(stdin) /\ pos = p + n
  BY <1>2, <1>5 DEF AtPost
<1>7. /\ l.len \in Nat /\ l.len <= SizeLimit /\ n \in Nat /\ p \in Nat /\ Len(stdin) \in Nat
      /\ stdin \in Inputs
  BY <1>2, <1>5, <1>6, StdinType, ServeAssumption, PeekbufferAssumption DEF SeenOK, Locals
<1>8. post.kept \in 0 .. n /\ post.pos \in 0 .. Len(stdin)
  BY <1>3, <1>6, <1>7, PostprocessBounds
<1>9. stdin' = stdin /\ pos' = post.pos
  <2>1. PICK q \in Nat : q = post.pos
    BY <1>7, <1>8
  <2>2. pos' = (p + n) + q - (p + n)
    BY <1>4, <1>6, <2>1
  <2>3. pos' = q
    BY <1>7, <2>2
  <2> QED BY <1>4, <2>1, <2>3 DEF Returned, Go
<1>10. StdinOK'
  BY <1>7, <1>8, <1>9 DEF StdinOK
<1>11. CASE /\ l.fn = "peek"
            /\ pb' = [pb EXCEPT !.locked = @ \/ post.kept < n, !.size = @ + post.kept]
            /\ Go(t, [l EXCEPT !.step = "copy"]) /\ UNCHANGED History
  <2>1. PICK g : g = Grown(l)
    OBVIOUS
  <2>2. /\ PeeksOn(l) /\ n \in OneReader!hook_input(l.len - l.buflen) /\ n <= l.len - l.buflen
        /\ pb = [g EXCEPT !.buffer = Write(g.buffer, g.start + g.size, From(p, n))]
    BY <1>2, <1>5, <1>11, <2>1 DEF AtPost, ReadsOn
  <2>3. l.buflen = seen.pb.size /\ l.len > seen.pb.size
    BY <2>2 DEF PeeksOn
  <2>4. /\ seen.pb.size \in Nat /\ Sound(g) /\ g.size = seen.pb.size
        /\ g.start + l.len <= g.capacity
    <3>1. seen.pb.size \in Nat /\ seen.pb.size <= l.len
      BY <1>5, <1>7, <2>3, SoundIs DEF SeenOK
    <3> QED BY <1>5, <1>7, <2>1, <3>1, GrowMakesRoom DEF Grown, SeenOK
  <2>5. /\ g.start \in Nat /\ g.size \in Nat /\ g.capacity \in Nat /\ g.locked \in BOOLEAN
        /\ g \in Records(Memory(g.capacity))
    BY <2>4, SoundIs
  <2>6. g.start + g.size + n <= g.capacity
    BY <1>7, <2>2, <2>3, <2>4, <2>5
  <2>7. PICK w : w = Write(g.buffer, g.start + g.size, From(p, n))
    OBVIOUS
  <2>8. PICK z \in Nat, lo \in BOOLEAN :
          z = g.size + post.kept /\ lo = (g.locked \/ post.kept < n)
    <3>1. post.kept \in Nat
      BY <1>7, <1>8
    <3>2. g.size + post.kept \in Nat
      BY <2>5, <3>1
    <3> QED BY <3>2
  <2>9. pb' = [g EXCEPT !.buffer = w, !.size = z, !.locked = lo]
    <3>1. pb = [g EXCEPT !.buffer = w]
      BY <2>2, <2>7
    <3>2. pb \in Records({w}) /\ pb.size = g.size /\ pb.locked = g.locked
      BY <2>5, <3>1 DEF Records
    <3>3. pb' = [pb EXCEPT !.locked = lo, !.size = z]
      BY <1>11, <2>8, <3>2
    <3>4. [pb EXCEPT !.locked = lo, !.size = z] \in Records({w})
      BY <3>2 DEF Records
    <3>5. [g EXCEPT !.buffer = w, !.size = z, !.locked = lo] \in Records({w})
      BY <2>5 DEF Records
    <3>6. [pb EXCEPT !.locked = lo, !.size = z]
            = [g EXCEPT !.buffer = w, !.size = z, !.locked = lo]
      BY <2>5, <3>1, <3>2, <3>4, <3>5 DEF Records
    <3> QED BY <3>3, <3>6
  <2>10. Sound(pb)'
    <3>1. Sound([g EXCEPT !.buffer = w, !.size = z, !.locked = lo])
      BY <1>6, <1>7, <1>8, <2>4, <2>6, <2>7, <2>8, WrittenSound
    <3> QED BY <1>9, <2>9, <3>1, StillSound
  <2>11. pb' = OneReader!Appended(g, n)
    <3>1. OneReader!postprocess_input(seen.pos, n).kept = post.kept
      BY <1>3, <1>6, SameStdin
    <3>2. OneReader!Appended(g, n)
            = [g EXCEPT !.buffer = w, !.size = g.size + post.kept,
                        !.locked = g.locked \/ post.kept < n]
      BY <1>6, <2>7, <3>1, SameStdin DEF OneReader!Appended
    <3> QED BY <2>8, <2>9, <3>2
  <2>12. PICK k : k = [l EXCEPT !.step = "copy"]
    OBVIOUS
  <2>13. /\ k \in Locals /\ k.fd = l.fd /\ k.step = "copy" /\ k.fn = l.fn /\ k.len = l.len
         /\ k.n = l.n
    BY <1>5, <2>12 DEF Locals
  <2>14. AtCopy(k)'
    <3>1. n # -1
      BY <1>7
    <3>2. Outcome(OneReader!Appended(g, n), postprocess_input(seen.pos, n).pos, <<>>, TRUE)
            \in OneReader!Peek(l.len)
      BY <1>5, <2>1, <2>2, <2>3, <3>1, PeekHas
    <3>3. PICK r \in OneReader!Peek(l.len) :
            r = Outcome(OneReader!Appended(g, n), postprocess_input(seen.pos, n).pos, <<>>, TRUE)
      BY <3>2
    <3>4. r.ok /\ pb' = r.pb /\ pos' = r.pos
      BY <1>3, <1>6, <1>9, <2>11, <3>3 DEF Outcome
    <3>5. r \in OneReader!Peek(k.len)'
      BY <1>9, <1>11, <2>13, StillReads DEF History
    <3> QED BY <1>11, <2>13, <3>4, <3>5 DEF AtCopy
  <2>15. UnderWay(k)'
    BY <1>5, <2>13, <2>14 DEF UnderWay
  <2>16. SeenOK'
    BY <1>5, <1>9, <1>11, StillSeen DEF History
  <2>17. ServeInv'
    BY <1>1, <1>5, <1>10, <1>11, <2>10, <2>12, <2>13, <2>15, <2>16, GoesOn
  <2> QED BY <1>9, <1>11, <2>17, NothingSeen
<1>12. CASE /\ l.fn # "peek" /\ pb' = pb
            /\ Returned(t, l.bytes \o From(p, post.kept), TRUE)
  <2>1. Sound(pb)'
    BY <1>5, <1>9, <1>12, StillSound
  <2>2. ServeInv'
    BY <1>10, <1>12, <2>1, Returns
  <2>3. /\ ReadsOn(l) /\ pb = Left(l) /\ n \in OneReader!hook_input(l.len - Len(l.bytes))
    BY <1>2, <1>5, <1>12 DEF AtPost, PeeksOn
  <2>4. l.fn \in {"read", "recv"} /\ l.bytes = Taken(l) /\ Len(Taken(l)) < l.len
    BY <2>3 DEF ReadsOn
  <2> DEFINE stops == l.fn = "recv" /\ OneReader!WasLocked
             bytes == Taken(l) \o From(seen.pos, postprocess_input(seen.pos, n).kept)
             r     == Outcome(Left(l), postprocess_input(seen.pos, n).pos, bytes, TRUE)
  <2>5. ~stops /\ n # -1
    BY <1>7, <2>3 DEF ReadsOn
  <2>6. r \in OneReader!Fill(l.len, stops)
    <3> HIDE DEF stops
    <3> QED BY <1>5, <2>3, <2>4, <2>5, FillHas
  <2>7. l.fn = "recv" => r \in OneReader!Fill(l.len, OneReader!WasLocked)
    <3>1. l.fn = "recv" => stops = OneReader!WasLocked
      BY SameNoCall
    <3> HIDE DEF stops
    <3> QED BY <2>6, <3>1
  <2>8. l.fn = "read" => r \in OneReader!Fill(l.len, FALSE)
    BY <2>6
  <2>9. r = Outcome(pb', pos', bytes, TRUE) /\ Returned(t, bytes, TRUE)
    BY <1>3, <1>6, <1>9, <1>12, <2>3, <2>4
  <2> HIDE DEF r, stops, bytes
  <2>10. OneReader!Next
    BY <1>1, <1>5, <2>4, <2>7, <2>8, <2>9, ReadReturns
  <2> QED BY <2>2, <2>10
<1> QED BY <1>4, <1>11, <1>12

LEMMA CopyStep ==
  ASSUME ServeInv, NEW t \in Threads, local[t].fd # NoFd, Copy(t)
  PROVE  ServeInv' /\ (OneReader!Next \/ UNCHANGED OneReader!vars)
<1>1. PICK l : l = local[t]
  OBVIOUS
<1>2. PICK bytes : bytes = peekbuffer_cp(pb, l.len, 0)
  OBVIOUS
<1>3. l.step = "copy" /\ UNCHANGED <<pos, pb>> /\ Returned(t, bytes, TRUE)
  BY <1>1, <1>2 DEF Copy
<1>4. /\ l \in Locals /\ l.len \in 1 .. MaxLen /\ AtCopy(l)
      /\ StdinOK /\ Sound(pb)
  BY <1>1, <1>3, HasConnection DEF ServeInv, UnderWay
<1>5. stdin' = stdin
  BY <1>3 DEF Returned, Go
<1>6. ServeInv'
  BY <1>3, <1>4, <1>5, Returns, StillSound DEF StdinOK
<1>7. PICK r \in OneReader!Peek(l.len) : r.ok /\ pb = r.pb /\ pos = r.pos
  BY <1>4 DEF AtCopy
<1>8. OneReader!Next
  <2>1. PICK s \in OneReader!Peek(l.len) : s = r
    OBVIOUS
  <2>2. s.pb = pb' /\ s.pos = pos' /\ s.ok = TRUE
    BY <1>3, <1>7, <2>1
  <2>3. l.fn = "peek" /\ bytes = IF s.ok THEN peekbuffer_cp(s.pb, l.len, 0) ELSE <<>>
    BY <1>2, <1>3, <1>4, <2>2 DEF AtCopy
  <2> QED BY <1>1, <1>3, <1>4, <2>2, <2>3, PeekReturns
<1> QED BY <1>6, <1>8
-----------------------------------------------------------------------------
(* Accepting and closing, which no other thread's call is under way for *)

LEMMA OneAtMost ==
  ASSUME ServeInv, NEW t \in Threads, local[t].fd # NoFd
  PROVE  conns = {local[t].fd}
<1>1. \A u \in Threads : local[u].fd # NoFd => u = t
  BY DEF ServeInv, ThreadsOK
<1> QED BY <1>1 DEF ServeInv, ThreadsOK

\* a thread takes the connection when no thread has it, or gives it up
LEMMA Changes ==
  ASSUME ServeInv, NEW t \in Threads, NEW f \in Fds \cup {NoFd},
         \A u \in Threads \ {t} : local[u].fd = NoFd, local[t].step = "idle",
         local' = [local EXCEPT ![t] = Idle(f)], conns' = {f} \ {NoFd}, waiting' \subseteq Threads,
         UNCHANGED reading
  PROVE  ServeInv' /\ UNCHANGED OneReader!vars
<1>1. /\ stdin' = stdin /\ pos' = pos /\ pb' = pb /\ UNCHANGED History
      /\ seen' = seen
  BY DEF reading, History
<1>2. \A u \in Threads \ {t} : local[u] = Idle(NoFd)
  BY DEF ServeInv, ThreadsOK
<1>3. \A u \in Threads : local'[u] = IF u = t THEN Idle(f) ELSE Idle(NoFd)
  BY <1>2 DEF ServeInv, ThreadsOK
<1>4. Same
  <2>1. \A u \in Threads : local[u].step = "idle"
    BY <1>2 DEF Idle
  <2> QED BY <2>1 DEF ServeInv
<1>5. \A u \in Threads : /\ local'[u].fd = IF u = t THEN f ELSE NoFd
                         /\ local'[u].step = "idle" /\ local'[u].n = 0 /\ local'[u].len = 0
  BY <1>3 DEF Idle
<1>6. Idle(f) \in Locals' /\ Idle(NoFd) \in Locals'
  BY ServeAssumption DEF Idle, Locals
<1>7. ThreadsOK'
  <2>1. (local \in [Threads -> Locals])'
    <3>1. local' = [u \in Threads |-> IF u = t THEN Idle(f) ELSE Idle(NoFd)]
      <4>1. local' = [u \in Threads |-> local'[u]]
        BY DEF ServeInv, ThreadsOK
      <4> QED BY <1>3, <4>1
    <3> QED BY <1>6, <3>1
  <2>2. (conns = {local[u].fd : u \in Threads} \ {NoFd})'
    BY <1>5
  <2>3. (\A u \in Threads : local[u].fd = NoFd => local[u] = Idle(NoFd))'
    BY <1>3, <1>5
  <2>4. (\A u \in Threads : local[u].step = "idle" => local[u] = Idle(local[u].fd))'
    BY <1>3, <1>5 DEF Idle
  <2>5. (\A u, v \in Threads : local[u].fd # NoFd /\ local[v].fd # NoFd => u = v)'
    BY <1>5
  <2> QED BY <2>1, <2>2, <2>3, <2>4, <2>5 DEF ThreadsOK
<1>8. StdinOK' /\ Sound(pb)' /\ SeenOK' /\ Same'
  BY <1>1, <1>4, StillSound, StillSeen DEF ServeInv, StdinOK, Same
<1>9. (\A u \in Threads : local[u].n <= local[u].len)'
  BY <1>5
<1>10. (\A u \in Threads, k \in Locals : k = local[u] /\ k.step # "idle" => UnderWay(k))'
  <2>1. ASSUME NEW u \in Threads, NEW k \in Locals', (k = local[u] /\ k.step # "idle")'
        PROVE  UnderWay(k)'
    BY <1>5, <2>1
  <2> QED BY <2>1
<1>11. ServeInv'
  BY <1>7, <1>8, <1>9, <1>10 DEF ServeInv
<1> QED BY <1>1, <1>11, NothingSeen

\* Nobody reads, so that a call under way stays where it is.
LEMMA StillUnderWay ==
  ASSUME UNCHANGED <<stdin, pos, pb, seen>>, NEW l, UnderWay(l)
  PROVE  UnderWay(l)'
<1>1. stdin' = stdin /\ pos' = pos /\ pb' = pb /\ seen' = seen
  OBVIOUS
<1>2. \A k : /\ OneReader!hook_input(k)' = OneReader!hook_input(k)
            /\ OneReader!Peek(k)' = OneReader!Peek(k)
  BY <1>1, StillReads
<1>3. /\ Left(l)' = Left(l) /\ Grown(l)' = Grown(l)
      /\ ReadsOn(l) => ReadsOn(l)'
      /\ PeeksOn(l) => PeeksOn(l)'
  BY <1>1, StillSeen
<1>4. Same => Same'
  BY <1>1 DEF Same
<1>5. AtMove(l) => AtMove(l)'
  BY <1>1, <1>4 DEF AtMove, OneReader!WasLocked
<1>6. AtGrow(l) => AtGrow(l)'
  BY <1>3, <1>4 DEF AtGrow
<1>7. AtInput(l) => AtInput(l)'
  BY <1>1, <1>3 DEF AtInput
<1>8. AtPost(l) => AtPost(l)'
  BY <1>1, <1>2, <1>3 DEF AtPost
<1>9. AtCopy(l) => AtCopy(l)'
  BY <1>1, <1>2 DEF AtCopy
<1> QED BY <1>5, <1>6, <1>7, <1>8, <1>9 DEF UnderWay

\* Whoever waits, nothing changes for the threads that read.
LEMMA Unchanged ==
  ASSUME ServeInv, UNCHANGED <<conns, local, reading>>, waiting' \subseteq Threads
  PROVE  ServeInv' /\ UNCHANGED OneReader!vars
<1>1. /\ stdin' = stdin /\ pos' = pos /\ pb' = pb /\ seen' = seen /\ conns' = conns
      /\ local' = local /\ UNCHANGED History
  BY DEF reading, History
<1>2. Locals' = Locals
  BY <1>1 DEF Locals, Offsets
<1>3. ThreadsOK'
  BY <1>1, <1>2 DEF ServeInv, ThreadsOK
<1>4. StdinOK' /\ Sound(pb)' /\ SeenOK'
  BY <1>1, StillSound, StillSeen DEF ServeInv, StdinOK
<1>5. ((\A t \in Threads : local[t].step = "idle") => Same)'
  BY <1>1 DEF ServeInv, Same
<1>6. (\A t \in Threads : local[t].n <= local[t].len)'
  BY <1>1 DEF ServeInv
<1>7. (\A t \in Threads, l \in Locals : l = local[t] /\ l.step # "idle" => UnderWay(l))'
  <2>1. ASSUME NEW t \in Threads, NEW l \in Locals', (l = local[t] /\ l.step # "idle")'
        PROVE  UnderWay(l)'
    <3>1. l \in Locals /\ l = local[t] /\ l.step # "idle"
      BY <1>1, <1>2, <2>1
    <3>2. UnderWay(l)
      BY <3>1 DEF ServeInv
    <3> QED BY <1>1, <3>2, StillUnderWay
  <2> QED BY <2>1
<1>8. ServeInv'
  BY <1>3, <1>4, <1>5, <1>6, <1>7 DEF ServeInv
<1> QED BY <1>1, <1>8, NothingSeen

LEMMA AcceptStep ==
  ASSUME OneConnection, ServeInv, NEW t \in Threads, Accept(t)
  PROVE  ServeInv' /\ UNCHANGED OneReader!vars
<1>1. local[t] = Idle(NoFd) /\ UNCHANGED reading
  BY DEF Accept
<1>2. local[t].fd = NoFd /\ local[t].step = "idle"
  BY <1>1 DEF Idle
<1>3. CASE Conn!Request(t) /\ UNCHANGED local
  <2>1. waiting' \subseteq Threads /\ conns' = conns
    BY <1>3 DEF Conn!Request, ServeInv, ThreadsOK
  <2> QED BY <1>1, <1>3, <2>1, Unchanged
<1>4. ASSUME NEW f \in Fds, Conn!Grant(t, f), local' = [local EXCEPT ![t] = Idle(f)]
      PROVE  ServeInv' /\ UNCHANGED OneReader!vars
  <2>1. /\ Cardinality(conns) < 1 /\ conns' = conns \cup {f} /\ waiting' = waiting \ {t}
    <3>1. /\ Cardinality(conns) < MAX_CONNS /\ conns' = conns \cup {f}
          /\ waiting' = waiting \ {t}
      BY <1>4 DEF Conn!Grant, Conn!Cardinality, Cardinality
    <3> QED BY <3>1 DEF OneConnection
  <2>2. \A u \in Threads : local[u].fd = NoFd
    <3>1. ASSUME NEW u \in Threads, local[u].fd # NoFd
          PROVE  FALSE
      <4>1. conns = {local[u].fd}
        BY <3>1, OneAtMost
      <4>2. Cardinality(conns) = 1
        BY <4>1, FS_Singleton
      <4> QED BY <2>1, <4>2
    <3> QED BY <3>1
  <2>3. conns = {}
    BY <2>2 DEF ServeInv, ThreadsOK
  <2>4. f # NoFd
    BY ServeAssumption DEF NoFd
  <2>5. conns' = {f} \ {NoFd} /\ waiting' \subseteq Threads
    BY <2>1, <2>3, <2>4 DEF ServeInv, ThreadsOK
  <2> QED BY <1>1, <1>2, <1>4, <2>2, <2>5, Changes
<1> QED BY <1>3, <1>4 DEF Accept

LEMMA CloseStep ==
  ASSUME ServeInv, NEW t \in Threads, Close(t)
  PROVE  ServeInv' /\ UNCHANGED OneReader!vars
<1>1. /\ local[t].step = "idle" /\ local[t].fd # NoFd
      /\ Conn!Release(local[t].fd)
      /\ local' = [local EXCEPT ![t] = Idle(NoFd)]
      /\ UNCHANGED reading
  BY DEF Close
<1>2. conns = {local[t].fd} /\ \A u \in Threads \ {t} : local[u].fd = NoFd
  BY <1>1, OneAtMost DEF ServeInv, ThreadsOK
<1>3. conns' = {NoFd} \ {NoFd} /\ waiting' \subseteq Threads
  BY <1>1, <1>2 DEF Conn!Release, ServeInv, ThreadsOK
<1> QED BY <1>1, <1>2, <1>3, Changes
-----------------------------------------------------------------------------
(* Every step *)

LEMMA ServeStarts ==
  ASSUME Init
  PROVE  ServeInv /\ OneReader!Init
<1>1. /\ conns = {} /\ waiting = {} /\ NothingRead /\ stored = <<>>
      /\ local = [t \in Threads |-> Idle(NoFd)]
      /\ ret = [fn |-> "none", peek |-> FALSE, len |-> 0, bytes |-> <<>>, reported |-> 0]
      /\ seen.pos = pos /\ seen.pb = pb
  BY DEF Init, Conn!Init
<1>2. StdinOK /\ Sound(pb)
  BY <1>1, StartsSound
<1>3. Same /\ SeenOK
  BY <1>1, <1>2 DEF Same, SeenOK, StdinOK
<1>4. \A t \in Threads : /\ local[t] = Idle(NoFd) /\ local[t].fd = NoFd
                         /\ local[t].step = "idle" /\ local[t].n = 0 /\ local[t].len = 0
  BY <1>1 DEF Idle
<1>5. ThreadsOK
  <2>1. Idle(NoFd) \in Locals
    BY ServeAssumption DEF Idle, Locals
  <2>2. conns = {local[t].fd : t \in Threads} \ {NoFd}
    BY <1>1, <1>4
  <2> QED BY <1>1, <1>4, <2>1, <2>2 DEF ThreadsOK
<1>6. ServeInv
  BY <1>2, <1>3, <1>4, <1>5 DEF ServeInv
<1>7. OneReader!NothingRead
  BY <1>1 DEF OneReader!NothingRead, NothingRead, OneReader!Junk, Junk
<1>8. OneReader!Init
  BY <1>1, <1>7, SameNoCall DEF OneReader!Init
<1> QED BY <1>6, <1>8

LEMMA ServeSteps ==
  ASSUME OneConnection, ServeInv, [Next]_vars
  PROVE  ServeInv' /\ [OneReader!Next]_(OneReader!vars)
<1>1. ASSUME NEW t \in Threads, Accept(t) \/ Close(t)
      PROVE  ServeInv' /\ UNCHANGED OneReader!vars
  BY <1>1, AcceptStep, CloseStep
<1>2. ASSUME NEW t \in Threads, Call(t)
      PROVE  ServeInv' /\ (OneReader!Next \/ UNCHANGED OneReader!vars)
  <2>1. CASE Enter(t)
    BY <2>1, EnterStep
  <2>2. CASE Move(t) \/ Grow(t) \/ Input(t) \/ Postprocess(t) \/ Copy(t)
    <3>1. local[t].step # "idle"
      BY <2>2 DEF Move, Grow, Input, Postprocess, Copy
    <3>2. local[t].fd # NoFd
      BY <3>1 DEF ServeInv, ThreadsOK, Idle
    <3> QED BY <2>2, <3>2, MoveStep, GrowStep, InputStep, PostprocessStep, CopyStep
  <2> QED BY <1>2, <2>1, <2>2 DEF Call
<1>3. CASE UNCHANGED vars
  <2>1. UNCHANGED <<conns, local, reading>> /\ waiting' = waiting
    BY <1>3 DEF vars, reading
  <2> QED BY <2>1, Unchanged DEF ServeInv, ThreadsOK
<1> QED BY <1>1, <1>2, <1>3 DEF Next

LEMMA ServeHolds ==
  ASSUME OneConnection
  PROVE  Spec => []ServeInv
<1>1. Init => ServeInv
  BY ServeStarts
<1>2. ServeInv /\ [Next]_vars => ServeInv'
  BY ServeSteps
<1> QED BY <1>1, <1>2, PTL DEF Spec

\* Serve.tla, TypeOK: with one connection at a time, a thread that is inside read, recv
\* or a peek has the connection, and what it was given of it lies in the input, however
\* many threads accept, read and close in turn (desock_main.c, accept.c, read.c).
THEOREM ServeTypeCorrect ==
  ASSUME OneConnection
  PROVE  Spec => []TypeOK
<1>1. ServeInv => TypeOK
  <2> SUFFICES ASSUME ServeInv
               PROVE  TypeOK
    OBVIOUS
  <2>1. PeekbufferType(pb) /\ pos \in 0 .. Len(stdin)
    BY DEF ServeInv, Sound, StdinOK
  <2>2. conns = {local[t].fd : t \in Threads} \ {NoFd} /\ waiting \subseteq Threads
    BY DEF ServeInv, ThreadsOK
  <2>3. ASSUME NEW t \in Threads
        PROVE  /\ local[t].bytes \in Seq(Offsets) /\ local[t].n \in 0 .. local[t].len
               /\ local[t].fd = NoFd => local[t].step = "idle"
    <3>1. local[t] \in Locals /\ local[t].n <= local[t].len
      BY DEF ServeInv, ThreadsOK
    <3>2. PICK n \in Nat, len \in Nat : n = local[t].n /\ len = local[t].len
      BY <3>1, ServeAssumption, PeekbufferAssumption DEF Locals
    <3>3. local[t].n \in 0 .. local[t].len
      BY <3>1, <3>2
    <3>4. local[t].fd = NoFd => local[t].step = "idle"
      BY DEF ServeInv, ThreadsOK, Idle
    <3> QED BY <3>1, <3>3, <3>4 DEF Locals
  <2> QED BY <2>1, <2>2, <2>3 DEF TypeOK
<1> QED BY <1>1, ServeHolds, PTL

\* README of the repository, max_conns: with one connection at a time the calls of all
\* threads are, one after the other, calls of module Input: the semaphore alone keeps
\* peekbuffer_size, peekbuffer_mv, hook_input and postprocess_input of one call (read.c)
\* together, for every number of threads and every interleaving.
THEOREM ReadsAreOne ==
  ASSUME OneConnection
  PROVE  Spec => RefinesInput
<1>1. Init => OneReader!Init
  BY ServeStarts
<1>2. ServeInv /\ [Next]_vars => [OneReader!Next]_(OneReader!vars)
  BY ServeSteps
<1> QED BY <1>1, <1>2, ServeHolds, PTL DEF Spec, RefinesInput, OneReader!Spec
=============================================================================
