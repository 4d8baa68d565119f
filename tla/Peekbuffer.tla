----------------------------- MODULE Peekbuffer ----------------------------
(***************************************************************************)
(* What every read on a desocketed connection uses, from one thread or     *)
(* several: stdin and the input hook (hooks.c), the delimiter with which   *)
(* multi.c cuts one input file into several requests, and the buffer in    *)
(* which peekbuffer.c keeps what MSG_PEEK has looked at.                   *)
(*                                                                         *)
(* A byte of the input is identified by its offset in the file, so buffers *)
(* hold offsets.                                                           *)
(***************************************************************************)
EXTENDS Integers, Sequences, FiniteSets, FiniteSetsExt

CONSTANTS
  Bytes,              \* values of a byte
  Delimiter,          \* build option request_delimiter
  MULTI_REQUEST,      \* build option multiple_requests
  STATIC_BUFFER_SIZE, \* capacity of the buffer before it grows
  SizeLimit,          \* the largest power of two that a size_t holds
  Inputs,             \* the contents stdin may have
  RegularFile,        \* stdin is a regular file: its reads are neither short nor fail
  MallocFails         \* malloc may fail

\* multi.c gives up when it cannot lseek on stdin.
ASSUME PeekbufferAssumption ==
  /\ Delimiter \in Seq(Bytes) /\ Delimiter # <<>>
  /\ {MULTI_REQUEST, RegularFile, MallocFails} \subseteq BOOLEAN
  /\ MULTI_REQUEST => RegularFile
  /\ STATIC_BUFFER_SIZE \in Nat \ {0}
  /\ SizeLimit \in Nat /\ \E k \in 0 .. SizeLimit : SizeLimit = 2 ^ k
  /\ Inputs \subseteq Seq(Bytes)

VARIABLES
  stdin,    \* external: the input
  pos,      \* external: the file position of stdin
  pb        \* the peekbuffer

DELIMITER_LEN == Len(Delimiter)
Smaller(a, b) == IF a < b THEN a ELSE b

\* what malloc'd or static memory holds that was never written
Junk == -1

Offsets == 0 .. Len(stdin) - 1

\* a peekbuffer_t; its valid bytes are buffer[start .. start + size - 1]
PeekbufferType(b) ==
  b \in [buffer : [DOMAIN b.buffer -> Offsets \cup {Junk}],
         start : Nat, size : Nat, capacity : Nat, locked : BOOLEAN]

\* before the first read
NothingRead ==
  /\ stdin \in Inputs
  /\ pos = 0
  /\ pb = [buffer |-> [k \in 0 .. STATIC_BUFFER_SIZE - 1 |-> Junk], start |-> 0, size |-> 0,
           capacity |-> STATIC_BUFFER_SIZE, locked |-> FALSE]
-----------------------------------------------------------------------------
(* hooks.c and multi.c *)

\* the offsets p, ..., p + n - 1
From(p, n) == [k \in 1 .. n |-> p + k - 1]

\* the results hook_input may have on a buffer of len bytes; -1 is an error
hook_input(len) ==
  LET most == Smaller(len, Len(stdin) - pos)
  IN  IF RegularFile \/ most = 0 THEN {most} ELSE 1 .. most \cup {-1}

\* memcmp: the n bytes of stdin at offset p are the first n of the delimiter
Matches(p, n) == \A k \in 1 .. n : stdin[p + k] = Delimiter[k]

\* What was read ends in bytes of a delimiter, from p on: reads the rest of one, and
\* seeks back unless it is there.
is_partial_delimiter(p) ==
  /\ p + DELIMITER_LEN <= Len(stdin)
  /\ Matches(p, DELIMITER_LEN)

\* seeded fault, one of several here that no specification uses: a delimiter is not
\* searched for at the end of what was read
postprocess_input_no_tail(p, size) ==
  LET starts == {i \in 0 .. size - DELIMITER_LEN : Matches(p + i, DELIMITER_LEN)}
  IN  IF starts = {} THEN [kept |-> size, pos |-> p + size]
      ELSE [kept |-> Min(starts), pos |-> p + Min(starts) + DELIMITER_LEN]

\* The size bytes at p were just read: how many of them precede the first delimiter,
\* and the file position after it, or after them when there is none.
postprocess_input(p, size) ==
  LET whole  == {i \in 0 .. size - DELIMITER_LEN : Matches(p + i, DELIMITER_LEN)}
      tail   == {i \in 0 .. size - 1 : /\ i > size - DELIMITER_LEN
                                       /\ Matches(p + i, size - i)
                                       /\ is_partial_delimiter(p + i)}
      starts == IF ~MULTI_REQUEST THEN {} ELSE IF whole # {} THEN whole ELSE tail
  IN  IF starts = {} THEN [kept |-> size, pos |-> p + size]
      ELSE [kept |-> Min(starts), pos |-> p + Min(starts) + DELIMITER_LEN]
-----------------------------------------------------------------------------
(* peekbuffer.c *)

\* the least power of two that is not below size, 0 if a size_t does not hold it
next_pow_2(size) ==
  IF size > SizeLimit THEN 0
  ELSE Min({p \in size .. SizeLimit : \E k \in 0 .. p : p = 2 ^ k})

\* seeded fault: the bytes are not shifted down
MovedNot(b) == [b EXCEPT !.start = 0]

Moved(b) ==
  [b EXCEPT !.start = 0,
            !.buffer = [k \in DOMAIN @ |-> IF k < b.size THEN @[b.start + k] ELSE @[k]]]

Reallocated(b, new_size) ==
  LET capacity == next_pow_2(new_size)
  IN  [b EXCEPT !.start = 0, !.capacity = capacity,
                !.buffer = [k \in 0 .. capacity - 1 |->
                              IF k < b.size THEN @[b.start + k] ELSE Junk]]

\* seeded fault: the space before start is counted as free at the end
peekbuffer_grow_no_start(b, new_size) ==
  IF new_size <= b.capacity THEN b ELSE Reallocated(b, new_size)

\* room for new_size bytes from start on
peekbuffer_grow(b, new_size) ==
  IF b.start + new_size <= b.capacity THEN b
  ELSE IF new_size <= b.capacity THEN Moved(b)
  ELSE Reallocated(b, new_size)

\* memory written from index at on, past the end too if that is where it is written
Write(buffer, at, bytes) ==
  LET written == at .. at + Len(bytes) - 1
  IN  [k \in DOMAIN buffer \cup written |->
         IF k \in written THEN bytes[k - at + 1] ELSE buffer[k]]

\* n bytes of stdin were read to the end of buffer b: keep those of this request
Appended(b, n) ==
  LET kept == postprocess_input(pos, n).kept
  IN  [b EXCEPT !.buffer = Write(@, b.start + b.size, From(pos, n)),
                !.size = @ + kept,
                !.locked = @ \/ kept < n]

\* what a function may leave behind: the peekbuffer, the file position of stdin, the
\* bytes it wrote to the application's buffer, and whether it succeeded
Outcome(b, p, bytes, ok) == [pb |-> b, pos |-> p, bytes |-> bytes, ok |-> ok]

\* seeded fault: a buffer that holds a whole request is read into all the same
peekbuffer_read_unlocked(len) ==
  LET b == peekbuffer_grow(pb, pb.size + len)
  IN  {Outcome(Appended(b, n), postprocess_input(pos, n).pos, <<>>, TRUE) : n \in hook_input(len)}

peekbuffer_read(len) ==
  LET b == peekbuffer_grow(pb, pb.size + len)
  IN  IF pb.locked THEN {Outcome(pb, pos, <<>>, TRUE)}
      ELSE {IF n = -1 THEN Outcome(b, pos, <<>>, FALSE)
            ELSE Outcome(Appended(b, n), postprocess_input(pos, n).pos, <<>>, TRUE) :
              n \in hook_input(len)}
           \cup IF MallocFails /\ pb.size + len > pb.capacity
                THEN {Outcome(pb, pos, <<>>, FALSE)} ELSE {}

\* the bytes copied to a buffer of len bytes
peekbuffer_cp(b, len, offset) ==
  IF offset >= b.size THEN <<>>
  ELSE [k \in 1 .. Smaller(len, b.size - offset) |-> b.buffer[b.start + offset + k - 1]]

\* seeded fault: the length asked for is taken off the size
peekbuffer_mv_unclamped(b, len) ==
  [b EXCEPT !.size = @ - len, !.start = @ + len]

\* seeded fault: the lock outlives the bytes
peekbuffer_mv_stays_locked(b, len) ==
  IF b.size <= len THEN [b EXCEPT !.size = 0, !.start = 0]
  ELSE [b EXCEPT !.size = @ - len, !.start = @ + len]

\* what is left when up to len bytes were moved out
peekbuffer_mv(b, len) ==
  IF b.size <= len THEN [b EXCEPT !.size = 0, !.start = 0, !.locked = FALSE]
  ELSE [b EXCEPT !.size = @ - len, !.start = @ + len]
=============================================================================
