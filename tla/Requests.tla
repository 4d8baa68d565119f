------------------------------ MODULE Requests ------------------------------
(***************************************************************************)
(* What an application that uses recv and MSG_PEEK may rely on when stdin  *)
(* is a file of requests: a recv returns as much as it asked for of the    *)
(* request it is in, less only at that request's end, and never goes on to *)
(* the next; a peek shows the same bytes and takes none of them.           *)
(*                                                                         *)
(* The input is size bytes, known by their offsets; delims holds the       *)
(* offsets at which a delimiter of length begins.                          *)
(***************************************************************************)
EXTENDS Integers, FiniteSetsExt, SequencesExt

CONSTANT MaxLen   \* longest buffer given to recv

VARIABLES
  size, delims, length,
  next,    \* the next byte for the application
  given,   \* the bytes it was given
  answer,  \* what the last recv returned, or nothing if another function was called
  stuck    \* a peek met an empty request: later ones find nothing

vars == <<size, delims, length, next, given, answer, stuck>>

NoAnswer == [peek |-> FALSE, len |-> 0, bytes |-> <<>>, ok |-> TRUE]

\* where the request that p is in ends, and where the one after it begins
End(p)   == Min({d \in delims : d >= p} \cup {size})
After(e) == IF e \in delims THEN e + length ELSE e

\* the first len bytes of what is left of the request
Prefix(len) ==
  LET left == End(next) - next
  IN  [k \in 1 .. (IF len < left THEN len ELSE left) |-> next + k - 1]

Init ==
  /\ next = 0 /\ given = <<>>
  /\ answer = NoAnswer /\ stuck = FALSE

Answer(peek, len, bytes, ok) == answer' = [peek |-> peek, len |-> len, bytes |-> bytes, ok |-> ok]

\* A recv that asks for more than is left of the request goes past its end; one that asks
\* for just as much may, if the end was peeked at.
Recv(len) ==
  LET bytes == Prefix(len)
      to    == next + Len(bytes)
  IN  /\ Answer(FALSE, len, bytes, TRUE)
      /\ given' = given \o bytes
      /\ \/ Len(bytes) = len /\ next' = to
         \/ to = End(next) /\ next' = After(to)
      /\ UNCHANGED <<size, delims, length, stuck>>

Peek(len) ==
  /\ Answer(TRUE, len, IF stuck THEN <<>> ELSE Prefix(len), TRUE)
  /\ \/ ~stuck /\ next \in delims /\ next' = After(next) /\ stuck' = TRUE
     \/ (stuck \/ next \notin delims) /\ UNCHANGED <<next, stuck>>
  /\ UNCHANGED <<size, delims, length, given>>

\* out of memory
PeekFails(len) ==
  /\ Answer(TRUE, len, <<>>, FALSE)
  /\ UNCHANGED <<size, delims, length, next, given, stuck>>

\* The other functions may go on to later requests, but leave out no byte of them, and
\* may meet an empty request in a peek of their own.
Other ==
  LET delimiter == UNION {d .. d + length - 1 : d \in delims}
  IN  /\ next' \in next .. size
      /\ given' = given \o SetToSortSeq((next .. next' - 1) \ delimiter, <)
      /\ answer' \in {answer, NoAnswer}
      /\ stuck => stuck'
      /\ UNCHANGED <<size, delims, length>>

Next == Other \/ \E len \in 1 .. MaxLen : Recv(len) \/ Peek(len) \/ PeekFails(len)

Spec == Init /\ [][Next]_vars
=============================================================================
