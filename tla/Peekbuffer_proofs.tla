-------------------------- MODULE Peekbuffer_proofs -------------------------
(***************************************************************************)
(* What the operations of the peekbuffer and the search for the delimiter  *)
(* preserve, for every input, delimiter, capacity and length.              *)
(***************************************************************************)
EXTENDS Peekbuffer, TLAPS, WellFoundedInduction

\* The valid bytes of a peekbuffer lie in its memory and were read from stdin.
Sound(b) ==
  /\ PeekbufferType(b)
  /\ DOMAIN b.buffer = 0 .. b.capacity - 1
  /\ b.start + b.size <= b.capacity
  /\ \A k \in b.start .. b.start + b.size - 1 : b.buffer[k] \in Offsets

\* stdin is one of the inputs, read up to some place in it
StdinOK == stdin \in Inputs /\ pos \in 0 .. Len(stdin)

\* what a function that reads may leave behind
OutcomeOK(r) ==
  /\ Sound(r.pb)
  /\ r.pos \in 0 .. Len(stdin)
  /\ r.bytes \in Seq(Offsets)
  /\ r.ok \in BOOLEAN
-----------------------------------------------------------------------------
(* Arithmetic: the least element of a set of numbers, and next_pow_2. *)

LEMMA MinOfNats ==
  ASSUME NEW S \in SUBSET Nat, S # {}
  PROVE  Min(S) \in S /\ \A y \in S : Min(S) <= y
<1> DEFINE Below == {ss \in Nat \X Nat : ss[1] < ss[2]}
<1>1. IsWellFoundedOn(Below, Nat)
  BY NatLessThanWellFounded DEF OpToRel
<1>2. PICK x \in S : \A y \in S : ~(<<y, x>> \in Below)
  <2> HIDE DEF Below
  <2> QED BY <1>1, WFMin
<1>3. ASSUME NEW y \in S
      PROVE  x <= y
  <2>1. x \in Nat /\ y \in Nat
    OBVIOUS
  <2>2. ~(y < x)
    <3>1. SUFFICES ASSUME y < x
                   PROVE  FALSE
      OBVIOUS
    <3>2. <<y, x>> \in Below
      BY <2>1, <3>1
    <3> QED BY <1>2, <3>2
  <2> QED BY <2>1, <2>2
<1> QED BY <1>3 DEF Min

LEMMA NextPow2Reaches ==
  ASSUME NEW size \in Nat, size <= SizeLimit
  PROVE  next_pow_2(size) \in Nat /\ next_pow_2(size) >= size
<1> DEFINE Powers == {p \in size .. SizeLimit : \E k \in 0 .. p : p = 2 ^ k}
<1>1. SizeLimit \in Nat /\ \E k \in 0 .. SizeLimit : SizeLimit = 2 ^ k
  BY PeekbufferAssumption
<1>2. SizeLimit \in Powers
  BY <1>1
<1>3. Powers \in SUBSET Nat
  BY <1>1
<1>4. Min(Powers) \in Powers
  <2> HIDE DEF Powers
  <2> QED BY <1>2, <1>3, MinOfNats
<1>5. next_pow_2(size) = Min(Powers)
  BY <1>1 DEF next_pow_2
<1> QED BY <1>1, <1>4, <1>5
-----------------------------------------------------------------------------
(* stdin *)

LEMMA StdinType ==
  ASSUME stdin \in Inputs
  PROVE  /\ stdin \in Seq(Bytes) /\ Len(stdin) \in Nat
         /\ DELIMITER_LEN \in Nat /\ DELIMITER_LEN >= 1
<1>1. stdin \in Seq(Bytes) /\ Delimiter \in Seq(Bytes) /\ Delimiter # <<>>
  BY PeekbufferAssumption
<1> QED BY <1>1 DEF DELIMITER_LEN

LEMMA HookInputBounds ==
  ASSUME StdinOK, NEW len \in Nat, NEW n \in hook_input(len), n # -1
  PROVE  n \in 0 .. len /\ pos + n <= Len(stdin)
BY StdinType DEF StdinOK, hook_input, Smaller

\* What postprocess_input keeps was read, and it seeks to a place in the input.
LEMMA PostprocessBounds ==
  ASSUME stdin \in Inputs, NEW p \in Nat, NEW n \in Nat, p + n <= Len(stdin)
  PROVE  /\ postprocess_input(p, n).kept \in 0 .. n
         /\ postprocess_input(p, n).pos \in 0 .. Len(stdin)
<1> DEFINE whole  == {i \in 0 .. n - DELIMITER_LEN : Matches(p + i, DELIMITER_LEN)}
           tail   == {i \in 0 .. n - 1 : /\ i > n - DELIMITER_LEN
                                         /\ Matches(p + i, n - i)
                                         /\ is_partial_delimiter(p + i)}
           starts == IF ~MULTI_REQUEST THEN {} ELSE IF whole # {} THEN whole ELSE tail
<1>1. \A i \in starts : i \in 0 .. n /\ p + i + DELIMITER_LEN <= Len(stdin)
  BY StdinType DEF is_partial_delimiter
<1>2. starts \in SUBSET Nat
  BY <1>1
<1>3. starts # {} => Min(starts) \in starts
  <2> HIDE DEF starts
  <2> QED BY <1>2, MinOfNats
<1>4. postprocess_input(p, n)
        = IF starts = {} THEN [kept |-> n, pos |-> p + n]
          ELSE [kept |-> Min(starts), pos |-> p + Min(starts) + DELIMITER_LEN]
  BY DEF postprocess_input
<1> HIDE DEF starts
<1>5. CASE starts = {}
  BY <1>4, <1>5, StdinType
<1>6. CASE starts # {}
  <2>1. Min(starts) \in 0 .. n /\ p + Min(starts) + DELIMITER_LEN <= Len(stdin)
    BY <1>1, <1>3, <1>6
  <2> QED BY <1>4, <1>6, <2>1, StdinType
<1> QED BY <1>5, <1>6
\* a delimiter is in stdin at offset q
At(q) == q + DELIMITER_LEN <= Len(stdin) /\ Matches(q, DELIMITER_LEN)

\* postprocess_input finds the first delimiter that begins in what was read, whether it
\* was read as a whole or not, and looks no further.
LEMMA PostprocessFinds ==
  ASSUME stdin \in Inputs, NEW p \in Nat, NEW n \in Nat, p + n <= Len(stdin)
  PROVE  \/ /\ MULTI_REQUEST => \A i \in 0 .. n - 1 : ~At(p + i)
            /\ postprocess_input(p, n) = [kept |-> n, pos |-> p + n]
         \/ /\ MULTI_REQUEST
            /\ \E i \in 0 .. n - 1 :
                 /\ At(p + i) /\ \A j \in 0 .. i - 1 : ~At(p + j)
                 /\ postprocess_input(p, n) = [kept |-> i, pos |-> p + i + DELIMITER_LEN]
<1> DEFINE L      == DELIMITER_LEN
           whole  == {i \in 0 .. n - L : Matches(p + i, L)}
           tail   == {i \in 0 .. n - 1 : /\ i > n - L
                                         /\ Matches(p + i, n - i)
                                         /\ is_partial_delimiter(p + i)}
           starts == IF ~MULTI_REQUEST THEN {} ELSE IF whole # {} THEN whole ELSE tail
<1>1. L \in Nat /\ L >= 1 /\ Len(stdin) \in Nat
  BY StdinType
<1>2. postprocess_input(p, n)
        = IF starts = {} THEN [kept |-> n, pos |-> p + n]
          ELSE [kept |-> Min(starts), pos |-> p + Min(starts) + L]
  BY DEF postprocess_input
<1>3. \A i \in whole : i \in 0 .. n - 1 /\ At(p + i)
  BY <1>1 DEF At
<1>4. \A i \in tail : i \in 0 .. n - 1 /\ At(p + i)
  BY <1>1 DEF At, is_partial_delimiter
<1>5. ASSUME NEW i \in 0 .. n - 1, At(p + i)
      PROVE  i \in whole \/ (i > n - L /\ i \in tail)
  <2>1. CASE i <= n - L
    <3>1. Matches(p + i, L)
      BY <1>5 DEF At
    <3>2. i \in 0 .. n - L
      BY <1>1, <2>1
    <3>3. i \in whole
      <4> HIDE DEF L
      <4> QED BY <3>1, <3>2, Zenon
    <3> HIDE DEF whole, tail
    <3> QED BY <3>3
  <2>2. CASE i > n - L
    <3>1. Matches(p + i, n - i)
      <4>1. \A k \in 1 .. n - i : k \in 1 .. L
        BY <1>1, <2>2
      <4> QED BY <1>5, <4>1 DEF At, Matches
    <3>2. is_partial_delimiter(p + i)
      BY <1>5 DEF At, is_partial_delimiter
    <3> QED BY <2>2, <3>1, <3>2
  <2> QED BY <1>1, <2>1, <2>2
<1>6. \A i \in starts : i \in 0 .. n - 1 /\ At(p + i)
  <2> HIDE DEF whole, tail
  <2> QED BY <1>3, <1>4
<1>7. starts # {} => Min(starts) \in starts /\ \A y \in starts : Min(starts) <= y
  <2>1. starts \in SUBSET Nat
    BY <1>6
  <2> HIDE DEF starts
  <2> QED BY <2>1, MinOfNats
<1>8. CASE starts = {}
  <2>1. MULTI_REQUEST => \A i \in 0 .. n - 1 : ~At(p + i)
    <3> HIDE DEF L
    <3>1. MULTI_REQUEST => whole = {} /\ tail = {}
      <4> HIDE DEF whole, tail
      <4> QED BY <1>8
    <3> HIDE DEF whole, tail
    <3> QED BY <1>5, <3>1
  <2> QED BY <1>2, <1>8, <2>1
<1>9. CASE starts # {}
  <2>1. MULTI_REQUEST
    BY <1>9
  <2>2. PICK m \in 0 .. n - 1 : m = Min(starts) /\ m \in starts
    BY <1>6, <1>7, <1>9
  <2>3. At(p + m)
    BY <1>6, <2>2
  <2>4. ASSUME NEW j \in 0 .. m - 1, At(p + j)
        PROVE  FALSE
    <3>1. j \in 0 .. n - 1 /\ j < m
      <4>1. m \in 0 .. n - 1 /\ j \in 0 .. m - 1
        OBVIOUS
      <4> HIDE DEF starts, whole, tail, L
      <4> QED BY <4>1
    <3>2. j \in whole \/ (j > n - L /\ j \in tail)
      BY <1>5, <2>4, <3>1
    <3>3. CASE j \in starts
      <4>1. m <= j
        BY <1>7, <1>9, <2>2, <3>3
      <4> QED BY <3>1, <4>1
    <3>4. CASE j \notin starts
      <4>1. j \notin whole /\ whole # {} /\ j > n - L
        <5> HIDE DEF whole, tail, L
        <5> QED BY <2>1, <3>2, <3>4
      <4>2. m \in whole
        <5> HIDE DEF whole, tail, L
        <5> QED BY <2>1, <2>2, <4>1
      <4>3. m <= n - L
        BY <4>2
      <4> QED BY <1>1, <3>1, <4>1, <4>3
    <3> QED BY <3>3, <3>4
  <2>5. postprocess_input(p, n) = [kept |-> m, pos |-> p + m + L]
    <3> HIDE DEF starts, L
    <3> QED BY <1>2, <1>9, <2>2
  <2> QED BY <2>1, <2>3, <2>4, <2>5
<1> QED BY <1>8, <1>9
-----------------------------------------------------------------------------
(* The operations of the peekbuffer *)

LEMMA CpType ==
  ASSUME NEW b, Sound(b), NEW len \in Nat, NEW offset \in Nat
  PROVE  /\ peekbuffer_cp(b, len, offset) \in Seq(Offsets)
         /\ Len(peekbuffer_cp(b, len, offset)) <= len
         /\ offset = 0 => Len(peekbuffer_cp(b, len, offset)) = Smaller(len, b.size)
<1>1. b.start \in Nat /\ b.size \in Nat
  BY DEF Sound, PeekbufferType
<1>2. CASE offset >= b.size
  BY <1>1, <1>2 DEF peekbuffer_cp, Smaller
<1>3. CASE offset < b.size
  <2> DEFINE n == Smaller(len, b.size - offset)
             s == [k \in 1 .. n |-> b.buffer[b.start + offset + k - 1]]
  <2>1. n \in Nat /\ n <= len /\ n <= b.size - offset
    BY <1>1, <1>3 DEF Smaller
  <2>2. \A k \in 1 .. n : b.buffer[b.start + offset + k - 1] \in Offsets
    <3>1. TAKE k \in 1 .. n
    <3>2. b.start + offset + k - 1 \in b.start .. b.start + b.size - 1
      BY <1>1, <2>1
    <3> QED BY <3>2 DEF Sound
  <2>3. s \in [1 .. n -> Offsets]
    BY <2>2
  <2>4. s \in Seq(Offsets) /\ Len(s) = n
    <3> HIDE DEF s, n
    <3> QED BY <2>1, <2>3
  <2>5. peekbuffer_cp(b, len, offset) = s
    BY <1>1, <1>3 DEF peekbuffer_cp
  <2>6. offset = 0 => n = Smaller(len, b.size)
    BY <1>1
  <2> QED BY <2>1, <2>4, <2>5, <2>6
<1> QED BY <1>1, <1>2, <1>3

\* records like a peekbuffer_t whose memory is one of B; n bytes of memory
Records(B) == [buffer : B, start : Nat, size : Nat, capacity : Nat, locked : BOOLEAN]
Memory(n)  == [0 .. n - 1 -> Offsets \cup {Junk}]

\* The updates peekbuffer.c makes yield such records again.
LEMMA RecordUpdates ==
  ASSUME NEW B, NEW D, NEW b \in Records(B), NEW m \in D,
         NEW s \in Nat, NEW z \in Nat, NEW c \in Nat, NEW l \in BOOLEAN
  PROVE  /\ [b EXCEPT !.size = z, !.start = s] \in Records(B)
         /\ [b EXCEPT !.size = z, !.start = s, !.locked = l] \in Records(B)
         /\ [b EXCEPT !.start = s, !.buffer = m] \in Records(D)
         /\ [b EXCEPT !.start = s, !.capacity = c, !.buffer = m] \in Records(D)
         /\ [b EXCEPT !.buffer = m, !.size = z, !.locked = l] \in Records(D)
<1>1. [b EXCEPT !.size = z, !.start = s] \in Records(B)
  BY DEF Records
<1>2. [b EXCEPT !.size = z, !.start = s, !.locked = l] \in Records(B)
  BY DEF Records
<1>3. [b EXCEPT !.start = s, !.buffer = m] \in Records(D)
  BY DEF Records
<1>4. [b EXCEPT !.start = s, !.capacity = c, !.buffer = m] \in Records(D)
  BY DEF Records
<1>5. [b EXCEPT !.buffer = m, !.size = z, !.locked = l] \in Records(D)
  BY DEF Records
<1> QED BY <1>1, <1>2, <1>3, <1>4, <1>5

LEMMA SoundIs ==
  ASSUME NEW b, Sound(b)
  PROVE  /\ b \in Records(Memory(b.capacity))
         /\ b.start \in Nat /\ b.size \in Nat /\ b.capacity \in Nat /\ b.locked \in BOOLEAN
         /\ b.start + b.size <= b.capacity
         /\ \A k \in b.start .. b.start + b.size - 1 : b.buffer[k] \in Offsets
BY DEF Sound, PeekbufferType, Memory, Records

LEMMA IsSound ==
  ASSUME NEW b, b \in Records(Memory(b.capacity)), b.start + b.size <= b.capacity,
         \A k \in b.start .. b.start + b.size - 1 : b.buffer[k] \in Offsets
  PROVE  Sound(b)
<1>1. b.buffer \in [0 .. b.capacity - 1 -> Offsets \cup {Junk}]
  BY DEF Memory, Records
<1>2. DOMAIN b.buffer = 0 .. b.capacity - 1
  BY <1>1
<1>3. PeekbufferType(b)
  BY <1>2 DEF PeekbufferType, Memory, Records
<1> QED BY <1>2, <1>3 DEF Sound

LEMMA MvSound ==
  ASSUME NEW b, Sound(b), NEW len \in Nat
  PROVE  Sound(peekbuffer_mv(b, len))
<1> DEFINE c == peekbuffer_mv(b, len)
<1>1. CASE b.size <= len
  <2>1. c = [b EXCEPT !.size = 0, !.start = 0, !.locked = FALSE]
    BY <1>1 DEF peekbuffer_mv
  <2> HIDE DEF c
  <2>2. c \in Records(Memory(b.capacity))
    BY <2>1, SoundIs, RecordUpdates
  <2>3. c.capacity = b.capacity /\ c.start = 0 /\ c.size = 0
    BY <2>1, SoundIs DEF Records
  <2>4. Sound(c)
    BY <2>2, <2>3, SoundIs, IsSound
  <2> QED BY <2>4 DEF c
<1>2. CASE ~(b.size <= len)
  <2>1. c = [b EXCEPT !.size = b.size - len, !.start = b.start + len]
    BY <1>2 DEF peekbuffer_mv
  <2>2. b.size - len \in Nat /\ b.start + len \in Nat
    BY <1>2, SoundIs
  <2> HIDE DEF c
  <2>3. /\ c.capacity = b.capacity /\ c.buffer = b.buffer
        /\ c.start = b.start + len /\ c.size = b.size - len
    BY <2>1, SoundIs DEF Records
  <2>4. \A k \in c.start .. c.start + c.size - 1 : k \in b.start .. b.start + b.size - 1
    BY <2>2, <2>3, SoundIs
  <2>5. c.start + c.size <= c.capacity
    BY <2>2, <2>3, SoundIs
  <2>6. c \in Records(Memory(b.capacity))
    BY <2>1, <2>2, SoundIs, RecordUpdates
  <2>7. Sound(c)
    BY <2>3, <2>4, <2>5, <2>6, SoundIs, IsSound
  <2> QED BY <2>7 DEF c
<1> QED BY <1>1, <1>2

LEMMA FromType ==
  ASSUME NEW p \in Nat, NEW n \in Nat, p + n <= Len(stdin), Len(stdin) \in Nat
  PROVE  From(p, n) \in Seq(Offsets) /\ Len(From(p, n)) = n
<1>1. From(p, n) \in [1 .. n -> Offsets]
  BY DEF From, Offsets
<1> QED BY <1>1

LEMMA MovedSound ==
  ASSUME NEW b, Sound(b)
  PROVE  /\ Sound(Moved(b))
         /\ Moved(b).size = b.size /\ Moved(b).start = 0
         /\ Moved(b).capacity = b.capacity /\ Moved(b).locked = b.locked
<1> DEFINE m == [k \in DOMAIN b.buffer |->
                   IF k < b.size THEN b.buffer[b.start + k] ELSE b.buffer[k]]
<1>1. /\ b.start \in Nat /\ b.size \in Nat /\ b.capacity \in Nat
      /\ b.buffer \in [0 .. b.capacity - 1 -> Offsets \cup {Junk}]
      /\ DOMAIN b.buffer = 0 .. b.capacity - 1
      /\ b.start + b.size <= b.capacity
  BY DEF Sound, PeekbufferType
<1>2. \A k \in 0 .. b.size - 1 : k \in DOMAIN b.buffer /\ b.buffer[b.start + k] \in Offsets
  BY <1>1 DEF Sound
<1>3. m \in [0 .. b.capacity - 1 -> Offsets \cup {Junk}]
  BY <1>1, <1>2
<1>4. \A k \in 0 .. b.size - 1 : m[k] \in Offsets
  BY <1>1, <1>2
<1> DEFINE d == Moved(b)
<1> HIDE DEF m
<1>5. d = [b EXCEPT !.start = 0, !.buffer = m]
  BY DEF Moved, m
<1> HIDE DEF d
<1>6. /\ d.buffer = m /\ d.start = 0 /\ d.size = b.size
      /\ d.capacity = b.capacity /\ d.locked = b.locked
  BY <1>5, SoundIs DEF Records
<1>7. d \in Records(Memory(b.capacity))
  BY <1>3, <1>5, SoundIs, RecordUpdates DEF Memory
<1>8. \A k \in 0 .. b.size - 1 : k \in d.start .. d.start + d.size - 1 /\ d.buffer[k] \in Offsets
  BY <1>1, <1>4, <1>6
<1>9. d.start + d.size <= d.capacity
  BY <1>1, <1>6
<1>10. Sound(d)
  BY <1>1, <1>6, <1>7, <1>8, <1>9, IsSound
<1> QED BY <1>6, <1>10 DEF d

LEMMA ReallocatedSound ==
  ASSUME NEW b, Sound(b), NEW new_size \in Nat, b.size <= new_size, new_size <= SizeLimit
  PROVE  /\ Sound(Reallocated(b, new_size))
         /\ Reallocated(b, new_size).size = b.size
         /\ Reallocated(b, new_size).start = 0
         /\ new_size <= Reallocated(b, new_size).capacity
<1> DEFINE c == next_pow_2(new_size)
           m == [k \in 0 .. c - 1 |-> IF k < b.size THEN b.buffer[b.start + k] ELSE Junk]
<1>1. c \in Nat /\ c >= new_size
  BY NextPow2Reaches
<1> HIDE DEF c
<1>2. b.start \in Nat /\ b.size \in Nat /\ b.locked \in BOOLEAN
  BY DEF Sound, PeekbufferType
<1>3. \A k \in 0 .. b.size - 1 : b.buffer[b.start + k] \in Offsets
  BY <1>2 DEF Sound
<1>4. m \in [0 .. c - 1 -> Offsets \cup {Junk}]
  BY <1>1, <1>2, <1>3
<1>5. \A k \in 0 .. b.size - 1 : m[k] \in Offsets
  BY <1>1, <1>2, <1>3
<1> DEFINE d == Reallocated(b, new_size)
<1> HIDE DEF m
<1>6. d = [b EXCEPT !.start = 0, !.capacity = c, !.buffer = m]
  BY DEF Reallocated, c, m
<1> HIDE DEF d
<1>7. d.buffer = m /\ d.start = 0 /\ d.size = b.size /\ d.capacity = c
  BY <1>6, SoundIs DEF Records
<1>8. d \in Records(Memory(c))
  BY <1>1, <1>4, <1>6, SoundIs, RecordUpdates DEF Memory
<1>9. Sound(d)
  BY <1>1, <1>2, <1>5, <1>7, <1>8, IsSound
<1> QED BY <1>1, <1>7, <1>9 DEF d

\* After peekbuffer_grow there is room for new_size bytes.
LEMMA GrowMakesRoom ==
  ASSUME NEW b, Sound(b), NEW new_size \in Nat, b.size <= new_size, new_size <= SizeLimit
  PROVE  /\ Sound(peekbuffer_grow(b, new_size))
         /\ peekbuffer_grow(b, new_size).size = b.size
         /\ peekbuffer_grow(b, new_size).start + new_size
              <= peekbuffer_grow(b, new_size).capacity
<1>1. b.start \in Nat /\ b.capacity \in Nat
  BY DEF Sound, PeekbufferType
<1>2. CASE b.start + new_size <= b.capacity
  BY <1>2 DEF peekbuffer_grow
<1>3. CASE b.start + new_size > b.capacity /\ new_size <= b.capacity
  <2>1. peekbuffer_grow(b, new_size) = Moved(b)
    BY <1>1, <1>3 DEF peekbuffer_grow
  <2> QED BY <1>3, <2>1, MovedSound
<1>4. CASE b.start + new_size > b.capacity /\ new_size > b.capacity
  <2>1. peekbuffer_grow(b, new_size) = Reallocated(b, new_size)
    BY <1>1, <1>4 DEF peekbuffer_grow
  <2>2. Reallocated(b, new_size).capacity \in Nat
    BY ReallocatedSound DEF Sound, PeekbufferType
  <2> QED BY <2>1, <2>2, ReallocatedSound
<1> QED BY <1>1, <1>2, <1>3, <1>4
LEMMA Before ==
  ASSUME NEW s \in Nat, NEW z \in Nat, NEW n \in Nat, NEW m \in 0 .. n,
         NEW k \in s .. s + z + m - 1, k \notin s + z .. s + z + n - 1
  PROVE  k \in s .. s + z - 1
OBVIOUS

LEMMA Fits ==
  ASSUME NEW s \in Nat, NEW z \in Nat, NEW n \in Nat, NEW m \in 0 .. n, NEW c \in Nat,
         NEW a \in Nat, a = s + z, a + n <= c
  PROVE  a + m <= c /\ z + m \in Nat /\ s + (z + m) = a + m
OBVIOUS


\* Bytes of stdin written behind the valid ones stay inside the memory.
LEMMA WrittenSound ==
  ASSUME stdin \in Inputs, NEW b, Sound(b), NEW p \in Nat, NEW n \in Nat, p + n <= Len(stdin),
         b.start + b.size + n <= b.capacity, NEW kept \in 0 .. n, NEW l \in BOOLEAN
  PROVE  Sound([b EXCEPT !.buffer = Write(b.buffer, b.start + b.size, From(p, n)),
                         !.size = b.size + kept, !.locked = l])
<1> DEFINE at   == b.start + b.size
           w    == Write(b.buffer, at, From(p, n))
<1>1. /\ b.start \in Nat /\ b.size \in Nat /\ b.capacity \in Nat /\ b.locked \in BOOLEAN
      /\ b.buffer \in [0 .. b.capacity - 1 -> Offsets \cup {Junk}]
      /\ DOMAIN b.buffer = 0 .. b.capacity - 1
  BY DEF Sound, PeekbufferType
<1>2. kept \in 0 .. n
  OBVIOUS
<1>3. From(p, n) \in Seq(Offsets) /\ Len(From(p, n)) = n
  BY StdinType, FromType
<1>4. at \in Nat /\ at + n <= b.capacity
  BY <1>1
<1>5. w = [k \in 0 .. b.capacity - 1 |->
             IF k \in at .. at + n - 1 THEN From(p, n)[k - at + 1] ELSE b.buffer[k]]
  <2>1. DOMAIN b.buffer \cup (at .. at + n - 1) = 0 .. b.capacity - 1
    BY <1>1, <1>4
  <2> HIDE DEF at
  <2> QED BY <1>3, <2>1 DEF Write
<1>6. \A k \in at .. at + n - 1 : From(p, n)[k - at + 1] \in Offsets
  <2>1. TAKE k \in at .. at + n - 1
  <2>2. k - at + 1 \in 1 .. n
    BY <1>4
  <2> HIDE DEF at
  <2> QED BY <1>3, <2>2
<1>7. w \in [0 .. b.capacity - 1 -> Offsets \cup {Junk}]
  <2> HIDE DEF at, w
  <2> QED BY <1>1, <1>5, <1>6
<1>8. \A k \in b.start .. at + kept - 1 : w[k] \in Offsets
  <2>1. TAKE k \in b.start .. at + kept - 1
  <2>2. k \in 0 .. b.capacity - 1
    BY <1>1, <1>2, <1>4
  <2>3. CASE k \in at .. at + n - 1
    <3> HIDE DEF at, w
    <3> QED BY <1>5, <1>6, <2>2, <2>3
  <2>4. CASE k \notin at .. at + n - 1
    <3>1. k \in b.start .. b.start + b.size - 1
      <4>1. k \in b.start .. b.start + b.size + kept - 1
        OBVIOUS
      <4>2. k \notin b.start + b.size .. b.start + b.size + n - 1
        BY <2>4
      <4> QED BY <1>1, <1>2, <4>1, <4>2, Before
    <3>2. w[k] = b.buffer[k]
      <4> HIDE DEF at, w
      <4> QED BY <1>5, <2>2, <2>4
    <3> QED BY <3>1, <3>2 DEF Sound
  <2> QED BY <2>3, <2>4
<1>9. at = b.start + b.size
  OBVIOUS
<1> DEFINE d == [b EXCEPT !.buffer = w, !.size = b.size + kept, !.locked = l]
<1> HIDE DEF w, at
<1>10. at + kept <= b.capacity /\ b.size + kept \in Nat /\ b.start + (b.size + kept) = at + kept
  <2>1. at \in Nat /\ at + n <= b.capacity
    BY <1>1, <1>4, <1>9
  <2>2. PICK s \in Nat, z \in Nat, c \in Nat, a \in Nat, m \in 0 .. n :
          s = b.start /\ z = b.size /\ c = b.capacity /\ a = at /\ m = kept
    BY <1>1, <1>2, <2>1
  <2>3. a = s + z /\ a + n <= c
    BY <1>9, <2>1, <2>2
  <2>4. a + m <= c /\ z + m \in Nat /\ s + (z + m) = a + m
    BY <2>3, Fits
  <2> QED BY <2>2, <2>4
<1>11. d = [b EXCEPT !.buffer = w, !.size = b.size + kept, !.locked = l]
  OBVIOUS
<1>12. l \in BOOLEAN
  OBVIOUS
<1> HIDE DEF d
<1>13. /\ d.buffer = w /\ d.start = b.start
       /\ d.size = b.size + kept /\ d.capacity = b.capacity
  BY <1>11, SoundIs DEF Records
<1>14. d \in Records(Memory(b.capacity))
  BY <1>7, <1>10, <1>11, <1>12, SoundIs, RecordUpdates DEF Memory
<1>15. d.start + d.size = at + kept
  BY <1>10, <1>13
<1>16. \A k \in d.start .. d.start + d.size - 1 : d.buffer[k] \in Offsets
  <2>1. TAKE k \in d.start .. d.start + d.size - 1
  <2>2. k \in b.start .. at + kept - 1
    BY <1>2, <1>4, <1>13, <1>15, SoundIs
  <2> QED BY <1>8, <1>13, <2>2
<1>17. Sound(d)
  BY <1>10, <1>13, <1>14, <1>15, <1>16, IsSound
<1> QED BY <1>17 DEF d, w, at

\* The same when what follows a delimiter is left out, as peekbuffer_read does.
LEMMA AppendedSound ==
  ASSUME StdinOK, NEW b, Sound(b), NEW n \in Nat, pos + n <= Len(stdin),
         b.start + b.size + n <= b.capacity
  PROVE  Sound(Appended(b, n))
<1> DEFINE kept == postprocess_input(pos, n).kept
<1>1. pos \in Nat /\ stdin \in Inputs
  BY StdinType DEF StdinOK
<1>2. kept \in 0 .. n
  BY <1>1, PostprocessBounds
<1> HIDE DEF kept
<1>3. PICK l \in BOOLEAN : l = (b.locked \/ kept < n)
  OBVIOUS
<1>4. Appended(b, n) = [b EXCEPT !.buffer = Write(b.buffer, b.start + b.size, From(pos, n)),
                                 !.size = b.size + kept, !.locked = l]
  BY <1>3 DEF Appended, kept
<1>5. Sound([b EXCEPT !.buffer = Write(b.buffer, b.start + b.size, From(pos, n)),
                      !.size = b.size + kept, !.locked = l])
  <2>1. PICK p \in Nat, k \in 0 .. n : p = pos /\ k = kept
    BY <1>1, <1>2
  <2>2. Sound([b EXCEPT !.buffer = Write(b.buffer, b.start + b.size, From(p, n)),
                        !.size = b.size + k, !.locked = l])
    BY <1>1, <2>1, WrittenSound
  <2> QED BY <2>1, <2>2
<1> QED BY <1>4, <1>5
-----------------------------------------------------------------------------
(* The outcomes of what the calls share *)

LEMMA OutcomeIsOK ==
  ASSUME NEW b, Sound(b), NEW p \in 0 .. Len(stdin), NEW bytes \in Seq(Offsets),
         NEW ok \in BOOLEAN
  PROVE  OutcomeOK(Outcome(b, p, bytes, ok))
<1> DEFINE r == Outcome(b, p, bytes, ok)
<1>1. r.pb = b /\ r.pos = p /\ r.bytes = bytes /\ r.ok = ok
  BY DEF Outcome
<1> HIDE DEF r
<1>2. Sound(r.pb)
  BY <1>1
<1>3. OutcomeOK(r)
  BY <1>1, <1>2 DEF OutcomeOK
<1> QED BY <1>3 DEF r

\* The static buffer is empty when the process starts.
LEMMA StartsSound ==
  ASSUME NothingRead
  PROVE  StdinOK /\ Sound(pb)
<1> DEFINE C == STATIC_BUFFER_SIZE
           mem == [k \in 0 .. C - 1 |-> Junk]
<1>1. C \in Nat /\ stdin \in Seq(Bytes) /\ stdin \in Inputs /\ pos = 0
  BY PeekbufferAssumption DEF NothingRead
<1>2. pb = [buffer |-> mem, start |-> 0, size |-> 0, capacity |-> C, locked |-> FALSE]
  BY DEF NothingRead
<1>3. mem \in Memory(C)
  BY DEF Memory
<1> HIDE DEF mem
<1>4. /\ pb \in Records(Memory(pb.capacity)) /\ pb.capacity = C
      /\ pb.start = 0 /\ pb.size = 0
  BY <1>1, <1>2, <1>3 DEF Records
<1>5. pb.start + pb.size <= pb.capacity
      /\ \A k \in pb.start .. pb.start + pb.size - 1 : pb.buffer[k] \in Offsets
  BY <1>1, <1>4
<1>6. Sound(pb)
  BY <1>4, <1>5, IsSound
<1>7. StdinOK
  BY <1>1 DEF StdinOK
<1> QED BY <1>6, <1>7
=============================================================================
