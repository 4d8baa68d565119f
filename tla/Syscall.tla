------------------------------- MODULE Syscall ------------------------------
(***************************************************************************)
(* How a call that libdesock leaves to the kernel gets there and back: the *)
(* system calls that are tried in turn (include/syscall.h, select.c), what *)
(* a trap leaves in the registers (include/arch), and errno (syscall.c).   *)
(*                                                                         *)
(* A system call is its name; of its arguments only a timeout is kept.     *)
(* A second is split into MILLION parts and these into THOUSAND.           *)
(***************************************************************************)
EXTENDS Integers, Sequences

CONSTANTS
  MILLION, THOUSAND,
  TIME_MAX,       \* largest time_t
  INT32_MAX       \* largest number of seconds in a long of 32 bits

ASSUME SyscallAssumption ==
  /\ {MILLION, THOUSAND} \subseteq Nat \ {0}
  /\ TIME_MAX \in Nat /\ INT32_MAX \in 0 .. TIME_MAX

EINTR  == 4
EINVAL == 22
ENOSYS == 38

\* external: the kernels that flag an error in a register of its own and leave it positive
FlagArchs == {"mips", "mips64", "mipsn32", "powerpc", "powerpc64"}

\* external: the registers after a trap with result v, an error if v is negative
Registers(arch, v) ==
  IF arch \in FlagArchs /\ v < 0 THEN [result |-> -v, flag |-> 1]
  ELSE [result |-> v, flag |-> 0]

(* What the assembly of an architecture makes of the registers. *)

\* r7 && r2 > 0 ? -r2 : r2
mips(k)    == IF k.flag = 1 /\ k.result > 0 THEN -k.result ELSE k.result
mips64(k)  == mips(k)
mipsn32(k) == mips(k)

\* bns+ 1f ; neg %1, %1 ; 1:
powerpc(k)   == IF k.flag = 1 THEN -k.result ELSE k.result
powerpc64(k) == powerpc(k)

\* the same on the ten others
x86_64(k) == k.result

\* seeded fault: the flag is ignored on mips
syscall_unflagged(arch, v) ==
  LET k == Registers(arch, v) IN IF arch \in {"powerpc", "powerpc64"} THEN powerpc(k) ELSE x86_64(k)

\* __syscall: the result, or -errno
syscall(arch, v) ==
  LET k == Registers(arch, v)
  IN  CASE arch = "mips"      -> mips(k)
        [] arch = "mips64"    -> mips64(k)
        [] arch = "mipsn32"   -> mipsn32(k)
        [] arch = "powerpc"   -> powerpc(k)
        [] arch = "powerpc64" -> powerpc64(k)
        [] OTHER              -> x86_64(k)

\* __syscall_ret: r > -4096UL
syscall_ret(r) ==
  IF r \in -4095 .. -1 THEN [ret |-> -1, errno |-> -r] ELSE [ret |-> r, errno |-> 0]
-----------------------------------------------------------------------------
(* The system calls of one call, in the order they are tried: the next one   *)
(* only if the one before gave ENOSYS.  A build says which there are: whether *)
(* SYS_socketcall and SYS_select are defined, whether pselect6_time64 is, or  *)
(* is another name of pselect6, and whether a long has 64 bits.               *)

NoTimeout == [sec |-> 0, usec |-> 0, nsec |-> 0]         \* a null pointer

Try(nr, timeout) == [nr |-> nr, timeout |-> timeout]

alt_socketcall(build, nr) ==
  <<Try(nr, NoTimeout)>> \o (IF build.socketcall THEN <<Try("socketcall", NoTimeout)>> ELSE <<>>)

IS32BIT(s) == s <= INT32_MAX

\* seconds stored in a long: there is no CLAMP before the cast
AsLong(build, s) ==
  LET low == s % (2 * (INT32_MAX + 1))
  IN  IF build.long64 THEN s ELSE IF low > INT32_MAX THEN low - 2 * (INT32_MAX + 1) ELSE low

\* seeded fault: whole seconds among the microseconds are dropped
Normalised_short(tv) == [sec |-> tv.sec, nsec |-> (tv.usec % MILLION) * THOUSAND]

\* less than a second of nanoseconds, and no more than max_time
Normalised(tv) ==
  IF tv.usec \div MILLION > TIME_MAX - tv.sec
  THEN [sec |-> TIME_MAX, nsec |-> MILLION * THOUSAND - 1]
  ELSE [sec |-> tv.sec + tv.usec \div MILLION, nsec |-> (tv.usec % MILLION) * THOUSAND]

\* what is tried for a select without desocketed descriptors
musl_select(build, tv) ==
  LET t         == Normalised(tv)
      long      == AsLong(build, t.sec)
      micros    == t.nsec \div THOUSAND
      to(s, ns) == IF tv = NoTimeout THEN NoTimeout ELSE [sec |-> s, nsec |-> ns]
      wide      == Try("pselect6_time64", to(t.sec, t.nsec))
      last      == IF build.select THEN Try("select", to(long, micros * THOUSAND))
                   ELSE Try("pselect6", to(long, t.nsec))
  IN  CASE build.time64 = "same"                            -> <<wide>>
        [] build.time64 = "separate" /\ ~IS32BIT(t.sec) -> <<wide, last>>
        [] OTHER                                            -> <<last>>
=============================================================================
