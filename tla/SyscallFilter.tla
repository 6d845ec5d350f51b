---------------------------- MODULE SyscallFilter -----------------------------
(***************************************************************************)
(* The system calls of the disposable worker: the BPF program that         *)
(* restrict_syscalls of native/javex_nif/src/isolation.rs puts together    *)
(* and installs before any supplied Wasm is parsed, and the kernel's       *)
(* machine that runs it for each system call.                              *)
(*                                                                         *)
(* A jump is relative, and how far it goes depends on the blocks pushed in *)
(* between; numbers are compared in the accumulator, which holds what was  *)
(* loaded last on the way there.                                           *)
(***************************************************************************)
EXTENDS Integers, Sequences

CONSTANTS
    ARCH,           \* AUDIT_ARCH of the build
    Allowed,        \* `allowed': numbers of the calls allowed outright
    SYS_tgkill,
    SYS_fcntl,
    Commands,       \* the commands of fcntl that are allowed
    Pid,            \* of the worker itself
    Inputs          \* the seccomp_data a system call may come with

Listed(list, number) == \E i \in DOMAIN list : list[i] = number

ASSUME SyscallFilterAssumption ==
    /\ Allowed \in Seq(Int)
    /\ Commands \in Seq(Int)
    /\ SYS_tgkill # SYS_fcntl
    /\ ~Listed(Allowed, SYS_tgkill)
    /\ ~Listed(Allowed, SYS_fcntl)

VARIABLES
    data,         \* arch, nr and the low words of the first two arguments
    pc,
    accumulator,
    verdict

vars == <<data, pc, accumulator, verdict>>

-----------------------------------------------------------------------------
(* The program.                                                            *)

instruction(code, jt, jf, k) == [code |-> code, jt |-> jt, jf |-> jf, k |-> k]

LOAD(field)      == instruction("load", 0, 0, field)
EQUAL(jt, jf, k) == instruction("equal", jt, jf, k)
RETURN(action)   == instruction("return", 0, 0, action)

CheckArch == <<LOAD("arch"), EQUAL(1, 0, ARCH), RETURN("kill"), LOAD("nr")>>

\* Two instructions for each number in the list: if it is this, allow.
AllowEach(list) ==
    [i \in 1..(2 * Len(list)) |->
        IF i % 2 = 1 THEN EQUAL(0, 1, list[(i + 1) \div 2]) ELSE RETURN("allow")]

\* Wrong: another call than tgkill jumps one instruction short.
CheckTgkillShort ==
    <<EQUAL(0, 3, SYS_tgkill), LOAD("arg0"), EQUAL(1, 0, Pid), RETURN("deny"),
      RETURN("allow")>>

CheckTgkill ==
    <<EQUAL(0, 4, SYS_tgkill), LOAD("arg0"), EQUAL(1, 0, Pid), RETURN("deny"),
      RETURN("allow")>>

CheckFcntl == <<EQUAL(1, 0, SYS_fcntl), RETURN("deny"), LOAD("arg1")>>

filter ==
    CheckArch \o (AllowEach(Allowed) \o (CheckTgkill \o
        (CheckFcntl \o (AllowEach(Commands) \o <<RETURN("deny")>>))))

-----------------------------------------------------------------------------
(* The machine.                                                            *)

Init ==
    /\ data \in Inputs
    /\ pc = 1
    /\ accumulator = 0
    /\ verdict = "none"

Fetches(code) == verdict = "none" /\ filter[pc].code = code

Load ==
    /\ Fetches("load")
    /\ accumulator' = data[filter[pc].k]
    /\ pc' = pc + 1
    /\ UNCHANGED <<data, verdict>>

Jump ==
    /\ Fetches("equal")
    /\ pc' = pc + 1 + IF accumulator = filter[pc].k
                      THEN filter[pc].jt
                      ELSE filter[pc].jf
    /\ UNCHANGED <<data, accumulator, verdict>>

Return ==
    /\ Fetches("return")
    /\ verdict' = filter[pc].k
    /\ UNCHANGED <<data, pc, accumulator>>

Next == Load \/ Jump \/ Return

Spec == Init /\ [][Next]_vars

-----------------------------------------------------------------------------
(* Properties.                                                             *)

\* What the comments in the code ask for: another syscall ABI must not bypass
\* the allowlist; tgkill only for the worker's own thread group; of fcntl only
\* the operations on descriptors and status.
Policy(d) ==
    IF d.arch # ARCH THEN "kill"
    ELSE IF Listed(Allowed, d.nr) THEN "allow"
    ELSE IF d.nr = SYS_tgkill THEN (IF d.arg0 = Pid THEN "allow" ELSE "deny")
    ELSE IF d.nr = SYS_fcntl THEN (IF Listed(Commands, d.arg1) THEN "allow" ELSE "deny")
    ELSE "deny"

\* The jumps put together by pushing blocks decide as the policy does, for
\* every call: none falls into the block of another, or off the end.
VerdictIsPolicy ==
    /\ pc \in DOMAIN filter
    /\ verdict # "none" => verdict = Policy(data)
=============================================================================
