------------------------- MODULE SyscallFilterProofs --------------------------
(***************************************************************************)
(* Proofs about SyscallFilter.tla, for any lists of allowed calls and      *)
(* commands and whatever a system call comes with.                         *)
(***************************************************************************)
EXTENDS SyscallFilter, SequenceTheorems, TLAPS

-----------------------------------------------------------------------------
(* Where the blocks are.                                                   *)

Operands ==
    {"arch", "nr", "arg0", "arg1", "kill", "deny", "allow"}
        \cup Int \cup {ARCH, SYS_tgkill, SYS_fcntl, Pid}

Instructions == [code : {"load", "equal", "return"}, jt : Nat, jf : Nat, k : Operands]

\* The last instruction before each block.
Tgkill == 4 + 2 * Len(Allowed)
Fcntl  == Tgkill + 5
Listing == Fcntl + 3
Last   == Listing + 2 * Len(Commands)

LEMMA Counts ==
    /\ Len(Allowed) \in Nat
    /\ Len(Commands) \in Nat
    /\ \A i \in 1..Len(Allowed) : Allowed[i] \in Int
    /\ \A i \in 1..Len(Commands) : Commands[i] \in Int
  BY SyscallFilterAssumption

LEMMA AllowEachBlock ==
    ASSUME NEW list \in Seq(Int)
    PROVE  /\ AllowEach(list) \in Seq(Instructions)
           /\ Len(AllowEach(list)) = 2 * Len(list)
           /\ \A i \in 1..Len(list) :
                 /\ AllowEach(list)[2 * i - 1] = EQUAL(0, 1, list[i])
                 /\ AllowEach(list)[2 * i] = RETURN("allow")
<1> DEFINE item(i) == IF i % 2 = 1 THEN EQUAL(0, 1, list[(i + 1) \div 2]) ELSE RETURN("allow")
<1>1. \A i \in 1..(2 * Len(list)) : item(i) \in Instructions
  <2> SUFFICES ASSUME NEW i \in 1..(2 * Len(list)) PROVE item(i) \in Instructions
    OBVIOUS
  <2>1. RETURN("allow") \in Instructions
    BY DEF RETURN, instruction, Instructions, Operands
  <2>2. ASSUME i % 2 = 1 PROVE EQUAL(0, 1, list[(i + 1) \div 2]) \in Instructions
    <3>1. (i + 1) \div 2 \in 1..Len(list)
      BY <2>2
    <3>2. list[(i + 1) \div 2] \in Int
      BY <3>1
    <3>3. QED
      BY <3>2 DEF EQUAL, instruction, Instructions, Operands
  <2>3. QED
    BY <2>1, <2>2
<1>2. AllowEach(list) = [i \in 1..(2 * Len(list)) |-> item(i)]
  BY DEF AllowEach
<1>3. AllowEach(list) \in [1..(2 * Len(list)) -> Instructions]
  BY <1>1, <1>2
<1>4. 2 * Len(list) \in Nat
  OBVIOUS
<1>5. AllowEach(list) \in Seq(Instructions) /\ Len(AllowEach(list)) = 2 * Len(list)
  BY <1>3, <1>4
<1>6. ASSUME NEW i \in 1..Len(list)
      PROVE  /\ AllowEach(list)[2 * i - 1] = EQUAL(0, 1, list[i])
             /\ AllowEach(list)[2 * i] = RETURN("allow")
  <2>1. 2 * i - 1 \in 1..(2 * Len(list)) /\ 2 * i \in 1..(2 * Len(list))
    OBVIOUS
  <2>2. (2 * i - 1) % 2 = 1 /\ (2 * i) % 2 = 0 /\ ((2 * i - 1) + 1) \div 2 = i
    OBVIOUS
  <2>3. item(2 * i - 1) = EQUAL(0, 1, list[i]) /\ item(2 * i) = RETURN("allow")
    BY <2>2
  <2>4. QED
    BY <1>2, <2>1, <2>3
<1>7. QED
  BY <1>5, <1>6
\* What comes before moves a block, and nothing else.
LEMMA Joined ==
    ASSUME NEW before \in Seq(Instructions), NEW after \in Seq(Instructions)
    PROVE  /\ before \o after \in Seq(Instructions)
           /\ Len(before \o after) = Len(before) + Len(after)
           /\ \A i \in 1..Len(before) : (before \o after)[i] = before[i]
           /\ \A i \in 1..Len(after) : (before \o after)[Len(before) + i] = after[i]
<1> DEFINE both == before \o after
<1>1. /\ both \in Seq(Instructions)
      /\ Len(both) = Len(before) + Len(after)
      /\ \A i \in 1..(Len(before) + Len(after)) :
            both[i] = IF i <= Len(before) THEN before[i] ELSE after[i - Len(before)]
  BY ConcatProperties
<1> HIDE DEF both
<1>2. Len(before) \in Nat /\ Len(after) \in Nat
  OBVIOUS
<1>3. \A i \in 1..Len(before) : both[i] = before[i]
  BY <1>1, <1>2
<1>4. ASSUME NEW i \in 1..Len(after) PROVE both[Len(before) + i] = after[i]
  <2>1. /\ Len(before) + i \in 1..(Len(before) + Len(after))
        /\ ~(Len(before) + i <= Len(before))
        /\ (Len(before) + i) - Len(before) = i
    BY <1>2
  <2>2. QED
    BY <2>1, <1>1
<1>5. QED
  BY <1>1, <1>3, <1>4 DEF both

\* Each instruction of the program is where the jumps expect it.
LEMMA Layout ==
    /\ DOMAIN filter = 1..(Last + 1)
    /\ filter[1] = LOAD("arch")
    /\ filter[2] = EQUAL(1, 0, ARCH)
    /\ filter[3] = RETURN("kill")
    /\ filter[4] = LOAD("nr")
    /\ \A i \in 1..Len(Allowed) :
          /\ filter[4 + 2 * i - 1] = EQUAL(0, 1, Allowed[i])
          /\ filter[4 + 2 * i] = RETURN("allow")
    /\ filter[Tgkill + 1] = EQUAL(0, 4, SYS_tgkill)
    /\ filter[Tgkill + 2] = LOAD("arg0")
    /\ filter[Tgkill + 3] = EQUAL(1, 0, Pid)
    /\ filter[Tgkill + 4] = RETURN("deny")
    /\ filter[Tgkill + 5] = RETURN("allow")
    /\ filter[Fcntl + 1] = EQUAL(1, 0, SYS_fcntl)
    /\ filter[Fcntl + 2] = RETURN("deny")
    /\ filter[Fcntl + 3] = LOAD("arg1")
    /\ \A i \in 1..Len(Commands) :
          /\ filter[Listing + 2 * i - 1] = EQUAL(0, 1, Commands[i])
          /\ filter[Listing + 2 * i] = RETURN("allow")
    /\ filter[Last + 1] = RETURN("deny")
<1> DEFINE end      == <<RETURN("deny")>>
           commands == AllowEach(Commands) \o end
           fcntl    == CheckFcntl \o commands
           tgkill   == CheckTgkill \o fcntl
           allowed  == AllowEach(Allowed) \o tgkill
<1> USE Counts
<1>1. filter = CheckArch \o allowed
  BY DEF filter
<1>2. end \in Seq(Instructions) /\ Len(end) = 1
  BY DEF RETURN, instruction, Instructions, Operands
<1>3. CheckFcntl \in Seq(Instructions) /\ Len(CheckFcntl) = 3
  BY DEF CheckFcntl, LOAD, EQUAL, RETURN, instruction, Instructions, Operands
<1>4. CheckTgkill \in Seq(Instructions) /\ Len(CheckTgkill) = 5
  BY DEF CheckTgkill, LOAD, EQUAL, RETURN, instruction, Instructions, Operands
<1>5. CheckArch \in Seq(Instructions) /\ Len(CheckArch) = 4
  BY DEF CheckArch, LOAD, EQUAL, RETURN, instruction, Instructions, Operands
<1>6. /\ AllowEach(Allowed) \in Seq(Instructions)
      /\ Len(AllowEach(Allowed)) = 2 * Len(Allowed)
      /\ AllowEach(Commands) \in Seq(Instructions)
      /\ Len(AllowEach(Commands)) = 2 * Len(Commands)
  BY AllowEachBlock, SyscallFilterAssumption
<1> HIDE DEF end
<1>7. /\ commands \in Seq(Instructions)
      /\ Len(commands) = 2 * Len(Commands) + 1
      /\ \A i \in 1..(2 * Len(Commands)) : commands[i] = AllowEach(Commands)[i]
      /\ commands[2 * Len(Commands) + 1] = end[1]
  <2>1. /\ commands \in Seq(Instructions)
        /\ Len(commands) = Len(AllowEach(Commands)) + Len(end)
        /\ \A i \in 1..Len(AllowEach(Commands)) : commands[i] = AllowEach(Commands)[i]
        /\ \A i \in 1..Len(end) : commands[Len(AllowEach(Commands)) + i] = end[i]
    BY <1>2, <1>6, Joined, Zenon
  <2>2. QED
    BY <2>1, <1>2, <1>6
<1> HIDE DEF commands
<1>8. /\ fcntl \in Seq(Instructions)
      /\ Len(fcntl) = 3 + Len(commands)
      /\ \A i \in 1..3 : fcntl[i] = CheckFcntl[i]
      /\ \A i \in 1..Len(commands) : fcntl[3 + i] = commands[i]
  <2>1. /\ fcntl \in Seq(Instructions)
        /\ Len(fcntl) = Len(CheckFcntl) + Len(commands)
        /\ \A i \in 1..Len(CheckFcntl) : fcntl[i] = CheckFcntl[i]
        /\ \A i \in 1..Len(commands) : fcntl[Len(CheckFcntl) + i] = commands[i]
    BY <1>3, <1>7, Joined, Zenon
  <2>2. QED
    BY <2>1, <1>3, <1>7
<1> HIDE DEF fcntl
<1>9. /\ tgkill \in Seq(Instructions)
      /\ Len(tgkill) = 5 + Len(fcntl)
      /\ \A i \in 1..5 : tgkill[i] = CheckTgkill[i]
      /\ \A i \in 1..Len(fcntl) : tgkill[5 + i] = fcntl[i]
  <2>1. /\ tgkill \in Seq(Instructions)
        /\ Len(tgkill) = Len(CheckTgkill) + Len(fcntl)
        /\ \A i \in 1..Len(CheckTgkill) : tgkill[i] = CheckTgkill[i]
        /\ \A i \in 1..Len(fcntl) : tgkill[Len(CheckTgkill) + i] = fcntl[i]
    BY <1>4, <1>8, Joined, Zenon
  <2>2. QED
    BY <2>1, <1>4, <1>8
<1> HIDE DEF tgkill
<1>10. /\ allowed \in Seq(Instructions)
       /\ Len(allowed) = 2 * Len(Allowed) + Len(tgkill)
       /\ \A i \in 1..(2 * Len(Allowed)) : allowed[i] = AllowEach(Allowed)[i]
       /\ \A i \in 1..Len(tgkill) : allowed[2 * Len(Allowed) + i] = tgkill[i]
  <2>1. /\ allowed \in Seq(Instructions)
        /\ Len(allowed) = Len(AllowEach(Allowed)) + Len(tgkill)
        /\ \A i \in 1..Len(AllowEach(Allowed)) : allowed[i] = AllowEach(Allowed)[i]
        /\ \A i \in 1..Len(tgkill) : allowed[Len(AllowEach(Allowed)) + i] = tgkill[i]
    BY <1>6, <1>9, Joined, Zenon
  <2>2. QED
    BY <2>1, <1>6, <1>9
<1> HIDE DEF allowed
<1>11. /\ filter \in Seq(Instructions)
       /\ Len(filter) = 4 + Len(allowed)
       /\ \A i \in 1..4 : filter[i] = CheckArch[i]
       /\ \A i \in 1..Len(allowed) : filter[4 + i] = allowed[i]
  <2>1. /\ filter \in Seq(Instructions)
        /\ Len(filter) = Len(CheckArch) + Len(allowed)
        /\ \A i \in 1..Len(CheckArch) : filter[i] = CheckArch[i]
        /\ \A i \in 1..Len(allowed) : filter[Len(CheckArch) + i] = allowed[i]
    BY <1>1, <1>5, <1>10, Joined, Zenon
  <2>2. QED
    BY <2>1, <1>1, <1>5, <1>10
<1>12. Len(filter) = Last + 1
  BY <1>7, <1>8, <1>9, <1>10, <1>11 DEF Last, Listing, Fcntl, Tgkill
<1>13. DOMAIN filter = 1..(Last + 1)
  BY <1>11, <1>12
<1>14. /\ filter[1] = LOAD("arch")
       /\ filter[2] = EQUAL(1, 0, ARCH)
       /\ filter[3] = RETURN("kill")
       /\ filter[4] = LOAD("nr")
  BY <1>11 DEF CheckArch
<1>15. ASSUME NEW i \in 1..Len(Allowed)
       PROVE  /\ filter[4 + 2 * i - 1] = EQUAL(0, 1, Allowed[i])
              /\ filter[4 + 2 * i] = RETURN("allow")
  <2>1. 2 * i - 1 \in 1..(2 * Len(Allowed)) /\ 2 * i \in 1..(2 * Len(Allowed))
    OBVIOUS
  <2>2. allowed[2 * i - 1] = EQUAL(0, 1, Allowed[i]) /\ allowed[2 * i] = RETURN("allow")
    BY <2>1, <1>10, AllowEachBlock, SyscallFilterAssumption
  <2>3. 2 * i - 1 \in 1..Len(allowed) /\ 2 * i \in 1..Len(allowed)
    BY <2>1, <1>9, <1>10
  <2>4. filter[4 + (2 * i - 1)] = allowed[2 * i - 1] /\ filter[4 + 2 * i] = allowed[2 * i]
    BY <2>3, <1>11
  <2>5. 4 + (2 * i - 1) = 4 + 2 * i - 1
    OBVIOUS
  <2>6. QED
    BY <2>2, <2>4, <2>5
<1>16. \A i \in 1..Len(tgkill) : filter[Tgkill + i] = tgkill[i]
  <2> TAKE i \in 1..Len(tgkill)
  <2>1. 2 * Len(Allowed) + i \in 1..Len(allowed)
    BY <1>9, <1>10
  <2>2. filter[4 + (2 * Len(Allowed) + i)] = tgkill[i]
    BY <2>1, <1>10, <1>11
  <2>3. QED
    BY <2>2, <1>9 DEF Tgkill
<1>17. /\ filter[Tgkill + 1] = EQUAL(0, 4, SYS_tgkill)
       /\ filter[Tgkill + 2] = LOAD("arg0")
       /\ filter[Tgkill + 3] = EQUAL(1, 0, Pid)
       /\ filter[Tgkill + 4] = RETURN("deny")
       /\ filter[Tgkill + 5] = RETURN("allow")
  <2>1. \A i \in 1..5 : filter[Tgkill + i] = CheckTgkill[i]
    BY <1>8, <1>9, <1>16
  <2>2. QED
    BY <2>1 DEF CheckTgkill
<1>18. \A i \in 1..Len(fcntl) : filter[Fcntl + i] = fcntl[i]
  <2> TAKE i \in 1..Len(fcntl)
  <2>1. 5 + i \in 1..Len(tgkill)
    BY <1>8, <1>9
  <2>2. filter[Tgkill + (5 + i)] = fcntl[i]
    BY <2>1, <1>9, <1>16
  <2>3. QED
    BY <2>2, <1>8 DEF Fcntl, Tgkill
<1>19. /\ filter[Fcntl + 1] = EQUAL(1, 0, SYS_fcntl)
       /\ filter[Fcntl + 2] = RETURN("deny")
       /\ filter[Fcntl + 3] = LOAD("arg1")
  <2>1. \A i \in 1..3 : filter[Fcntl + i] = CheckFcntl[i]
    BY <1>7, <1>8, <1>18
  <2>2. QED
    BY <2>1 DEF CheckFcntl
<1>20. \A i \in 1..Len(commands) : filter[Listing + i] = commands[i]
  <2> TAKE i \in 1..Len(commands)
  <2>1. 3 + i \in 1..Len(fcntl)
    BY <1>7, <1>8
  <2>2. filter[Fcntl + (3 + i)] = commands[i]
    BY <2>1, <1>8, <1>18
  <2>3. QED
    BY <2>2, <1>7 DEF Listing, Fcntl, Tgkill
<1>21. ASSUME NEW i \in 1..Len(Commands)
       PROVE  /\ filter[Listing + 2 * i - 1] = EQUAL(0, 1, Commands[i])
              /\ filter[Listing + 2 * i] = RETURN("allow")
  <2>1. 2 * i - 1 \in 1..(2 * Len(Commands)) /\ 2 * i \in 1..(2 * Len(Commands))
    OBVIOUS
  <2>2. commands[2 * i - 1] = EQUAL(0, 1, Commands[i]) /\ commands[2 * i] = RETURN("allow")
    BY <2>1, <1>7, AllowEachBlock, SyscallFilterAssumption
  <2>3. 2 * i - 1 \in 1..Len(commands) /\ 2 * i \in 1..Len(commands)
    BY <2>1, <1>7
  <2>4. filter[Listing + (2 * i - 1)] = commands[2 * i - 1]
    BY <2>3, <1>20
  <2>5. filter[Listing + 2 * i] = commands[2 * i]
    BY <2>3, <1>20
  <2>6. Listing + (2 * i - 1) = Listing + 2 * i - 1
    BY DEF Listing, Fcntl, Tgkill
  <2>7. QED
    BY <2>2, <2>4, <2>5, <2>6
<1>22. filter[Last + 1] = RETURN("deny")
  <2>1. filter[Listing + (2 * Len(Commands) + 1)] = end[1]
    BY <1>7, <1>20
  <2>2. Listing + (2 * Len(Commands) + 1) = Last + 1
    BY DEF Last, Listing, Fcntl, Tgkill
  <2>3. QED
    BY <2>1, <2>2 DEF end
<1>23. QED
  BY <1>13, <1>14, <1>15, <1>17, <1>19, <1>21, <1>22
-----------------------------------------------------------------------------
(* What the machine does at an instruction.                                *)

LEMMA LoadStep ==
    ASSUME Next, verdict = "none", NEW field, filter[pc] = LOAD(field)
    PROVE  /\ accumulator' = data[field]
           /\ pc' = pc + 1
           /\ data' = data
           /\ verdict' = "none"
  BY DEF Next, Load, Jump, Return, Fetches, LOAD, instruction

LEMMA EqualStep ==
    ASSUME Next, verdict = "none", NEW jt \in Nat, NEW jf \in Nat, NEW k,
           filter[pc] = EQUAL(jt, jf, k)
    PROVE  /\ accumulator = k => pc' = pc + 1 + jt
           /\ accumulator # k => pc' = pc + 1 + jf
           /\ accumulator' = accumulator
           /\ data' = data
           /\ verdict' = "none"
  BY DEF Next, Load, Jump, Return, Fetches, EQUAL, instruction

LEMMA ReturnStep ==
    ASSUME Next, verdict = "none", NEW action, filter[pc] = RETURN(action)
    PROVE  /\ verdict' = action
           /\ pc' = pc
           /\ data' = data
  BY DEF Next, Load, Jump, Return, Fetches, RETURN, instruction

-----------------------------------------------------------------------------
(* What is known of a system call at each instruction.                     *)

AtArch ==
    \/ pc = 1
    \/ pc = 2 /\ accumulator = data["arch"]
    \/ pc = 3 /\ data["arch"] # ARCH
    \/ pc = 4 /\ data["arch"] = ARCH

\* None of the first entries of a list is the number.
NotBefore(list, i, number) == \A j \in 1..(i - 1) : list[j] # number

AtAllowed ==
    /\ data["arch"] = ARCH
    /\ \E i \in 1..Len(Allowed) :
          \/ /\ pc = 4 + 2 * i - 1
             /\ accumulator = data["nr"]
             /\ NotBefore(Allowed, i, data["nr"])
          \/ pc = 4 + 2 * i /\ data["nr"] = Allowed[i]

Unlisted == data["arch"] = ARCH /\ ~Listed(Allowed, data["nr"])

AtTgkill ==
    /\ Unlisted
    /\ \/ pc = Tgkill + 1 /\ accumulator = data["nr"]
       \/ /\ data["nr"] = SYS_tgkill
          /\ \/ pc = Tgkill + 2
             \/ pc = Tgkill + 3 /\ accumulator = data["arg0"]
             \/ pc = Tgkill + 4 /\ data["arg0"] # Pid
             \/ pc = Tgkill + 5 /\ data["arg0"] = Pid

AtFcntl ==
    /\ Unlisted
    /\ data["nr"] # SYS_tgkill
    /\ \/ pc = Fcntl + 1 /\ accumulator = data["nr"]
       \/ pc = Fcntl + 2 /\ data["nr"] # SYS_fcntl
       \/ pc = Fcntl + 3 /\ data["nr"] = SYS_fcntl

AtCommands ==
    /\ Unlisted
    /\ data["nr"] = SYS_fcntl
    /\ \E i \in 1..Len(Commands) :
          \/ /\ pc = Listing + 2 * i - 1
             /\ accumulator = data["arg1"]
             /\ NotBefore(Commands, i, data["arg1"])
          \/ pc = Listing + 2 * i /\ data["arg1"] = Commands[i]

AtLast ==
    /\ Unlisted
    /\ data["nr"] = SYS_fcntl
    /\ ~Listed(Commands, data["arg1"])
    /\ pc = Last + 1

Reached == AtArch \/ AtAllowed \/ AtTgkill \/ AtFcntl \/ AtCommands \/ AtLast

IInv ==
    /\ pc \in 1..(Last + 1)
    /\ verdict = "none" => Reached
    /\ verdict # "none" => verdict = Policy(data)

LEMMA Positions ==
    /\ Tgkill \in Nat
    /\ Fcntl \in Nat
    /\ Listing \in Nat
    /\ Last \in Nat
    /\ Tgkill = 4 + 2 * Len(Allowed)
    /\ Fcntl = Tgkill + 5
    /\ Listing = Fcntl + 3
    /\ Last = Listing + 2 * Len(Commands)
  BY Counts DEF Tgkill, Fcntl, Listing, Last

\* The entries of a list end where none of them is the number.
LEMMA ListEnds ==
    ASSUME NEW list \in Seq(Int), NEW number, NotBefore(list, Len(list) + 1, number)
    PROVE  ~Listed(list, number)
  BY DEF NotBefore, Listed

LEMMA ListGoesOn ==
    ASSUME NEW list, NEW i \in Nat, NEW number,
           NotBefore(list, i, number), list[i] # number
    PROVE  NotBefore(list, i + 1, number)
<1>1. \A j \in 1..((i + 1) - 1) : j \in 1..(i - 1) \/ j = i
  OBVIOUS
<1>2. QED
  BY <1>1 DEF NotBefore

\* A step takes any verdict to a verdict, or to what is known further on.
LEMMA Outcome ==
    ASSUME pc' \in 1..(Last + 1),
           \/ verdict' = "none" /\ Reached'
           \/ verdict' = Policy(data') /\ verdict' # "none"
    PROVE  IInv'
  BY DEF IInv

LEMMA PolicyIsVerdict == ASSUME NEW d PROVE Policy(d) # "none"
  BY DEF Policy

LEMMA FromArch ==
    ASSUME IInv, Next, verdict = "none", AtArch
    PROVE  IInv'
<1> USE Positions, Counts
<1>1. CASE pc = 1
  <2>1. accumulator' = data["arch"] /\ pc' = pc + 1 /\ data' = data /\ verdict' = "none"
    BY <1>1, Layout, LoadStep
  <2>2. AtArch' /\ pc' \in 1..(Last + 1)
    BY <1>1, <2>1 DEF AtArch
  <2>3. QED
    BY <2>1, <2>2, Outcome DEF Reached
<1>2. CASE pc = 2 /\ accumulator = data["arch"]
  <2>1. /\ accumulator = ARCH => pc' = 2 + 1 + 1
        /\ accumulator # ARCH => pc' = 2 + 1 + 0
        /\ data' = data
        /\ verdict' = "none"
    BY <1>2, Layout, EqualStep
  <2>2. AtArch' /\ pc' \in 1..(Last + 1)
    BY <1>2, <2>1 DEF AtArch
  <2>3. QED
    BY <2>1, <2>2, Outcome DEF Reached
<1>3. CASE pc = 3 /\ data["arch"] # ARCH
  <2>1. pc' = pc /\ verdict' = "kill" /\ data' = data
    BY <1>3, Layout, ReturnStep
  <2>2. verdict' = Policy(data')
    BY <1>3, <2>1 DEF Policy
  <2>3. QED
    BY <1>3, <2>1, <2>2, Outcome
<1>4. CASE pc = 4 /\ data["arch"] = ARCH
  <2>1. pc' = 5 /\ accumulator' = data["nr"] /\ data' = data /\ verdict' = "none"
    BY <1>4, Layout, LoadStep
  <2>2. NotBefore(Allowed, 1, data["nr"])
    BY DEF NotBefore
  <2>3. CASE Len(Allowed) = 0
    <3>1. ~Listed(Allowed, data["nr"])
      BY <2>3, SyscallFilterAssumption DEF Listed
    <3>2. AtTgkill'
      BY <1>4, <2>1, <2>3, <3>1 DEF AtTgkill, Unlisted
    <3>3. QED
      BY <2>1, <3>2, Outcome DEF Reached
  <2>4. CASE Len(Allowed) # 0
    <3>1. 1 \in 1..Len(Allowed) /\ 5 = 4 + 2 * 1 - 1
      BY <2>4
    <3>2. AtAllowed'
      BY <1>4, <2>1, <2>2, <3>1 DEF AtAllowed
    <3>3. QED
      BY <2>1, <3>2, Outcome DEF Reached
  <2>5. QED
    BY <2>3, <2>4
<1>5. QED
  BY <1>1, <1>2, <1>3, <1>4 DEF AtArch

LEMMA FromAllowed ==
    ASSUME IInv, Next, verdict = "none", AtAllowed
    PROVE  IInv'
<1> USE Positions, Counts
<1>1. PICK i \in 1..Len(Allowed) :
          \/ /\ pc = 4 + 2 * i - 1
             /\ accumulator = data["nr"]
             /\ NotBefore(Allowed, i, data["nr"])
          \/ pc = 4 + 2 * i /\ data["nr"] = Allowed[i]
  BY DEF AtAllowed
<1>2. data["arch"] = ARCH
  BY DEF AtAllowed
<1>3. /\ filter[4 + 2 * i - 1] = EQUAL(0, 1, Allowed[i])
      /\ filter[4 + 2 * i] = RETURN("allow")
  BY Layout
<1>4. CASE pc = 4 + 2 * i /\ data["nr"] = Allowed[i]
  <2>1. pc' = pc /\ verdict' = "allow" /\ data' = data
    BY <1>3, <1>4, ReturnStep
  <2>2. Listed(Allowed, data["nr"])
    BY <1>4 DEF Listed
  <2>3. verdict' = Policy(data')
    BY <1>2, <2>1, <2>2 DEF Policy
  <2>4. QED
    BY <2>1, <2>3, Outcome DEF IInv
<1>5. CASE pc = 4 + 2 * i - 1 /\ accumulator = data["nr"] /\ NotBefore(Allowed, i, data["nr"])
  <2>1. /\ accumulator = Allowed[i] => pc' = (4 + 2 * i - 1) + 1 + 0
        /\ accumulator # Allowed[i] => pc' = (4 + 2 * i - 1) + 1 + 1
        /\ accumulator' = accumulator
        /\ data' = data
        /\ verdict' = "none"
    BY <1>3, <1>5, EqualStep
  <2>2. CASE accumulator = Allowed[i]
    <3>1. pc' = 4 + 2 * i /\ pc' \in 1..(Last + 1)
      BY <2>1, <2>2
    <3>2. AtAllowed'
      BY <1>2, <1>5, <2>1, <2>2, <3>1 DEF AtAllowed
    <3>3. QED
      BY <2>1, <3>1, <3>2, Outcome DEF Reached
  <2>3. CASE accumulator # Allowed[i]
    <3>1. NotBefore(Allowed, i + 1, data["nr"])
      BY <1>5, <2>3, ListGoesOn
    <3>2. pc' = 4 + 2 * (i + 1) - 1 /\ pc' \in 1..(Last + 1)
      BY <2>1, <2>3
    <3>3. CASE i = Len(Allowed)
      <4>1. ~Listed(Allowed, data["nr"])
        BY <3>1, <3>3, ListEnds, SyscallFilterAssumption
      <4>2. AtTgkill'
        BY <1>2, <1>5, <2>1, <3>2, <3>3, <4>1 DEF AtTgkill, Unlisted
      <4>3. QED
        BY <2>1, <3>2, <4>2, Outcome DEF Reached
    <3>4. CASE i # Len(Allowed)
      <4>1. i + 1 \in 1..Len(Allowed)
        BY <3>4
      <4>2. AtAllowed'
        BY <1>2, <1>5, <2>1, <3>1, <3>2, <4>1 DEF AtAllowed
      <4>3. QED
        BY <2>1, <3>2, <4>2, Outcome DEF Reached
    <3>5. QED
      BY <3>3, <3>4
  <2>4. QED
    BY <2>2, <2>3
<1>6. QED
  BY <1>1, <1>4, <1>5

LEMMA FromTgkill ==
    ASSUME IInv, Next, verdict = "none", AtTgkill
    PROVE  IInv'
<1> USE Positions, Counts
<1>1. CASE pc = Tgkill + 1 /\ accumulator = data["nr"]
  <2>1. /\ accumulator = SYS_tgkill => pc' = (Tgkill + 1) + 1 + 0
        /\ accumulator # SYS_tgkill => pc' = (Tgkill + 1) + 1 + 4
        /\ accumulator' = accumulator
        /\ data' = data
        /\ verdict' = "none"
    BY <1>1, Layout, EqualStep
  <2>2. CASE accumulator = SYS_tgkill
    <3>1. AtTgkill' /\ pc' \in 1..(Last + 1)
      BY <1>1, <2>1, <2>2 DEF AtTgkill, Unlisted
    <3>2. QED
      BY <2>1, <3>1, Outcome DEF Reached
  <2>3. CASE accumulator # SYS_tgkill
    <3>1. AtFcntl' /\ pc' \in 1..(Last + 1)
      BY <1>1, <2>1, <2>3 DEF AtTgkill, AtFcntl, Unlisted
    <3>2. QED
      BY <2>1, <3>1, Outcome DEF Reached
  <2>4. QED
    BY <2>2, <2>3
<1>2. CASE pc = Tgkill + 2 /\ data["nr"] = SYS_tgkill
  <2>1. /\ pc' = Tgkill + 3
        /\ accumulator' = data["arg0"]
        /\ data' = data
        /\ verdict' = "none"
    BY <1>2, Layout, LoadStep
  <2>2. AtTgkill' /\ pc' \in 1..(Last + 1)
    BY <1>2, <2>1 DEF AtTgkill, Unlisted
  <2>3. QED
    BY <2>1, <2>2, Outcome DEF Reached
<1>3. CASE pc = Tgkill + 3 /\ accumulator = data["arg0"] /\ data["nr"] = SYS_tgkill
  <2>1. /\ accumulator = Pid => pc' = (Tgkill + 3) + 1 + 1
        /\ accumulator # Pid => pc' = (Tgkill + 3) + 1 + 0
        /\ data' = data
        /\ verdict' = "none"
    BY <1>3, Layout, EqualStep
  <2>2. AtTgkill' /\ pc' \in 1..(Last + 1)
    BY <1>3, <2>1 DEF AtTgkill, Unlisted
  <2>3. QED
    BY <2>1, <2>2, Outcome DEF Reached
<1>4. CASE pc = Tgkill + 4 /\ data["arg0"] # Pid /\ data["nr"] = SYS_tgkill
  <2>1. pc' = pc /\ verdict' = "deny" /\ data' = data
    BY <1>4, Layout, ReturnStep
  <2>2. verdict' = Policy(data')
    BY <1>4, <2>1 DEF Policy, AtTgkill, Unlisted
  <2>3. QED
    BY <2>1, <2>2, Outcome DEF IInv
<1>5. CASE pc = Tgkill + 5 /\ data["arg0"] = Pid /\ data["nr"] = SYS_tgkill
  <2>1. pc' = pc /\ verdict' = "allow" /\ data' = data
    BY <1>5, Layout, ReturnStep
  <2>2. verdict' = Policy(data')
    BY <1>5, <2>1 DEF Policy, AtTgkill, Unlisted
  <2>3. QED
    BY <2>1, <2>2, Outcome DEF IInv
<1>6. QED
  BY <1>1, <1>2, <1>3, <1>4, <1>5 DEF AtTgkill

LEMMA FromFcntl ==
    ASSUME IInv, Next, verdict = "none", AtFcntl
    PROVE  IInv'
<1> USE Positions, Counts
<1>1. CASE pc = Fcntl + 1 /\ accumulator = data["nr"]
  <2>1. /\ accumulator = SYS_fcntl => pc' = (Fcntl + 1) + 1 + 1
        /\ accumulator # SYS_fcntl => pc' = (Fcntl + 1) + 1 + 0
        /\ data' = data
        /\ verdict' = "none"
    BY <1>1, Layout, EqualStep
  <2>2. AtFcntl' /\ pc' \in 1..(Last + 1)
    BY <1>1, <2>1 DEF AtFcntl, Unlisted
  <2>3. QED
    BY <2>1, <2>2, Outcome DEF Reached
<1>2. CASE pc = Fcntl + 2 /\ data["nr"] # SYS_fcntl
  <2>1. pc' = pc /\ verdict' = "deny" /\ data' = data
    BY <1>2, Layout, ReturnStep
  <2>2. verdict' = Policy(data')
    BY <1>2, <2>1 DEF Policy, AtFcntl, Unlisted
  <2>3. QED
    BY <2>1, <2>2, Outcome DEF IInv
<1>3. CASE pc = Fcntl + 3 /\ data["nr"] = SYS_fcntl
  <2>1. /\ pc' = Listing + 1
        /\ accumulator' = data["arg1"]
        /\ data' = data
        /\ verdict' = "none"
    BY <1>3, Layout, LoadStep
  <2>2. NotBefore(Commands, 1, data["arg1"])
    BY DEF NotBefore
  <2>3. CASE Len(Commands) = 0
    <3>1. ~Listed(Commands, data["arg1"])
      BY <2>3, SyscallFilterAssumption DEF Listed
    <3>2. AtLast' /\ pc' \in 1..(Last + 1)
      BY <1>3, <2>1, <2>3, <3>1 DEF AtFcntl, AtLast, Unlisted
    <3>3. QED
      BY <2>1, <3>2, Outcome DEF Reached
  <2>4. CASE Len(Commands) # 0
    <3>1. 1 \in 1..Len(Commands) /\ Listing + 1 = Listing + 2 * 1 - 1
      BY <2>4
    <3>2. AtCommands' /\ pc' \in 1..(Last + 1)
      BY <1>3, <2>1, <2>2, <3>1 DEF AtFcntl, AtCommands, Unlisted
    <3>3. QED
      BY <2>1, <3>2, Outcome DEF Reached
  <2>5. QED
    BY <2>3, <2>4
<1>4. QED
  BY <1>1, <1>2, <1>3 DEF AtFcntl

LEMMA FromCommands ==
    ASSUME IInv, Next, verdict = "none", AtCommands
    PROVE  IInv'
<1> USE Positions, Counts
<1>1. PICK i \in 1..Len(Commands) :
          \/ /\ pc = Listing + 2 * i - 1
             /\ accumulator = data["arg1"]
             /\ NotBefore(Commands, i, data["arg1"])
          \/ pc = Listing + 2 * i /\ data["arg1"] = Commands[i]
  BY DEF AtCommands
<1>2. Unlisted /\ data["nr"] = SYS_fcntl
  BY DEF AtCommands
<1>3. /\ filter[Listing + 2 * i - 1] = EQUAL(0, 1, Commands[i])
      /\ filter[Listing + 2 * i] = RETURN("allow")
  BY Layout
<1>4. CASE pc = Listing + 2 * i /\ data["arg1"] = Commands[i]
  <2>1. pc' = pc /\ verdict' = "allow" /\ data' = data
    BY <1>3, <1>4, ReturnStep
  <2>2. Listed(Commands, data["arg1"])
    BY <1>4 DEF Listed
  <2>3. verdict' = Policy(data')
    BY <1>2, <2>1, <2>2, SyscallFilterAssumption DEF Policy, Unlisted
  <2>4. QED
    BY <2>1, <2>3, Outcome DEF IInv
<1>5. CASE pc = Listing + 2 * i - 1 /\ accumulator = data["arg1"] /\ NotBefore(Commands, i, data["arg1"])
  <2>1. /\ accumulator = Commands[i] => pc' = (Listing + 2 * i - 1) + 1 + 0
        /\ accumulator # Commands[i] => pc' = (Listing + 2 * i - 1) + 1 + 1
        /\ accumulator' = accumulator
        /\ data' = data
        /\ verdict' = "none"
    BY <1>3, <1>5, EqualStep
  <2>2. CASE accumulator = Commands[i]
    <3>1. pc' = Listing + 2 * i /\ pc' \in 1..(Last + 1)
      BY <2>1, <2>2
    <3>2. AtCommands'
      BY <1>2, <1>5, <2>1, <2>2, <3>1 DEF AtCommands, Unlisted
    <3>3. QED
      BY <2>1, <3>1, <3>2, Outcome DEF Reached
  <2>3. CASE accumulator # Commands[i]
    <3>1. NotBefore(Commands, i + 1, data["arg1"])
      BY <1>5, <2>3, ListGoesOn
    <3>2. pc' = Listing + 2 * (i + 1) - 1 /\ pc' \in 1..(Last + 1)
      BY <2>1, <2>3
    <3>3. CASE i = Len(Commands)
      <4>1. ~Listed(Commands, data["arg1"])
        BY <3>1, <3>3, ListEnds, SyscallFilterAssumption
      <4>2. AtLast'
        BY <1>2, <1>5, <2>1, <3>2, <3>3, <4>1 DEF AtLast, Unlisted
      <4>3. QED
        BY <2>1, <3>2, <4>2, Outcome DEF Reached
    <3>4. CASE i # Len(Commands)
      <4>1. i + 1 \in 1..Len(Commands)
        BY <3>4
      <4>2. AtCommands'
        BY <1>2, <1>5, <2>1, <3>1, <3>2, <4>1 DEF AtCommands, Unlisted
      <4>3. QED
        BY <2>1, <3>2, <4>2, Outcome DEF Reached
    <3>5. QED
      BY <3>3, <3>4
  <2>4. QED
    BY <2>2, <2>3
<1>6. QED
  BY <1>1, <1>4, <1>5

LEMMA FromLast ==
    ASSUME IInv, Next, verdict = "none", AtLast
    PROVE  IInv'
<1>1. pc' = pc /\ verdict' = "deny" /\ data' = data
  BY Layout, ReturnStep DEF AtLast
<1>2. verdict' = Policy(data')
  BY <1>1, SyscallFilterAssumption DEF Policy, AtLast, Unlisted
<1>3. QED
  BY <1>1, <1>2, Outcome DEF IInv

-----------------------------------------------------------------------------
LEMMA Initially == Init => IInv
  BY Positions DEF Init, IInv, Reached, AtArch

LEMMA Step == IInv /\ [Next]_vars => IInv'
<1> SUFFICES ASSUME IInv, [Next]_vars PROVE IInv'
  OBVIOUS
<1>1. CASE UNCHANGED vars
  BY <1>1 DEF vars, IInv, Reached, AtArch, AtAllowed, AtTgkill, AtFcntl, AtCommands,
              AtLast, Unlisted, NotBefore, Listed, Policy
<1>2. CASE Next /\ verdict = "none"
  BY <1>2, FromArch, FromAllowed, FromTgkill, FromFcntl, FromCommands, FromLast
     DEF IInv, Reached
<1>3. Next => verdict = "none"
  BY DEF Next, Load, Jump, Return, Fetches
<1>4. QED
  BY <1>1, <1>2, <1>3

\* Whatever the lists are, the program restrict_syscalls puts together decides
\* each system call as its comments ask, and never runs off its end.
THEOREM FilterIsPolicy == Spec => []VerdictIsPolicy
<1>1. IInv => VerdictIsPolicy
  BY Layout DEF IInv, VerdictIsPolicy
<1>2. QED
  BY <1>1, Initially, Step, PTL DEF Spec
=============================================================================
