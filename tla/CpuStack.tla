------------------------------ MODULE CpuStack ------------------------------
(***************************************************************************)
(* The stack of a running program, against a history of what was pushed,   *)
(* for programs that leave SP, SL and SB to the stack instructions and do  *)
(* not store into the stack.                                               *)
(***************************************************************************)
EXTENDS Cpu

VARIABLE pushed      \* the bytes pushed and not yet popped, the latest first

stackVars == <<vars, pushed>>

BytesOf(v, n) == [i \in 1..n |-> ValWord(v)[i - 1]]

(* What an instruction that completes does to the history.                  *)
History ==
  IF ~(stage = "execute" /\ stage' = "fetch" /\ Alive') THEN pushed
  ELSE IF op = "PSHR" THEN BytesOf(val1, WordSize) \o pushed
  ELSE IF op = "PSHB" THEN BytesOf(val1, 1) \o pushed
  ELSE IF op = "CALL" THEN BytesOf(reg[PC], WordSize) \o pushed
  ELSE IF op \in {"POPR", "RET"} THEN SubSeq(pushed, WordSize + 1, Len(pushed))
  ELSE IF op = "POPB" THEN SubSeq(pushed, 2, Len(pushed))
  ELSE pushed

StackInit == Init /\ pushed = <<>>
StackNext == Next /\ pushed' = History
StackSpec == StackInit /\ [][StackNext]_stackVars

-----------------------------------------------------------------------------
(* Between SP and SB lies what was pushed and not popped, through calls,    *)
(* allocations, loads and the evictions all of them cause.                  *)
StackHoldsPushed ==
  stage = "fetch" /\ Alive /\ reg[SB] # 0 =>
    /\ reg[SP] + Len(pushed) = reg[SB]
    /\ \A i \in 1..Len(pushed) : ViewAt(ms, reg[SP] + i - 1) = pushed[i]

(* RET goes back to the instruction after the call it matches, and POPR     *)
(* loads the word pushed last.                                              *)
ReturnsToCaller ==
  [][stage = "execute" /\ stage' = "fetch" /\ op \in {"RET", "POPR"} =>
       /\ Len(pushed) >= WordSize
       /\ BytesOf(IF op = "RET" THEN reg'[PC] ELSE reg'[rd], WordSize)
            = SubSeq(pushed, 1, WordSize)]_stackVars

-----------------------------------------------------------------------------
(* The same processor without a cache and without a clock: its memory is    *)
(* what the processor sees of this one.                                     *)
PlainMem(m) ==
  [prog_mem |-> View(m),
   cache    |-> [s \in 0..NumCacheLines-1 |-> [w \in {0} |-> BadLine]],
   cycles   |-> 0, out |-> m.out, host |-> m.host]

Plain == INSTANCE Cpu WITH CacheType <- 0, CycleMod <- 1, ms <- PlainMem(ms)

(* A program cannot tell whether there is a cache: every step it takes with *)
(* one is a step of the processor without, until it touches what is not     *)
(* memory, where the cached accesses have no check to stop at.  Its output  *)
(* is the program's own, stdout without the MISS lines between.             *)
CacheIsTransparent == Plain!Init /\ [][Alive' => Plain!Next]_vars

(* The program leaves SP and SB to the stack instructions, and stores       *)
(* nowhere between them.                                                    *)
LeavesStackAlone ==
  LET Apart(a, n) == a + n <= reg[SP] \/ reg[SB] <= a IN
  /\ stage = "execute" =>
       /\ op \in WritesRegister => rd \notin {SP, SB}
       /\ op \in {"STR", "ISTR"} => Apart(StoreAddr, WordSize)
       /\ op \in {"STB", "ISTB"} => Apart(StoreAddr, 1)
  /\ stage = "store" => Apart(CharAddr(pos - 1), 1)
=============================================================================
