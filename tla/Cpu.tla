--------------------------------- MODULE Cpu ---------------------------------
(***************************************************************************)
(* The emulated processor: the loading of a program, and the loop          *)
(* fetch - decode - execute of main (src/emu4380.cpp:401-467, 520-541,     *)
(* 1021-2132, src/main.cpp:89-109) over the memory of MemSystem.tla.       *)
(*                                                                         *)
(* One step is one call of fetch or decode, or of the function that        *)
(* executes an instruction; the two traps that loop over a string take a   *)
(* step for each character.  `stage' says what the emulator does next:     *)
(*    "load"                  before load_binary                           *)
(*    "fetch", "decode", "execute"   the three calls of the loop           *)
(*    "print", "store"        inside the loops of traps 5 and 6            *)
(*    "done"                  trap 0 was executed, main returned 0         *)
(*    "refused"               main returned because nothing was loaded     *)
(*    "invalid"               invalidInstruction called exit(1)            *)
(*    "trapped"               the host processor raised a signal           *)
(* A process that the memory brought down is in ms.host.                   *)
(***************************************************************************)
EXTENDS Isa, SequencesExt

CONSTANTS Files,        \* the files the emulator may be given
          InitBytes,    \* what malloc leaves in program memory
          Inputs,       \* what may come in on stdin, sequences of characters
          ZeroChar,     \* the character 0 (48); the other digits follow it
          Newline,      \* the end of a line (10)
          Blanks        \* the other characters that operator>> skips

ASSUME CpuAssumption ==
  /\ MemSize < ValMod
  /\ Files \subseteq [opens : BOOLEAN, reads : BOOLEAN, bytes : Seq(Byte)]
  /\ InitBytes \subseteq [Alloc -> Byte]
  /\ Inputs \subseteq Seq(Byte)
  /\ ZeroChar \in Nat /\ ZeroChar + 9 < ByteMod
  /\ Newline \in Byte /\ Blanks \subseteq Byte

VARIABLES file,      \* the file named on the command line
          reg,       \* reg_file
          cntrl,     \* cntrl_regs
          data,      \* data_regs
          ms,        \* program memory and cache
          stage,     \* what the emulator does next
          text, pos, \* the string of a trap and the place its loop is at
          stdin,     \* what is left to read
          stdout     \* what the program wrote: <<kind, value>>, in order, without
                     \* the MISS lines handleCacheMiss writes in between

vars == <<file, reg, cntrl, data, ms, stage, text, pos, stdin, stdout>>

Stages == {"load", "fetch", "decode", "execute", "print", "store",
           "done", "refused", "invalid", "trapped"}

NoData == [val1 |-> 0, val2 |-> 0]

(* init_registers and init_mem.                                             *)
Init == /\ file \in Files
        /\ reg = [r \in Reg |-> IF r \in {SB, SP, FP} THEN MemSize ELSE 0]
        /\ cntrl = [op |-> 0, o1 |-> 0, o2 |-> 0, o3 |-> 0, imm |-> 0]
        /\ data = NoData
        /\ \E bytes \in InitBytes : ms = InitMem(bytes)
        /\ stage = "load"
        /\ text = <<>> /\ pos = 0
        /\ stdin \in Inputs /\ stdout = <<>>

-----------------------------------------------------------------------------
(* load_binary.                                                             *)

FirstWord(bytes) == WordVal([i \in WordIdx |-> bytes[i + 1]])

LoadResult(f) ==
  IF ~f.opens THEN 1
  ELSE IF Len(f.bytes) > MemSize \/ Len(f.bytes) < WordSize THEN 2
  ELSE IF ~f.reads THEN 3
  ELSE IF FirstWord(f.bytes) >= MemSize THEN 4
  ELSE 0

(* Program memory with the first n bytes of a file in it.                   *)
WithBytes(bytes, n) ==
  [ms EXCEPT !.prog_mem = [a \in Alloc |-> IF a < n THEN bytes[a + 1] ELSE ms.prog_mem[a]]]

(* main gives up on the first two results only.                             *)
LoadRefused ==
  /\ stage = "load"
  /\ LoadResult(file) \in {1, 2}
  /\ stage' = "refused"
  /\ UNCHANGED <<file, reg, cntrl, data, ms, text, pos, stdin, stdout>>

(* With any other it runs: what was read, from the registers as they are.   *)
LoadIncomplete ==
  /\ stage = "load"
  /\ \/ LoadResult(file) = 3 /\ \E n \in 0..Len(file.bytes) : ms' = WithBytes(file.bytes, n)
     \/ LoadResult(file) = 4 /\ ms' = WithBytes(file.bytes, Len(file.bytes))
  /\ stage' = "fetch"
  /\ UNCHANGED <<file, reg, cntrl, data, text, pos, stdin, stdout>>

LoadProgram ==
  /\ stage = "load"
  /\ LoadResult(file) = 0
  /\ ms' = WithBytes(file.bytes, Len(file.bytes))
  /\ reg' = [reg EXCEPT ![SB] = MemSize, ![SP] = MemSize,
                        ![SL] = Len(file.bytes), ![HP] = Len(file.bytes),
                        ![PC] = FirstWord(file.bytes)]
  /\ stage' = "fetch"
  /\ UNCHANGED <<file, cntrl, data, text, pos, stdin, stdout>>

-----------------------------------------------------------------------------
(* fetch and decode.                                                        *)

Alive == ms.host = "ok"

InstrSize == 2 * WordSize
CanFetch == AddrInRange(reg[PC], InstrSize)

Fetch ==
  /\ stage = "fetch" /\ Alive /\ CanFetch
  /\ \E junk1 \in JunkWords(reg[PC]), junk2 \in JunkWords(reg[PC] + WordSize) :
       LET first  == ReadWord(ms, reg[PC], FALSE, junk1)
           second == ReadWord(first, reg[PC] + WordSize, CacheType = 0, junk2)
       IN  /\ ms' = second
           /\ cntrl' = Control(first.out, second.out)
  /\ reg' = [reg EXCEPT ![PC] = Wrap(@ + InstrSize)]
  /\ stage' = "decode"
  /\ UNCHANGED <<file, data, text, pos, stdin, stdout>>

Decode ==
  /\ stage = "decode" /\ Alive
  /\ Decodes(cntrl)
  /\ data' = DataRegs(cntrl, reg, data)
  /\ stage' = "execute"
  /\ UNCHANGED <<file, reg, cntrl, ms, text, pos, stdin, stdout>>

(* A false from fetch or decode ends in invalidInstruction.                 *)
Malformed ==
  /\ Alive
  /\ \/ stage = "fetch" /\ ~CanFetch
     \/ stage = "decode" /\ ~Decodes(cntrl)
  /\ stage' = "invalid"
  /\ UNCHANGED <<file, reg, cntrl, data, ms, text, pos, stdin, stdout>>

-----------------------------------------------------------------------------
(* execute.  `op', `rd', `imm' and the data registers are what the          *)
(* functions of the code start from.                                        *)

op  == Mnemonic(cntrl.op)
rd  == cntrl.o1
imm == cntrl.imm
val1 == data.val1
val2 == data.val2
Operand == IF op \in {"ADDI", "SUBI", "MULI", "DIVI", "CMPI"} THEN imm ELSE val2

(* (A mutant forgets the stack.) *)
HeapFits_memory(newHP) == newHP <= MemSize
HeapFits(newHP) == newHP <= reg[SP] /\ newHP <= MemSize

(* The early returns of false, of every function that has one before it     *)
(* changes anything.  A byte stored indirectly must have four bytes of      *)
(* room, ALCI adds in 64 bits, and ALLC adds in 32.                         *)
Accepted ==
  /\ op \in Branches \cup {"STR", "LDR"} => AddrInRange(imm, WordSize)
  /\ op \in {"STB", "LDB"}               => AddrInRange(imm, 1)
  /\ op \in {"ISTR", "ISTB"}             => AddrInRange(val2, WordSize)
  /\ op \in {"ILDR", "IALLC"}            => AddrInRange(val1, WordSize)
  /\ op = "ILDB"                         => AddrInRange(val1, 1)
  /\ op \in Arithmetic                   => ~DividesByZero(op, Operand)
  /\ op = "ALCI"                         => HeapFits(reg[HP] + imm)
  /\ op = "ALLC"                         => Wrap(imm + 3) <= MemSize

Executes(ops) == stage = "execute" /\ Alive /\ op \in ops /\ Accepted

SetReg(r, v) == reg' = [reg EXCEPT ![r] = v]
NextInstruction == stage' = "fetch"
Invalid == stage' = "invalid"
NoTrap == UNCHANGED <<text, pos, stdin, stdout>>
NoFetch == UNCHANGED <<file, cntrl, data>>

Refuse ==
  /\ stage = "execute" /\ Alive /\ ~Accepted
  /\ Invalid
  /\ UNCHANGED <<reg, ms>> /\ NoFetch /\ NoTrap

Jump ==
  /\ Executes({"JMP", "JMR"})
  /\ SetReg(PC, IF op = "JMP" THEN imm ELSE val1)
  /\ NextInstruction
  /\ UNCHANGED ms /\ NoFetch /\ NoTrap

Branch ==
  /\ Executes(Branches)
  /\ SetReg(PC, IF Taken(op, val1) THEN imm ELSE reg[PC])
  /\ NextInstruction
  /\ UNCHANGED ms /\ NoFetch /\ NoTrap

Move ==
  /\ Executes({"MOV", "MOVI", "LDA"})
  /\ SetReg(rd, IF op = "MOV" THEN val1 ELSE imm)
  /\ NextInstruction
  /\ UNCHANGED ms /\ NoFetch /\ NoTrap

Compute ==
  /\ Executes(Arithmetic)
  /\ ~DivisionTraps(op, val1, Operand)
  /\ SetReg(rd, Result(op, val1, Operand))
  /\ NextInstruction
  /\ UNCHANGED ms /\ NoFetch /\ NoTrap

(* The host divides as it is told to, and takes a signal.                   *)
DivisionFault ==
  /\ Executes(Arithmetic)
  /\ DivisionTraps(op, val1, Operand)
  /\ stage' = "trapped"
  /\ UNCHANGED <<reg, ms>> /\ NoFetch /\ NoTrap

LoadAddr == IF op \in {"LDR", "LDB"} THEN imm ELSE val1
StoreAddr == IF op \in {"STR", "STB"} THEN imm ELSE val2

LoadRegister ==
  /\ \/ /\ Executes({"LDR", "ILDR"})
        /\ \E junk \in JunkWords(LoadAddr) : ms' = ReadWord(ms, LoadAddr, FALSE, junk)
     \/ /\ Executes({"LDB", "ILDB"})
        /\ ms' = ReadByte(ms, LoadAddr)
  /\ SetReg(rd, WordVal(ms'.out))
  /\ NextInstruction
  /\ NoFetch /\ NoTrap

StoreRegister ==
  /\ \/ /\ Executes({"STR", "ISTR"})
        /\ ms' = WriteWord(ms, StoreAddr, ValWord(val1))
     \/ /\ Executes({"STB", "ISTB"})
        /\ ms' = WriteByte(ms, StoreAddr, ByteWord(val1 % ByteMod))
  /\ NextInstruction
  /\ UNCHANGED reg /\ NoFetch /\ NoTrap

(* The heap.  ALLC and IALLC read the size from memory and add in 32 bits,  *)
(* so the check of what they read comes after the read.                     *)
SizeAddr == IF op = "ALLC" THEN imm ELSE val1

Allocate(newHP) == /\ reg' = [reg EXCEPT ![rd] = reg[HP], ![HP] = newHP]
                   /\ NextInstruction

(* (A mutant loads the register before it looks whether there is room.) *)
NoRoom_loaded == Invalid /\ SetReg(rd, reg[HP])
NoRoom == Invalid /\ UNCHANGED reg

AllocateImmediate ==
  /\ Executes({"ALCI"})
  /\ Allocate(reg[HP] + imm)
  /\ UNCHANGED ms /\ NoFetch /\ NoTrap

AllocateFromMemory ==
  /\ Executes({"ALLC", "IALLC"})
  /\ \E junk \in JunkWords(SizeAddr) : ms' = ReadWord(ms, SizeAddr, FALSE, junk)
  /\ LET newHP == Wrap(reg[HP] + WordVal(ms'.out)) IN
     \/ HeapFits(newHP) /\ Allocate(newHP)
     \/ ~HeapFits(newHP) /\ NoRoom
  /\ NoFetch /\ NoTrap

(* The stack.  updateSP exits where the new top is outside the limits.      *)
StackHolds(r, sp) == r[SL] <= sp /\ sp <= r[SB]
StackWidth == IF op \in {"PSHR", "POPR"} THEN WordSize ELSE 1

Pushed(newSP) ==
  IF op = "PSHR" THEN WriteWord(ms, newSP, ValWord(val1))
  ELSE WriteByte(ms, newSP, ByteWord(val1 % ByteMod))

Push ==
  /\ Executes({"PSHR", "PSHB"})
  /\ LET newSP == Wrap(reg[SP] - StackWidth) IN
     \/ /\ StackHolds(reg, newSP)
        /\ SetReg(SP, newSP)
        /\ ms' = Pushed(newSP)
        /\ NextInstruction
     \/ /\ ~StackHolds(reg, newSP)
        /\ Invalid
        /\ UNCHANGED <<reg, ms>>
  /\ NoFetch /\ NoTrap

(* The register is loaded before the limits are looked at, and may be one.  *)
Pop ==
  /\ Executes({"POPR", "POPB"})
  /\ IF op = "POPR"
     THEN \E junk \in JunkWords(reg[SP]) : ms' = ReadWord(ms, reg[SP], FALSE, junk)
     ELSE ms' = ReadByte(ms, reg[SP])
  /\ LET newSP  == Wrap(reg[SP] + StackWidth)
         loaded == [reg EXCEPT ![rd] = WordVal(ms'.out)]
     IN  \/ /\ StackHolds(loaded, newSP)
            /\ reg' = [loaded EXCEPT ![SP] = newSP]
            /\ NextInstruction
         \/ /\ ~StackHolds(loaded, newSP)
            /\ reg' = loaded
            /\ Invalid
  /\ NoFetch /\ NoTrap

(* The return address is on the stack before the target is looked at.       *)
Call ==
  /\ Executes({"CALL"})
  /\ LET newSP == Wrap(reg[SP] - WordSize)
         room  == newSP >= reg[SL] /\ newSP + WordSize <= reg[SB]
     IN  \/ /\ room
            /\ ms' = WriteWord(ms, newSP, ValWord(reg[PC]))
            /\ \/ /\ ValidAddr(imm)
                  /\ reg' = [reg EXCEPT ![SP] = newSP, ![PC] = imm]
                  /\ NextInstruction
               \/ ~ValidAddr(imm) /\ SetReg(SP, newSP) /\ Invalid
         \/ ~room /\ Invalid /\ UNCHANGED <<reg, ms>>
  /\ NoFetch /\ NoTrap

(* (A mutant does not take the address off the stack.)                      *)
Return_kept ==
  /\ Executes({"RET"})
  /\ \E junk \in JunkWords(reg[SP]) : ms' = ReadWord(ms, reg[SP], FALSE, junk)
  /\ IF reg[SP] + WordSize <= reg[SB] /\ ValidAddr(WordVal(ms'.out))
     THEN SetReg(PC, WordVal(ms'.out)) /\ NextInstruction
     ELSE Invalid /\ UNCHANGED reg
  /\ NoFetch /\ NoTrap

(* The return address is read before the limits are looked at.              *)
Return ==
  /\ Executes({"RET"})
  /\ \E junk \in JunkWords(reg[SP]) : ms' = ReadWord(ms, reg[SP], FALSE, junk)
  /\ LET newSP    == Wrap(reg[SP] + WordSize)
         returnPC == WordVal(ms'.out)
         inStack  == newSP <= reg[SB] /\ reg[SP] >= reg[SL]
     IN  \/ /\ inStack /\ ValidAddr(returnPC)
            /\ reg' = [reg EXCEPT ![SP] = newSP, ![PC] = returnPC]
            /\ NextInstruction
         \/ inStack /\ ~ValidAddr(returnPC) /\ SetReg(SP, newSP) /\ Invalid
         \/ ~inStack /\ Invalid /\ UNCHANGED reg
  /\ NoFetch /\ NoTrap

-----------------------------------------------------------------------------
(* TRP.                                                                     *)

Trap(n) == Executes({"TRP"}) /\ imm = n

(* Trap 0: runBool is cleared and main returns.  Dirty lines stay in the    *)
(* cache, which is freed.                                                   *)
TrapStop ==
  /\ Trap(0)
  /\ stage' = "done"
  /\ UNCHANGED <<reg, ms>> /\ NoFetch /\ NoTrap

TrapWrite ==
  /\ \/ Trap(1) /\ stdout' = Append(stdout, <<"int", reg[R3]>>)
     \/ Trap(3) /\ stdout' = Append(stdout, <<"char", reg[R3] % ByteMod>>)
     \/ Trap(98) /\ stdout' = Append(stdout, <<"registers", reg>>)
  /\ NextInstruction
  /\ UNCHANGED <<reg, ms, text, pos, stdin>> /\ NoFetch

Digits == ZeroChar..(ZeroChar + 9)

(* How many characters at the head of a sequence are in a set, and what     *)
(* follows them.                                                            *)
Run(s, chars) == First({i \in 1..Len(s)+1 : i = Len(s) + 1 \/ s[i] \notin chars}) - 1
After(s, n) == SubSeq(s, n + 1, Len(s))
SkipBlanks(s) == After(s, Run(s, Blanks \cup {Newline}))

Number(digits) ==
  LET value[n \in 0..Len(digits)] ==
        IF n = 0 THEN 0 ELSE 10 * value[n - 1] + (digits[n] - ZeroChar)
  IN  value[Len(digits)]

(* cin >> inInt: blanks are skipped and digits read, as far as they go.     *)
TrapReadInt ==
  /\ Trap(2)
  /\ LET rest == SkipBlanks(stdin)
         n    == Run(rest, Digits)
         v    == Number(SubSeq(rest, 1, n))
     IN  \/ /\ n > 0 /\ v \in Val
            /\ SetReg(R3, v) /\ stdin' = After(rest, n)
            /\ NextInstruction
         \/ ~(n > 0 /\ v \in Val) /\ Invalid /\ UNCHANGED <<reg, stdin>>
  /\ UNCHANGED <<ms, text, pos, stdout>> /\ NoFetch

(* cin >> inChar: a char is signed, and is sign-extended into the register. *)
TrapReadChar ==
  /\ Trap(4)
  /\ LET rest == SkipBlanks(stdin) IN
     \/ /\ rest # <<>>
        /\ SetReg(R3, IF 2 * Head(rest) >= ByteMod THEN ValMod - ByteMod + Head(rest)
                      ELSE Head(rest))
        /\ stdin' = Tail(rest)
        /\ NextInstruction
     \/ rest = <<>> /\ Invalid /\ UNCHANGED <<reg, stdin>>
  /\ UNCHANGED <<ms, text, pos, stdout>> /\ NoFetch

(* Where the character i of the string at R3 is; the length is before it.   *)
(* (A mutant counts the characters from 0.) *)
CharAddr_fromzero(i) == Wrap(reg[R3] + i + 1)
CharAddr(i) == Wrap(reg[R3] + i)

(* What readByte hands on of the word it got.                               *)
ByteOut(m) == WordVal(m.out) % ByteMod

(* Trap 5: the length is read, as a byte, then a character at a time is     *)
(* read and written, then the terminator is looked at.  `text' is the       *)
(* length.                                                                  *)
TrapPrint ==
  /\ Trap(5)
  /\ ms' = ReadByte(ms, CharAddr(0))
  /\ text' = <<ByteOut(ms')>> /\ pos' = 1
  /\ stage' = "print"
  /\ UNCHANGED <<reg, stdin, stdout>> /\ NoFetch

PrintChar ==
  /\ stage = "print" /\ Alive /\ pos <= text[1]
  /\ ms' = ReadByte(ms, CharAddr(pos))
  /\ stdout' = Append(stdout, <<"char", ByteOut(ms')>>)
  /\ pos' = pos + 1
  /\ UNCHANGED <<reg, stage, text, stdin>> /\ NoFetch

PrintEnd ==
  /\ stage = "print" /\ Alive /\ pos > text[1]
  /\ ms' = ReadByte(ms, CharAddr(text[1] + 1))
  /\ stage' = IF ByteOut(ms') = 0 THEN "fetch" ELSE "invalid"
  /\ text' = <<>> /\ pos' = 0
  /\ UNCHANGED <<reg, stdin, stdout>> /\ NoFetch

(* Trap 6: a line is read, wherever the input stands, and stored with its   *)
(* length, a byte, in front and a null after it.  `text' is what to store.  *)
TrapReadLine ==
  /\ Trap(6)
  /\ LET n == Run(stdin, Byte \ {Newline}) IN
     \/ /\ stdin # <<>>
        /\ text' = <<n % ByteMod>> \o SubSeq(stdin, 1, n) \o <<0>> /\ pos' = 1
        /\ stdin' = After(stdin, n + 1)
        /\ stage' = "store"
     \/ stdin = <<>> /\ Invalid /\ UNCHANGED <<text, pos, stdin>>
  /\ UNCHANGED <<reg, ms, stdout>> /\ NoFetch

(* (A mutant stays at the character it stored.)                             *)
StoreChar_stuck ==
  /\ stage = "store" /\ Alive
  /\ ms' = WriteByte(ms, CharAddr(pos - 1), ByteWord(text[pos]))
  /\ UNCHANGED <<reg, stage, text, pos, stdin, stdout>> /\ NoFetch

StoreChar ==
  /\ stage = "store" /\ Alive
  /\ ms' = WriteByte(ms, CharAddr(pos - 1), ByteWord(text[pos]))
  /\ \/ /\ pos < Len(text)
        /\ pos' = pos + 1
        /\ UNCHANGED <<stage, text>>
     \/ /\ pos = Len(text)
        /\ stage' = "fetch" /\ text' = <<>> /\ pos' = 0
  /\ UNCHANGED <<reg, stdin, stdout>> /\ NoFetch

(* The process has ended.                                                   *)
Ended == /\ stage \in {"done", "refused", "invalid", "trapped"} \/ ~Alive
         /\ UNCHANGED vars

Next == \/ LoadRefused \/ LoadIncomplete \/ LoadProgram
        \/ Fetch \/ Decode \/ Malformed \/ Refuse
        \/ Jump \/ Branch \/ Move \/ Compute \/ DivisionFault
        \/ LoadRegister \/ StoreRegister
        \/ AllocateImmediate \/ AllocateFromMemory
        \/ Push \/ Pop \/ Call \/ Return
        \/ TrapStop \/ TrapWrite \/ TrapReadInt \/ TrapReadChar
        \/ TrapPrint \/ PrintChar \/ PrintEnd \/ TrapReadLine \/ StoreChar
        \/ Ended

Spec == Init /\ [][Next]_vars

(* The emulator is one thread that nothing blocks.                          *)
FairSpec == Spec /\ WF_vars(Next)

-----------------------------------------------------------------------------
(* What a program does, for the conditions some theorems are under.         *)

(* The words the next step accesses through a cache lie within a line each. *)
(* Those that do not are not read and written as they are in memory.        *)
WordsInLines ==
  LET Within(a) == CacheType # 0 => ~Straddles(a) IN
  /\ stage = "fetch" => Within(reg[PC]) /\ Within(reg[PC] + WordSize)
  /\ stage = "execute" =>
       /\ op \in {"LDR", "ILDR"}   => Within(LoadAddr)
       /\ op \in {"STR", "ISTR"}   => Within(StoreAddr)
       /\ op \in {"ALLC", "IALLC"} => Within(SizeAddr)
       /\ op \in {"PSHR", "CALL"}  => Within(Wrap(reg[SP] - WordSize))
       /\ op \in {"POPR", "RET"}   => Within(reg[SP])

(* The instructions that write the register they name.                      *)
WritesRegister ==
  {"MOV", "MOVI", "LDA", "LDR", "LDB", "ILDR", "ILDB", "ALCI", "ALLC", "IALLC", "POPR", "POPB"}
    \cup Arithmetic

(* The addresses it stores to.                                              *)
StoresTo ==
  LET WordAt(a) == a..a+WordSize-1 IN
  CASE stage = "execute" /\ op \in {"STR", "ISTR"}  -> WordAt(StoreAddr)
    [] stage = "execute" /\ op \in {"STB", "ISTB"}  -> {StoreAddr}
    [] stage = "execute" /\ op \in {"PSHR", "CALL"} -> WordAt(Wrap(reg[SP] - WordSize))
    [] stage = "execute" /\ op = "PSHB"             -> {Wrap(reg[SP] - 1)}
    [] stage = "store"                              -> {CharAddr(pos - 1)}
    [] OTHER                                        -> {}

-----------------------------------------------------------------------------
(* The state keeps its shape.                                               *)
TypeOK == /\ file.bytes \in Seq(Byte)
          /\ reg \in [Reg -> Val]
          /\ cntrl \in ControlRegs
          /\ data \in [val1 : Val, val2 : Val]
          /\ ms \in MemState
          /\ stage \in Stages
          /\ text \in Seq(Byte) /\ pos \in Nat
          /\ stdin \in Seq(Byte)
          /\ stdout \in Seq({"int", "char"} \X Val \cup {"registers"} \X [Reg -> Val])

(* HP grows upward (README.md:24): only an instruction that names HP as its *)
(* destination can move it down, and an allocation cannot.                  *)
HeapGrows == [][reg'[HP] < reg[HP] => stage = "execute" /\ rd = HP]_vars

(* An allocation does not reach into the stack, or past the memory.         *)
HeapBelowStack == [][reg'[HP] > reg[HP] /\ stage = "execute" /\ rd # HP =>
                       reg'[HP] <= reg[SP] /\ reg'[HP] <= MemSize]_vars

(* execute returns false without executing the instruction                  *)
(* (emu4380.h:181): what invalidInstruction dumps is the state before it.   *)
(* The calls, returns and pops that exit themselves are not promised this.  *)
RefusalHasNoEffect ==
  [][/\ stage \in {"decode", "execute"} /\ stage' = "invalid"
     /\ op \notin {"CALL", "RET", "POPR", "POPB"}
     => (reg' = reg /\ View(ms') = View(ms))]_vars

(* No division brings the emulator down: execute answers false to an        *)
(* illegal operation.                                                       *)
NoHostSignal == stage # "trapped"

(* When trap 6 is through, the line it read is in memory, whole: its length, *)
(* which counts neither the newline nor the terminator, its characters and  *)
(* the terminator, as far as the memory goes.                               *)
StringStored ==
  [][stage = "store" /\ stage' = "fetch" =>
       \A i \in 1..Len(text) : LET a == Wrap(reg[R3] + i - 1)
                               IN  ValidAddr(a) => ViewAt(ms', a) = text[i]]_vars

(* The length byte trap 6 stores counts the terminator: test.cpp:969 expects *)
(* it to be one more than the length of the line, and test.cpp:975 the null *)
(* at the address of the length byte plus the length.                       *)
LengthCountsTerminator ==
  [][stage = "store" /\ stage' = "fetch" /\ ValidAddr(reg[R3]) =>
       LET end == Wrap(reg[R3] + ViewAt(ms', reg[R3]))
       IN  ValidAddr(end) => ViewAt(ms', end) = 0]_vars

(* The characters trap 5 is through with.                                   *)
CharsDone == IF stage = "print" THEN pos - 1 ELSE 0

(* From the instruction to its end, with or without a terminator, trap 5    *)
(* writes a character for each it is through with and takes nothing back,   *)
(* and when it ends it is through with as many as the length byte says, and *)
(* they are the bytes after it, in order.                                   *)
StringPrinted ==
  [][/\ stage' = "print" =>
          /\ IsPrefix(stdout, stdout')
          /\ Len(stdout') - Len(stdout) = CharsDone' - CharsDone
     /\ stage = "print" /\ stage' # "print" =>
          /\ stdout' = stdout
          /\ CharsDone = text[1] /\ text[1] <= Len(stdout)
          /\ \A i \in 1..text[1] :
               LET a == Wrap(reg[R3] + i)
               IN  ValidAddr(a) =>
                     stdout[Len(stdout) - text[1] + i] = <<"char", ViewAt(ms, a)>>]_vars

(* Every instruction that is started comes to an end, the loops of the      *)
(* string traps included.                                                   *)
InstructionsFinish ==
  stage = "execute" ~> (stage \in {"fetch", "done", "invalid", "trapped"} \/ ~Alive)
=============================================================================
