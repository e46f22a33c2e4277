-------------------------- MODULE Toolchain_proofs --------------------------
(***************************************************************************)
(* If the assembler writes the image that a source means, then the         *)
(* emulator runs that source: what it decodes is an instruction of the     *)
(* source and PC is behind it, through whatever cache, for programs that   *)
(* stay in their code and leave it alone.                                  *)
(*                                                                         *)
(* First, where a source has its bytes in its image; there the recursive   *)
(* definitions of SourceImage.tla are unfolded.  Then, that the bytes of   *)
(* the instructions are in memory from the loading on, and that PC is at   *)
(* one of them whenever fetch is next.                                     *)
(***************************************************************************)
EXTENDS Toolchain, Assembler_proofs

(* The constants of the two programs.                                       *)
LEMMA ToolConstants ==
  /\ WordSize = 4 /\ ByteMod \in Nat /\ ByteMod > 40
  /\ MemSize \in Nat /\ MemSize < Source!ValMod
BY ToolAssumption DEF Emu!MemAssumption, Emu!IsaAssumption, Emu!CpuAssumption, Emu!ValMod, Source!ValMod

-----------------------------------------------------------------------------
(* The emulator is the processor of Cpu.tla, on the output file; what is    *)
(* proved of the one is so of the other, whose definitions are the same.    *)
Proc == INSTANCE Cpu_proofs WITH file <- BinFile(output), pos <- emuPos,
                                 Files <- {BinFile(<< >>)}

(* Its constants are as it needs them: those of the memory,                 *)
LEMMA ProcMemory == Proc!MemAssumption
BY ToolAssumption DEF Emu!MemAssumption, Proc!MemAssumption
(* of the instructions,                                                     *)
LEMMA ProcIsa == Proc!IsaAssumption
BY ToolAssumption DEF Emu!IsaAssumption, Proc!IsaAssumption
(* and of the processor.                                                    *)
LEMMA ProcCpu == Proc!CpuAssumption
BY ToolAssumption DEF Emu!CpuAssumption, Proc!CpuAssumption,
   Emu!ValMod, Proc!ValMod, Emu!Byte, Proc!Byte, Emu!Alloc, Proc!Alloc, Emu!AllocSize,
   Proc!AllocSize, Emu!NumBlocks, Proc!NumBlocks

(* The cache is the same,                                                   *)
LEMMA SameCache ==
  /\ Emu!Blocks = Proc!Blocks
  /\ \A S : Emu!First(S) = Proc!First(S)
  /\ \A set, tag : Emu!HitWays(set, tag) = Proc!HitWays(set, tag)
  /\ \A set : Emu!Victim(set) = Proc!Victim(set)
  /\ \A a : Emu!Block(a) = Proc!Block(a)
  /\ \A a : Emu!TagBits(a) = Proc!TagBits(a)
  /\ \A a : Emu!SetIdx(a) = Proc!SetIdx(a)
  /\ \A a : Emu!Offset(a) = Proc!Offset(a)
  /\ \A m, s, w, offset, acc : Emu!HandleCacheHit(m, s, w, offset, acc) = Proc!HandleCacheHit(m, s, w, offset, acc)
  /\ \A m, s, w, a, acc : Emu!Fill(m, s, w, a, acc) = Proc!Fill(m, s, w, a, acc)
  /\ \A m, s, w : Emu!WriteBack(m, s, w) = Proc!WriteBack(m, s, w)
  /\ \A m, s, w, a, acc : Emu!HandleCacheMiss(m, s, w, a, acc) = Proc!HandleCacheMiss(m, s, w, a, acc)
  /\ \A m, a, acc : Emu!CheckCache(m, a, acc) = Proc!CheckCache(m, a, acc)
<1>1. /\ Emu!Blocks = Proc!Blocks
      /\ \A S : Emu!First(S) = Proc!First(S)
      /\ \A set, tag : Emu!HitWays(set, tag) = Proc!HitWays(set, tag)
      /\ \A set : Emu!Victim(set) = Proc!Victim(set)
  BY Zenon DEF Emu!Blocks, Proc!Blocks, Emu!NumBlocks, Proc!NumBlocks, Emu!First, Proc!First,
     Emu!HitWays, Proc!HitWays, Emu!Ways, Proc!Ways, Emu!Associativity, Proc!Associativity,
     Emu!Victim, Proc!Victim, Emu!EmptyWays, Proc!EmptyWays, Emu!OldestWays, Proc!OldestWays
<1>2. /\ \A a : Emu!Block(a) = Proc!Block(a)
      /\ \A a : Emu!TagBits(a) = Proc!TagBits(a)
  BY DEF Emu!Block, Proc!Block, Emu!TagBits, Proc!TagBits, Emu!NumSets, Proc!NumSets,
     Emu!Associativity, Proc!Associativity
<1>3. /\ \A a : Emu!SetIdx(a) = Proc!SetIdx(a)
      /\ \A a : Emu!Offset(a) = Proc!Offset(a)
  BY DEF Emu!SetIdx, Proc!SetIdx, Emu!Block, Proc!Block, Emu!NumSets, Proc!NumSets,
     Emu!Associativity, Proc!Associativity, Emu!Offset, Proc!Offset
<1>4. \A m, s, w, offset, acc : Emu!HandleCacheHit(m, s, w, offset, acc) = Proc!HandleCacheHit(m, s, w, offset, acc)
  BY DEF Emu!HandleCacheHit, Proc!HandleCacheHit, Emu!Associativity, Proc!Associativity,
     Emu!IsWrite, Proc!IsWrite, Emu!LineWrite, Proc!LineWrite, Emu!Offsets, Proc!Offsets, Emu!Width,
     Proc!Width, Emu!LastUsedWrite, Proc!LastUsedWrite, Emu!SetLine, Proc!SetLine, Emu!Tick,
     Proc!Tick, Emu!LineWord, Proc!LineWord, Emu!WordIdx, Proc!WordIdx
<1>5. \A m, s, w, a, acc : Emu!Fill(m, s, w, a, acc) = Proc!Fill(m, s, w, a, acc)
  BY Zenon DEF Emu!Fill, Proc!Fill, Emu!Tick, Proc!Tick, Emu!BlockCycles, Proc!BlockCycles,
     Emu!SetLine, Proc!SetLine, Emu!TagBits, Proc!TagBits, Emu!Block, Proc!Block, Emu!NumSets,
     Proc!NumSets, Emu!Associativity, Proc!Associativity, Emu!IsWrite, Proc!IsWrite, Emu!Offsets,
     Proc!Offsets, Emu!BlockBase, Proc!BlockBase
<1>6. \A m, s, w : Emu!WriteBack(m, s, w) = Proc!WriteBack(m, s, w)
  <2>1. /\ \A s, tag : Emu!WritebackAddr(s, tag) = Proc!WritebackAddr(s, tag)
        /\ Emu!Alloc = Proc!Alloc
    BY Zenon DEF Emu!WritebackAddr, Proc!WritebackAddr, Emu!WritebackBlock, Proc!WritebackBlock,
       Emu!NumSets, Proc!NumSets, Emu!Associativity, Proc!Associativity, Emu!Alloc, Proc!Alloc,
       Emu!AllocSize, Proc!AllocSize, Emu!NumBlocks, Proc!NumBlocks
  <2>2. \A m, s, w, line : Emu!SetLine(m, s, w, line) = Proc!SetLine(m, s, w, line)
    BY Zenon DEF Emu!SetLine, Proc!SetLine
  <2>3. \A n : Emu!Tick(n, Emu!BlockCycles) = Proc!Tick(n, Proc!BlockCycles)
    BY Zenon DEF Emu!Tick, Proc!Tick, Emu!BlockCycles, Proc!BlockCycles
  <2>4. SUFFICES ASSUME NEW m, NEW s, NEW w PROVE Emu!WriteBack(m, s, w) = Proc!WriteBack(m, s, w)
    OBVIOUS
  <2> DEFINE line == m.cache[s][w]
             base == Emu!WritebackAddr(s, line.tag)
             clean == Emu!SetLine(m, s, w, [line EXCEPT !.dirty = FALSE])
             mem == [a \in Emu!Alloc |-> IF a \in base..(base + BlockSize - 1)
                                         THEN line.data[a - base] ELSE m.prog_mem[a]]
  <2>5. clean = Proc!SetLine(m, s, w, [line EXCEPT !.dirty = FALSE]) BY <2>2
  <2>6. mem = [a \in Proc!Alloc |-> IF a \in Proc!WritebackAddr(s, line.tag)..(Proc!WritebackAddr(s, line.tag) + BlockSize - 1)
                                    THEN line.data[a - Proc!WritebackAddr(s, line.tag)] ELSE m.prog_mem[a]]
    BY <2>1, Zenon
  <2>7. Emu!WriteBack(m, s, w) =
          IF ~(line.valid /\ line.dirty) THEN m
          ELSE [clean EXCEPT !.cycles = Emu!Tick(clean.cycles, Emu!BlockCycles), !.prog_mem = mem]
    BY Zenon DEF Emu!WriteBack
  <2>8. Emu!Tick(clean.cycles, Emu!BlockCycles) = Proc!Tick(clean.cycles, Proc!BlockCycles) BY <2>3
  <2>9. Proc!WriteBack(m, s, w) =
          IF ~(line.valid /\ line.dirty) THEN m
          ELSE [clean EXCEPT !.cycles = Proc!Tick(clean.cycles, Proc!BlockCycles), !.prog_mem = mem]
    <3> HIDE DEF clean, mem
    <3> QED BY <2>5, <2>6, Zenon DEF Proc!WriteBack
  <2> QED BY <2>7, <2>8, <2>9
<1>7. \A m, s, w, a, acc : Emu!HandleCacheMiss(m, s, w, a, acc) = Proc!HandleCacheMiss(m, s, w, a, acc)
  BY <1>3, <1>4, <1>5, <1>6 DEF Emu!HandleCacheMiss, Proc!HandleCacheMiss
<1>8. \A m, a, acc : Emu!CheckCache(m, a, acc) = Proc!CheckCache(m, a, acc)
  BY <1>1, <1>2, <1>3, <1>4, <1>7 DEF Emu!CheckCache, Proc!CheckCache
<1> QED BY <1>1, <1>2, <1>3, <1>4, <1>5, <1>6, <1>7, <1>8

(* and so is what goes through it, or past it,                              *)
LEMMA SameAccess ==
  /\ \A m, a : Emu!ReadByte(m, a) = Proc!ReadByte(m, a)
  /\ \A m, a, second, junk : Emu!ReadWord(m, a, second, junk) = Proc!ReadWord(m, a, second, junk)
  /\ \A m, a, word : Emu!WriteByte(m, a, word) = Proc!WriteByte(m, a, word)
  /\ \A m, a, word : Emu!WriteWord(m, a, word) = Proc!WriteWord(m, a, word)
  /\ \A a : Emu!JunkWords(a) = Proc!JunkWords(a)
  /\ \A m, a : Emu!ViewAt(m, a) = Proc!ViewAt(m, a)
<1>1. \A m, a : Emu!ReadByte(m, a) = Proc!ReadByte(m, a)
  BY SameCache, Zenon DEF Emu!ReadByte, Proc!ReadByte, Emu!Access, Proc!Access, Emu!ZeroWord,
     Proc!ZeroWord, Emu!ByteWord, Proc!ByteWord, Emu!WordIdx, Proc!WordIdx, Emu!Load, Proc!Load,
     Emu!Spend, Proc!Spend, Emu!Tick, Proc!Tick, Emu!AddrInRange, Proc!AddrInRange
<1>2. \A m, a, second, junk : Emu!ReadWord(m, a, second, junk) = Proc!ReadWord(m, a, second, junk)
  BY SameCache, Zenon DEF Emu!ReadWord, Proc!ReadWord, Emu!Access, Proc!Access, Emu!ZeroWord,
     Proc!ZeroWord, Emu!ByteWord, Proc!ByteWord, Emu!WordIdx, Proc!WordIdx, Emu!Load, Proc!Load,
     Emu!Spend, Proc!Spend, Emu!Tick, Proc!Tick, Emu!AddrInRange, Proc!AddrInRange, Emu!AllOnes,
     Proc!AllOnes
<1>3. \A m, a, word : Emu!WriteByte(m, a, word) = Proc!WriteByte(m, a, word)
  BY SameCache DEF Emu!WriteByte, Proc!WriteByte, Emu!Access, Proc!Access, Emu!ZeroWord,
     Proc!ZeroWord, Emu!ByteWord, Proc!ByteWord, Emu!WordIdx, Proc!WordIdx, Emu!AddrInRange,
     Proc!AddrInRange, Emu!Spend, Proc!Spend, Emu!Tick, Proc!Tick
<1>4. \A m, a, word : Emu!WriteWord(m, a, word) = Proc!WriteWord(m, a, word)
  BY SameCache, Zenon DEF Emu!WriteWord, Proc!WriteWord, Emu!Access, Proc!Access, Emu!ZeroWord,
     Proc!ZeroWord, Emu!ByteWord, Proc!ByteWord, Emu!WordIdx, Proc!WordIdx, Emu!AddrInRange,
     Proc!AddrInRange, Emu!Spend, Proc!Spend, Emu!Tick, Proc!Tick, Emu!Alloc, Proc!Alloc,
     Emu!AllocSize, Proc!AllocSize, Emu!NumBlocks, Proc!NumBlocks
<1>5. \A a : Emu!JunkWords(a) = Proc!JunkWords(a)
  BY Zenon DEF Emu!JunkWords, Proc!JunkWords, Emu!Straddles, Proc!Straddles, Emu!Offset,
     Proc!Offset, Emu!Word, Proc!Word, Emu!WordIdx, Proc!WordIdx, Emu!Byte, Proc!Byte, Emu!ZeroWord,
     Proc!ZeroWord, Emu!ByteWord, Proc!ByteWord
<1>6. \A m, a : Emu!ViewAt(m, a) = Proc!ViewAt(m, a)
  BY Zenon DEF Emu!ViewAt, Proc!ViewAt, Emu!Hits, Proc!Hits, Emu!HitWays, Proc!HitWays, Emu!Ways,
     Proc!Ways, Emu!Associativity, Proc!Associativity, Emu!SetIdx, Proc!SetIdx, Emu!Block,
     Proc!Block, Emu!NumSets, Proc!NumSets, Emu!TagBits, Proc!TagBits, Emu!First, Proc!First,
     Emu!Offset, Proc!Offset
<1> QED BY <1>1, <1>2, <1>3, <1>4, <1>5, <1>6

(* and the instruction set.                                                 *)
LEMMA SameIsa ==
  /\ \A c : Emu!Decodes(c) <=> Proc!Decodes(c)
  /\ \A c, r, d : Emu!DataRegs(c, r, d) = Proc!DataRegs(c, r, d)
  /\ \A o, a, b : Emu!Result(o, a, b) = Proc!Result(o, a, b)
  /\ Emu!Accepted <=> Proc!Accepted
<1>1. \A c : Emu!Decodes(c) <=> Proc!Decodes(c)
  BY Zenon DEF Emu!Decodes, Proc!Decodes, Emu!op, Proc!op, Emu!Mnemonic, Proc!Mnemonic, Emu!Opcodes,
     Proc!Opcodes, Emu!ValidAddr, Proc!ValidAddr, Emu!imm, Proc!imm, Emu!Direct, Proc!Direct,
     Emu!ValidRg, Proc!ValidRg, Emu!Reg, Proc!Reg, Emu!Branches, Proc!Branches, Emu!Indirect,
     Proc!Indirect, Emu!StackOps, Proc!StackOps, Emu!Igr, Proc!Igr, Emu!HP, Proc!HP, Emu!RegAndImm,
     Proc!RegAndImm, Emu!ThreeRegs, Proc!ThreeRegs
<1>2. \A c, r, d : Emu!DataRegs(c, r, d) = Proc!DataRegs(c, r, d)
  BY DEF Emu!DataRegs, Proc!DataRegs, Emu!op, Proc!op, Emu!Mnemonic, Proc!Mnemonic, Emu!Opcodes,
     Proc!Opcodes, Emu!val1, Proc!val1, Emu!Branches, Proc!Branches, Emu!Arithmetic,
     Proc!Arithmetic, Emu!ThreeRegs, Proc!ThreeRegs, Emu!RegAndImm, Proc!RegAndImm, Emu!Compares,
     Proc!Compares, Emu!val2, Proc!val2
<1>3. \A o, a, b : Emu!Result(o, a, b) = Proc!Result(o, a, b)
  BY DEF Emu!Result, Proc!Result, Emu!op, Proc!op, Emu!Mnemonic, Proc!Mnemonic, Emu!Opcodes,
     Proc!Opcodes, Emu!Wrap, Proc!Wrap, Emu!ValMod, Proc!ValMod, Emu!Quotient, Proc!Quotient,
     Emu!Abs, Proc!Abs, Emu!Signed, Proc!Signed, Emu!Flag, Proc!Flag, Emu!Compares, Proc!Compares,
     Emu!Compared, Proc!Compared
<1>4. Emu!Accepted <=> Proc!Accepted
  BY Zenon DEF Emu!Accepted, Proc!Accepted, Emu!op, Proc!op, Emu!Mnemonic, Proc!Mnemonic,
     Emu!Opcodes, Proc!Opcodes, Emu!Branches, Proc!Branches, Emu!AddrInRange, Proc!AddrInRange,
     Emu!imm, Proc!imm, Emu!val2, Proc!val2, Emu!val1, Proc!val1, Emu!Arithmetic, Proc!Arithmetic,
     Emu!ThreeRegs, Proc!ThreeRegs, Emu!RegAndImm, Proc!RegAndImm, Emu!Compares, Proc!Compares,
     Emu!DividesByZero, Proc!DividesByZero, Emu!Operand, Proc!Operand, Emu!HeapFits, Proc!HeapFits,
     Emu!SP, Proc!SP, Emu!HP, Proc!HP, Emu!Wrap, Proc!Wrap, Emu!ValMod, Proc!ValMod
<1> QED BY <1>1, <1>2, <1>3, <1>4

(* Fetch reads twice.                                                       *)
LEMMA SameFetch == Emu!Fetch <=> Proc!Fetch
<1> DEFINE EmuFirst(j)      == Emu!ReadWord(ms, reg[16], FALSE, j)
           EmuSecond(j, k)  == Emu!ReadWord(EmuFirst(j), reg[16] + WordSize, CacheType = 0, k)
           EmuReads(j, k)   == ms' = EmuSecond(j, k) /\ cntrl' = Emu!Control(EmuFirst(j).out, EmuSecond(j, k).out)
           ProcFirst(j)     == Proc!ReadWord(ms, reg[16], FALSE, j)
           ProcSecond(j, k) == Proc!ReadWord(ProcFirst(j), reg[16] + WordSize, CacheType = 0, k)
           ProcReads(j, k)  == ms' = ProcSecond(j, k) /\ cntrl' = Proc!Control(ProcFirst(j).out, ProcSecond(j, k).out)
<1>1. \A j : EmuFirst(j) = ProcFirst(j) BY SameAccess
<1>2. \A j, k : EmuSecond(j, k) = ProcSecond(j, k) BY SameAccess
<1>3. \A f, s : Emu!Control(f, s) = Proc!Control(f, s)
  BY DEF Emu!Control, Proc!Control, Emu!WordVal, Proc!WordVal
<1>4. \A j, k : EmuReads(j, k) <=> ProcReads(j, k)
  <2> HIDE DEF EmuFirst, ProcFirst, EmuSecond, ProcSecond
  <2> QED BY <1>1, <1>2, <1>3
<1>5. \A a : Emu!JunkWords(a) = Proc!JunkWords(a) BY SameAccess
<1>6. /\ Emu!PC = 16 /\ Proc!PC = 16 /\ Emu!InstrSize = Proc!InstrSize
      /\ \A n : Emu!Wrap(n) = Proc!Wrap(n)
  BY DEF Emu!PC, Proc!PC, Emu!InstrSize, Proc!InstrSize, Emu!Wrap, Proc!Wrap, Emu!ValMod, Proc!ValMod
<1>7. (Emu!CanFetch <=> Proc!CanFetch) /\ (Emu!Alive <=> Proc!Alive)
  BY <1>6 DEF Emu!CanFetch, Proc!CanFetch, Emu!AddrInRange, Proc!AddrInRange, Emu!Alive, Proc!Alive
<1>8. Emu!Fetch <=>
        /\ stage = "fetch" /\ Emu!Alive /\ Emu!CanFetch
        /\ \E j \in Emu!JunkWords(reg[16]), k \in Emu!JunkWords(reg[16] + WordSize) : EmuReads(j, k)
        /\ reg' = [reg EXCEPT ![16] = Emu!Wrap(@ + Emu!InstrSize)]
        /\ stage' = "decode"
        /\ UNCHANGED <<BinFile(output), data, text, emuPos, stdin, stdout>>
  BY <1>6, Zenon DEF Emu!Fetch
<1>9. Proc!Fetch <=>
        /\ stage = "fetch" /\ Proc!Alive /\ Proc!CanFetch
        /\ \E j \in Proc!JunkWords(reg[16]), k \in Proc!JunkWords(reg[16] + WordSize) : ProcReads(j, k)
        /\ reg' = [reg EXCEPT ![16] = Proc!Wrap(@ + Proc!InstrSize)]
        /\ stage' = "decode"
        /\ UNCHANGED <<BinFile(output), data, text, emuPos, stdin, stdout>>
  BY <1>6, Zenon DEF Proc!Fetch
<1> HIDE DEF EmuReads, ProcReads
<1> QED BY <1>4, <1>5, <1>6, <1>7, <1>8, <1>9

(* Its steps are those of the processor.                                    *)
LEMMA SameNext == Emu!Next <=> Proc!Next
<1> USE DEF Emu!Executes, Proc!Executes, Emu!Alive, Proc!Alive, Emu!op, Proc!op, Emu!Mnemonic,
   Proc!Mnemonic, Emu!Opcodes, Proc!Opcodes, Emu!rd, Proc!rd, Emu!imm, Proc!imm, Emu!val1,
   Proc!val1, Emu!val2, Proc!val2, Emu!SetReg, Proc!SetReg, Emu!NextInstruction,
   Proc!NextInstruction, Emu!Invalid, Proc!Invalid, Emu!NoTrap, Proc!NoTrap, Emu!NoFetch,
   Proc!NoFetch, Emu!PC, Proc!PC, Emu!SP, Proc!SP, Emu!SL, Proc!SL, Emu!SB, Proc!SB, Emu!HP,
   Proc!HP, Emu!R3, Proc!R3, Emu!WordIdx, Proc!WordIdx, Emu!Wrap, Proc!Wrap, Emu!ValMod,
   Proc!ValMod, Emu!WordVal, Proc!WordVal, Emu!ValWord, Proc!ValWord, Emu!ByteWord, Proc!ByteWord,
   Emu!CharAddr, Proc!CharAddr, Emu!ByteOut, Proc!ByteOut, Emu!Trap, Proc!Trap, Emu!AddrInRange,
   Proc!AddrInRange, Emu!InstrSize, Proc!InstrSize, Emu!JunkWords, Proc!JunkWords, Emu!Byte,
   Proc!Byte, Emu!Word, Proc!Word, Emu!Straddles, Proc!Straddles, Emu!Offset, Proc!Offset,
   Emu!ZeroWord, Proc!ZeroWord
<1>1. Emu!LoadRefused <=> Proc!LoadRefused
  BY Zenon DEF Emu!LoadRefused, Proc!LoadRefused, Emu!LoadResult, Proc!LoadResult, Emu!FirstWord,
     Proc!FirstWord
<1>2. Emu!LoadIncomplete <=> Proc!LoadIncomplete
  BY Zenon DEF Emu!LoadIncomplete, Proc!LoadIncomplete, Emu!LoadResult, Proc!LoadResult,
     Emu!FirstWord, Proc!FirstWord, Emu!WithBytes, Proc!WithBytes, Emu!Alloc, Proc!Alloc,
     Emu!AllocSize, Proc!AllocSize, Emu!NumBlocks, Proc!NumBlocks
<1>3. Emu!LoadProgram <=> Proc!LoadProgram
  BY Zenon DEF Emu!LoadProgram, Proc!LoadProgram, Emu!LoadResult, Proc!LoadResult, Emu!FirstWord,
     Proc!FirstWord, Emu!WithBytes, Proc!WithBytes, Emu!Alloc, Proc!Alloc, Emu!AllocSize,
     Proc!AllocSize, Emu!NumBlocks, Proc!NumBlocks
<1>4. Emu!Fetch <=> Proc!Fetch BY SameFetch
<1>5. Emu!Decode <=> Proc!Decode
  BY SameIsa, Zenon DEF Emu!Decode, Proc!Decode
<1>6. Emu!Malformed <=> Proc!Malformed
  BY SameIsa, Zenon DEF Emu!Malformed, Proc!Malformed, Emu!CanFetch, Proc!CanFetch
<1>7. Emu!Refuse <=> Proc!Refuse
  BY SameIsa, Zenon DEF Emu!Refuse, Proc!Refuse
<1>8. Emu!Jump <=> Proc!Jump
  BY SameIsa, Zenon DEF Emu!Jump, Proc!Jump
<1>9. Emu!Branch <=> Proc!Branch
  BY SameIsa, Zenon DEF Emu!Branch, Proc!Branch, Emu!Branches, Proc!Branches, Emu!Taken, Proc!Taken,
     Emu!Signed, Proc!Signed
<1>10. Emu!Move <=> Proc!Move
  BY SameIsa, Zenon DEF Emu!Move, Proc!Move
<1>11. Emu!Compute <=> Proc!Compute
  BY SameIsa, Zenon DEF Emu!Compute, Proc!Compute, Emu!Arithmetic, Proc!Arithmetic, Emu!ThreeRegs,
     Proc!ThreeRegs, Emu!RegAndImm, Proc!RegAndImm, Emu!Compares, Proc!Compares, Emu!DivisionTraps,
     Proc!DivisionTraps, Emu!Operand, Proc!Operand
<1>12. Emu!DivisionFault <=> Proc!DivisionFault
  BY SameIsa, Zenon DEF Emu!DivisionFault, Proc!DivisionFault, Emu!Arithmetic, Proc!Arithmetic,
     Emu!ThreeRegs, Proc!ThreeRegs, Emu!RegAndImm, Proc!RegAndImm, Emu!Compares, Proc!Compares,
     Emu!DivisionTraps, Proc!DivisionTraps, Emu!Operand, Proc!Operand
<1>13. Emu!LoadRegister <=> Proc!LoadRegister
  BY SameAccess, SameIsa, Zenon DEF Emu!LoadRegister, Proc!LoadRegister, Emu!LoadAddr, Proc!LoadAddr
<1>14. Emu!StoreRegister <=> Proc!StoreRegister
  BY SameAccess, SameIsa, Zenon DEF Emu!StoreRegister, Proc!StoreRegister, Emu!StoreAddr,
     Proc!StoreAddr
<1>15. Emu!AllocateImmediate <=> Proc!AllocateImmediate
  BY SameIsa, Zenon DEF Emu!AllocateImmediate, Proc!AllocateImmediate, Emu!Allocate, Proc!Allocate
<1>16. Emu!AllocateFromMemory <=> Proc!AllocateFromMemory
  BY SameAccess, SameIsa, Zenon DEF Emu!AllocateFromMemory, Proc!AllocateFromMemory, Emu!SizeAddr,
     Proc!SizeAddr, Emu!HeapFits, Proc!HeapFits, Emu!Allocate, Proc!Allocate, Emu!NoRoom,
     Proc!NoRoom
<1>17. Emu!Push <=> Proc!Push
  BY SameAccess, SameIsa, Zenon DEF Emu!Push, Proc!Push, Emu!StackWidth, Proc!StackWidth,
     Emu!StackHolds, Proc!StackHolds, Emu!Pushed, Proc!Pushed
<1>18. Emu!Pop <=> Proc!Pop
  BY SameAccess, SameIsa, Zenon DEF Emu!Pop, Proc!Pop, Emu!StackWidth, Proc!StackWidth,
     Emu!StackHolds, Proc!StackHolds
<1>19. Emu!Call <=> Proc!Call
  BY SameAccess, SameIsa, Zenon DEF Emu!Call, Proc!Call, Emu!ValidAddr, Proc!ValidAddr
<1>20. Emu!Return <=> Proc!Return
  BY SameAccess, SameIsa, Zenon DEF Emu!Return, Proc!Return, Emu!ValidAddr, Proc!ValidAddr
<1>21. Emu!TrapStop <=> Proc!TrapStop
  BY SameIsa, Zenon DEF Emu!TrapStop, Proc!TrapStop
<1>22. Emu!TrapWrite <=> Proc!TrapWrite
  BY SameIsa, Zenon DEF Emu!TrapWrite, Proc!TrapWrite
<1>23. Emu!TrapReadInt <=> Proc!TrapReadInt
  BY SameIsa, Zenon DEF Emu!TrapReadInt, Proc!TrapReadInt, Emu!SkipBlanks, Proc!SkipBlanks,
     Emu!After, Proc!After, Emu!Run, Proc!Run, Emu!First, Proc!First, Emu!Digits, Proc!Digits,
     Emu!Number, Proc!Number, Emu!Val, Proc!Val
<1>24. Emu!TrapReadChar <=> Proc!TrapReadChar
  BY SameIsa, Zenon DEF Emu!TrapReadChar, Proc!TrapReadChar, Emu!SkipBlanks, Proc!SkipBlanks,
     Emu!After, Proc!After, Emu!Run, Proc!Run, Emu!First, Proc!First
<1>25. Emu!TrapPrint <=> Proc!TrapPrint
  BY SameAccess, SameIsa, Zenon DEF Emu!TrapPrint, Proc!TrapPrint
<1>26. Emu!PrintChar <=> Proc!PrintChar
  BY SameAccess, Zenon DEF Emu!PrintChar, Proc!PrintChar
<1>27. Emu!PrintEnd <=> Proc!PrintEnd
  BY SameAccess, Zenon DEF Emu!PrintEnd, Proc!PrintEnd
<1>28. Emu!TrapReadLine <=> Proc!TrapReadLine
  BY SameIsa, Zenon DEF Emu!TrapReadLine, Proc!TrapReadLine, Emu!Run, Proc!Run, Emu!First,
     Proc!First, Emu!After, Proc!After
<1>29. Emu!StoreChar <=> Proc!StoreChar
  BY SameAccess, Zenon DEF Emu!StoreChar, Proc!StoreChar
<1>30. Emu!Ended <=> Proc!Ended
  BY Zenon DEF Emu!Ended, Proc!Ended, Emu!vars, Proc!vars
<1> QED BY <1>1, <1>2, <1>3, <1>4, <1>5, <1>6, <1>7, <1>8, <1>9, <1>10, <1>11, <1>12, <1>13, <1>14,
   <1>15, <1>16, <1>17, <1>18, <1>19, <1>20, <1>21, <1>22, <1>23, <1>24, <1>25, <1>26, <1>27, <1>28,
   <1>29, <1>30, Zenon DEF Emu!Next, Proc!Next

(* So are its initial states, and what its steps do.                        *)
LEMMA SameInit == Emu!Init <=> Proc!Init
BY Zenon DEF Emu!Init, Proc!Init, Emu!Reg, Proc!Reg, Emu!SB, Proc!SB, Emu!SP, Proc!SP, Emu!FP,
   Proc!FP, Emu!op, Proc!op, Emu!Mnemonic, Proc!Mnemonic, Emu!Opcodes, Proc!Opcodes, Emu!imm,
   Proc!imm, Emu!NoData, Proc!NoData, Emu!val1, Proc!val1, Emu!val2, Proc!val2, Emu!InitMem,
   Proc!InitMem, Emu!Sets, Proc!Sets, Emu!NumSets, Proc!NumSets, Emu!Associativity,
   Proc!Associativity, Emu!Ways, Proc!Ways, Emu!BadLine, Proc!BadLine, Emu!Offsets, Proc!Offsets,
   Emu!ZeroWord, Proc!ZeroWord, Emu!ByteWord, Proc!ByteWord, Emu!WordIdx, Proc!WordIdx

(* and what its steps access.                                               *)
LEMMA SameTouch ==
  /\ (Emu!WordsInLines <=> Proc!WordsInLines)
  /\ Emu!StoresTo = Proc!StoresTo
  /\ Emu!WritesRegister = Proc!WritesRegister /\ Emu!Branches = Proc!Branches
  /\ Emu!op = Proc!op /\ Emu!imm = Proc!imm /\ Emu!val1 = Proc!val1 /\ Emu!rd = Proc!rd
  /\ Emu!PC = Proc!PC /\ Emu!SP = Proc!SP /\ Emu!WordIdx = Proc!WordIdx
  /\ \A a, n : Emu!AddrInRange(a, n) <=> Proc!AddrInRange(a, n)
  /\ \A word : Emu!WordVal(word) = Proc!WordVal(word)
<1>1. (Emu!WordsInLines <=> Proc!WordsInLines)
  BY Zenon DEF Emu!WordsInLines, Proc!WordsInLines, Emu!Straddles, Proc!Straddles, Emu!Offset,
     Proc!Offset, Emu!PC, Proc!PC, Emu!op, Proc!op, Emu!Mnemonic, Proc!Mnemonic, Emu!Opcodes,
     Proc!Opcodes, Emu!LoadAddr, Proc!LoadAddr, Emu!imm, Proc!imm, Emu!val1, Proc!val1,
     Emu!StoreAddr, Proc!StoreAddr, Emu!val2, Proc!val2, Emu!SizeAddr, Proc!SizeAddr, Emu!Wrap,
     Proc!Wrap, Emu!ValMod, Proc!ValMod, Emu!SP, Proc!SP
<1>2. Emu!StoresTo = Proc!StoresTo
  BY DEF Emu!StoresTo, Proc!StoresTo, Emu!op, Proc!op, Emu!Mnemonic, Proc!Mnemonic, Emu!Opcodes,
     Proc!Opcodes, Emu!StoreAddr, Proc!StoreAddr, Emu!imm, Proc!imm, Emu!val2, Proc!val2, Emu!Wrap,
     Proc!Wrap, Emu!ValMod, Proc!ValMod, Emu!SP, Proc!SP, Emu!CharAddr, Proc!CharAddr, Emu!R3,
     Proc!R3
<1>3. Emu!WritesRegister = Proc!WritesRegister /\ Emu!Branches = Proc!Branches
  BY DEF Emu!WritesRegister, Proc!WritesRegister, Emu!Arithmetic, Proc!Arithmetic, Emu!ThreeRegs,
     Proc!ThreeRegs, Emu!RegAndImm, Proc!RegAndImm, Emu!Compares, Proc!Compares, Emu!Branches,
     Proc!Branches
<1>4. Emu!op = Proc!op /\ Emu!imm = Proc!imm /\ Emu!val1 = Proc!val1 /\ Emu!rd = Proc!rd
  BY DEF Emu!op, Proc!op, Emu!Mnemonic, Proc!Mnemonic, Emu!Opcodes, Proc!Opcodes, Emu!imm, Proc!imm,
     Emu!val1, Proc!val1, Emu!rd, Proc!rd
<1>5. Emu!PC = Proc!PC /\ Emu!SP = Proc!SP /\ Emu!WordIdx = Proc!WordIdx
  BY DEF Emu!PC, Proc!PC, Emu!SP, Proc!SP, Emu!WordIdx, Proc!WordIdx
<1>6. /\ \A a, n : Emu!AddrInRange(a, n) <=> Proc!AddrInRange(a, n)
      /\ \A word : Emu!WordVal(word) = Proc!WordVal(word)
  BY DEF Emu!AddrInRange, Proc!AddrInRange, Emu!WordVal, Proc!WordVal
<1> QED BY <1>1, <1>2, <1>3, <1>4, <1>5, <1>6

-----------------------------------------------------------------------------
(* The addresses of the statements.                                         *)

(* A statement takes some bytes, an instruction eight.                      *)
LEMMA SizeType ==
  ASSUME NEW s \in Source!Statement, Source!HasOperands(s)
  PROVE  Source!Size(s) \in Nat /\ (Source!IsCode(s) => Source!Size(s) = 8)
<1>1. s.args \in Seq(Source!Operand) /\ s.op \in Source!Directives \cup Source!Range(Source!Opcodes)
  BY DEF Source!Statement
<1>2. \A n : n \in Source!Byte => n \in Nat BY ToolConstants DEF Source!Byte
<1>3. Len(s.args) = 1 => s.args[1].num \in Int /\ (s.args[1].text \in Seq(ByteChar))
  <2>1. Len(s.args) = 1 => s.args[1] \in Source!Operand BY <1>1
  <2>2. \A arg \in Source!Operand : arg.num \in Int /\ arg.text \in Seq(ByteChar) BY DEF Source!Operand
  <2> QED BY <2>1, <2>2
<1>4. CASE s.op = ".INT"
  BY <1>4, ToolConstants DEF Source!Size, Source!IsCode, Source!Directives
<1>5. CASE s.op = ".BYT" BY <1>5 DEF Source!Size, Source!IsCode, Source!Directives
<1>6. CASE s.op = ".BTS"
  BY <1>3, <1>6 DEF Source!Size, Source!IsCode, Source!Directives, Source!HasOperands
<1>7. CASE s.op = ".STR"
  <2>1. Len(s.args) = 1 /\ (s.args[1].form = "text" \/ s.args[1].num \in Source!Byte)
    BY <1>7 DEF Source!HasOperands, Source!IsCode, Source!Directives
  <2>2. s.args[1].form = "text" => Len(s.args[1].text) \in Nat BY <1>3, <2>1
  <2> QED BY <1>2, <1>7, <2>1, <2>2 DEF Source!Size, Source!IsCode, Source!Directives
<1>8. CASE Source!IsCode(s)
  BY <1>8, ToolConstants DEF Source!Size, Source!IsCode, Source!Directives
<1> QED BY <1>4, <1>5, <1>6, <1>7, <1>8 DEF Source!IsCode, Source!Directives

(* Of the statements of a source.                                           *)
LEMMA SourceSizes ==
  ASSUME Source!IsSource
  PROVE  /\ program \in Seq(Source!Statement) /\ Len(program) \in Nat
         /\ \A i \in 1..Len(program) : Source!Size(program[i]) \in Nat
BY SizeType DEF Source!IsSource

(* The recursive function of Start, for n addresses.                        *)
Layout(f, n) == [j \in 1..n |-> IF j = 1 THEN WordSize ELSE f[j - 1] + Source!Size(program[j - 1])]
LayoutOf(n) == CHOOSE f : f = Layout(f, n)

(* There is such a function,                                                *)
LEMMA LayoutExists ==
  ASSUME Source!IsSource, NEW n \in 1..Len(program)+1
  PROVE  \E f \in [1..n -> Nat] : f = Layout(f, n)
<1> DEFINE Bad == {m \in 1..Len(program)+1 : ~ \E f \in [1..m -> Nat] : f = Layout(f, m)}
<1>1. Len(program) \in Nat /\ \A i \in 1..Len(program) : Source!Size(program[i]) \in Nat
  BY SizeType DEF Source!IsSource
<1>2. SUFFICES ASSUME Bad # {} PROVE FALSE OBVIOUS
<1>3. Bad \subseteq Nat BY <1>1
<1>4. PICK m \in Bad : \A k \in Bad : m <= k
  <2> HIDE DEF Bad
  <2> QED BY <1>2, <1>3, LeastIsLeast
<1>5. m \in 1..Len(program)+1 /\ ~ \E f \in [1..m -> Nat] : f = Layout(f, m) BY <1>4
<1>6. CASE m = 1
  <2> DEFINE f == [j \in 1..1 |-> WordSize]
  <2>1. f \in [1..1 -> Nat] BY ToolConstants
  <2>2. f = Layout(f, 1) BY DEF Layout
  <2> QED BY <1>5, <1>6, <2>1, <2>2
<1>7. CASE m > 1
  <2>1. m - 1 \in 1..Len(program)+1 /\ m - 1 \in 1..Len(program) BY <1>1, <1>5, <1>7
  <2>2. m - 1 \notin Bad BY <1>4, <1>5
  <2>3. PICK f \in [1..m-1 -> Nat] : f = Layout(f, m - 1) BY <2>1, <2>2
  <2> DEFINE g == [j \in 1..m |-> IF j = m THEN f[m - 1] + Source!Size(program[m - 1]) ELSE f[j]]
  <2>4. g \in [1..m -> Nat] BY <1>1, <1>5, <1>7, <2>1
  <2>5. ASSUME NEW j \in 1..m PROVE g[j] = Layout(g, m)[j]
    <3>1. CASE j = 1 BY <1>5, <1>7, <2>3, <3>1 DEF Layout
    <3>2. CASE j > 1 /\ j < m
      <4>1. j \in 1..m-1 /\ j - 1 \in 1..m-1 /\ j - 1 # m /\ j - 1 \in 1..m BY <1>5, <3>2
      <4>2. f[j] = f[j - 1] + Source!Size(program[j - 1]) BY <2>3, <3>2, <4>1 DEF Layout
      <4> QED BY <3>2, <4>1, <4>2 DEF Layout
    <3>3. CASE j = m /\ j > 1
      <4>1. m - 1 \in 1..m /\ m - 1 # m BY <1>5, <3>3
      <4> QED BY <3>3, <4>1 DEF Layout
    <3> QED BY <1>5, <3>1, <3>2, <3>3
  <2>6. g = Layout(g, m)
    <3>1. Layout(g, m) = [j \in 1..m |-> Layout(g, m)[j]] BY DEF Layout
    <3>2. g = [j \in 1..m |-> g[j]] OBVIOUS
    <3> HIDE DEF g
    <3> QED BY <2>5, <3>1, <3>2
  <2> QED BY <1>5, <2>4, <2>6
<1> QED BY <1>5, <1>6, <1>7

(* and two of them agree.                                                   *)
LEMMA LayoutsAgree ==
  ASSUME NEW n \in Nat, NEW m \in Nat, n <= m, NEW f, f = Layout(f, n), NEW g, g = Layout(g, m),
         NEW i \in 1..n
  PROVE  f[i] = g[i]
<1> DEFINE Bad == {j \in 1..n : f[j] # g[j]}
<1>1. SUFFICES ASSUME Bad # {} PROVE FALSE OBVIOUS
<1>2. PICK j \in Bad : \A k \in Bad : j <= k
  <2>1. Bad \subseteq Nat OBVIOUS
  <2> HIDE DEF Bad
  <2> QED BY <1>1, <2>1, LeastIsLeast
<1>3. j \in 1..n /\ j \in 1..m /\ f[j] # g[j] BY <1>2
<1>4. CASE j = 1
  <2>1. Layout(f, n)[j] = WordSize /\ Layout(g, m)[j] = WordSize BY <1>3, <1>4 DEF Layout
  <2> QED BY <1>3, <2>1
<1>5. CASE j > 1
  <2>1. j - 1 \in 1..n /\ j - 1 \notin Bad BY <1>2, <1>3, <1>5
  <2>2. f[j - 1] = g[j - 1] BY <2>1
  <2>3. /\ Layout(f, n)[j] = f[j - 1] + Source!Size(program[j - 1])
        /\ Layout(g, m)[j] = g[j - 1] + Source!Size(program[j - 1])
    BY <1>3, <1>5 DEF Layout
  <2> QED BY <1>3, <2>2, <2>3
<1> QED BY <1>3, <1>4, <1>5

(* The first statement begins behind the entry point, and each of the       *)
(* others where the one before it ends.                                     *)
LEMMA StartUnfolds ==
  ASSUME Source!IsSource
  PROVE  /\ Source!Start(1) = WordSize
         /\ \A i \in 1..Len(program)+1 : Source!Start(i) \in Nat
         /\ \A i \in 1..Len(program) :
              Source!Start(i + 1) = Source!Start(i) + Source!Size(program[i])
<1>0. Len(program) \in Nat BY DEF Source!IsSource
<1>1. \A i : Source!Start(i) = LayoutOf(i)[i] BY Zenon DEF Source!Start, LayoutOf, Layout
<1>2. ASSUME NEW i \in 1..Len(program)+1
      PROVE  LayoutOf(i) = Layout(LayoutOf(i), i) /\ Source!Start(i) \in Nat
  <2>1. PICK f \in [1..i -> Nat] : f = Layout(f, i) BY LayoutExists
  <2>2. LayoutOf(i) = Layout(LayoutOf(i), i) BY <2>1, Zenon DEF LayoutOf
  <2>3. i \in Nat /\ i \in 1..i BY <1>0
  <2>4. LayoutOf(i)[i] = f[i] BY <2>1, <2>2, <2>3, LayoutsAgree
  <2> QED BY <1>1, <2>1, <2>2, <2>3, <2>4
<1>3. Source!Start(1) = WordSize
  <2>1. 1 \in 1..Len(program)+1 BY <1>0
  <2>2. Layout(LayoutOf(1), 1)[1] = WordSize BY DEF Layout
  <2> QED BY <1>1, <1>2, <2>1, <2>2
<1>4. ASSUME NEW i \in 1..Len(program)
      PROVE  Source!Start(i + 1) = Source!Start(i) + Source!Size(program[i])
  <2>1. i \in 1..Len(program)+1 /\ i + 1 \in 1..Len(program)+1 /\ i \in 1..i /\ i \in Nat /\ i + 1 \in Nat
    BY <1>0
  <2>2. Layout(LayoutOf(i + 1), i + 1)[i + 1] = LayoutOf(i + 1)[i] + Source!Size(program[i])
    BY <1>0 DEF Layout
  <2>3. LayoutOf(i)[i] = LayoutOf(i + 1)[i] BY <1>2, <2>1, LayoutsAgree
  <2> QED BY <1>1, <1>2, <2>1, <2>2, <2>3
<1> QED BY <1>2, <1>3, <1>4

(* A statement ends at or before the beginning of every later one.          *)
LEMMA StartsInOrder ==
  ASSUME Source!IsSource, NEW i \in 1..Len(program), NEW j \in i+1..Len(program)+1
  PROVE  Source!Start(i) + Source!Size(program[i]) <= Source!Start(j)
<1> DEFINE Bad == {k \in i+1..Len(program)+1 :
                     ~(Source!Start(i) + Source!Size(program[i]) <= Source!Start(k))}
<1>0. Len(program) \in Nat /\ \A k \in 1..Len(program) : Source!Size(program[k]) \in Nat
  BY SizeType DEF Source!IsSource
<1>1. SUFFICES ASSUME Bad # {} PROVE FALSE OBVIOUS
<1>2. PICK k \in Bad : \A m \in Bad : k <= m
  <2>1. Bad \subseteq Nat BY <1>0
  <2> HIDE DEF Bad
  <2> QED BY <1>1, <2>1, LeastIsLeast
<1>3. k \in i+1..Len(program)+1 /\ ~(Source!Start(i) + Source!Size(program[i]) <= Source!Start(k))
  BY <1>2
<1>4. CASE k = i + 1
  <2>1. Source!Start(i) \in Nat /\ Source!Start(i + 1) = Source!Start(i) + Source!Size(program[i])
    BY <1>0, StartUnfolds
  <2> QED BY <1>0, <1>3, <1>4, <2>1
<1>5. CASE k > i + 1
  <2>1. k - 1 \in i+1..Len(program)+1 /\ k - 1 \in 1..Len(program) /\ (k - 1) + 1 = k BY <1>0, <1>3, <1>5
  <2>2. k - 1 \notin Bad BY <1>2, <1>3, <1>5, <2>1
  <2>3. Source!Start(i) + Source!Size(program[i]) <= Source!Start(k - 1) BY <2>1, <2>2
  <2>4. Source!Start(k) = Source!Start(k - 1) + Source!Size(program[k - 1]) BY <2>1, StartUnfolds
  <2>5. Source!Start(i) \in Nat /\ Source!Start(k - 1) \in Nat BY <1>0, <2>1, StartUnfolds
  <2> QED BY <1>0, <1>3, <2>1, <2>3, <2>4, <2>5
<1> QED BY <1>0, <1>3, <1>4, <1>5

(* None starts within the entry point.                                      *)
LEMMA StartsBehindEntry ==
  ASSUME Source!IsSource, NEW i \in 1..Len(program)+1
  PROVE  Source!Start(i) \in Nat /\ Source!Start(i) >= 4
<1>1. Len(program) \in Nat /\ WordSize = 4 /\ \A k \in 1..Len(program) : Source!Size(program[k]) \in Nat
  BY SourceSizes, ToolConstants
<1>2. Source!Start(1) = 4 /\ Source!Start(i) \in Nat BY <1>1, StartUnfolds
<1>3. CASE i > 1
  <2>1. 1 \in 1..Len(program) /\ i \in 1+1..Len(program)+1 BY <1>1, <1>3
  <2>2. Source!Start(1) + Source!Size(program[1]) <= Source!Start(i) BY <2>1, StartsInOrder
  <2>3. Source!Size(program[1]) \in Nat BY <1>1, <2>1
  <2> QED BY <1>2, <2>2, <2>3
<1>4. CASE i = 1 BY <1>2, <1>4
<1> QED BY <1>1, <1>3, <1>4

-----------------------------------------------------------------------------
(* The bytes of the statements, one after the other.                        *)

(* The recursive function of FlattenSeq, for the first n sequences.         *)
Joined(f, seqs, n) == [i \in 1..n |-> IF i = 1 THEN seqs[i] ELSE f[i - 1] \o seqs[i]]
JoinedOf(seqs) == CHOOSE f : f = Joined(f, seqs, Len(seqs))

(* There is such a function,                                                *)
LEMMA JoinedExists ==
  ASSUME NEW S, NEW seqs \in Seq(Seq(S)), NEW n \in 1..Len(seqs)
  PROVE  \E f \in [1..n -> Seq(S)] : f = Joined(f, seqs, n)
<1> DEFINE Bad == {m \in 1..Len(seqs) : ~ \E f \in [1..m -> Seq(S)] : f = Joined(f, seqs, m)}
<1>1. Len(seqs) \in Nat /\ \A i \in 1..Len(seqs) : seqs[i] \in Seq(S) OBVIOUS
<1>2. SUFFICES ASSUME Bad # {} PROVE FALSE OBVIOUS
<1>3. Bad \subseteq Nat BY <1>1
<1>4. PICK m \in Bad : \A k \in Bad : m <= k
  <2> HIDE DEF Bad
  <2> QED BY <1>2, <1>3, LeastIsLeast
<1>5. m \in 1..Len(seqs) /\ ~ \E f \in [1..m -> Seq(S)] : f = Joined(f, seqs, m) BY <1>4
<1>6. CASE m = 1
  <2> DEFINE f == [j \in 1..1 |-> seqs[1]]
  <2>1. f \in [1..1 -> Seq(S)] BY <1>1, <1>5
  <2>2. f = Joined(f, seqs, 1) BY DEF Joined
  <2> QED BY <1>5, <1>6, <2>1, <2>2
<1>7. CASE m > 1
  <2>1. m - 1 \in 1..Len(seqs) /\ m - 1 \in 1..m-1 BY <1>1, <1>5, <1>7
  <2>2. m - 1 \notin Bad
    <3>1. m \in Nat /\ ~(m <= m - 1) BY <1>1, <1>5
    <3> HIDE DEF Bad
    <3> QED BY <1>4, <3>1
  <2>3. PICK f \in [1..m-1 -> Seq(S)] : f = Joined(f, seqs, m - 1) BY <2>1, <2>2
  <2> DEFINE last == f[m - 1] \o seqs[m]
             g == [j \in 1..m |-> IF j = m THEN last ELSE f[j]]
  <2>4. last \in Seq(S)
    <3>1. f[m - 1] \in Seq(S) /\ seqs[m] \in Seq(S) BY <1>1, <1>5, <2>1
    <3> QED BY <3>1
  <2> HIDE DEF last
  <2>5. g \in [1..m -> Seq(S)]
    <3>1. \A j \in 1..m : j # m => j \in 1..m-1 BY <1>5
    <3> QED BY <2>4, <3>1
  <2>6. ASSUME NEW j \in 1..m PROVE g[j] = Joined(g, seqs, m)[j]
    <3>1. CASE j = 1
      <4>1. Joined(g, seqs, m)[j] = seqs[1] /\ g[j] = f[1] BY <1>5, <1>7, <3>1 DEF Joined
      <4>2. f[1] = seqs[1] BY <1>5, <1>7, <2>3 DEF Joined
      <4> QED BY <4>1, <4>2
    <3>2. CASE j > 1 /\ j < m
      <4>1. j \in 1..m-1 /\ j - 1 \in 1..m-1 /\ j - 1 # m /\ j - 1 \in 1..m /\ j # 1 BY <1>5, <3>2
      <4>2. f[j] = f[j - 1] \o seqs[j] BY <2>3, <4>1 DEF Joined
      <4>3. g[j - 1] = f[j - 1] /\ g[j] = f[j] BY <3>2, <4>1
      <4>4. Joined(g, seqs, m)[j] = g[j - 1] \o seqs[j] BY <4>1 DEF Joined
      <4> QED BY <4>2, <4>3, <4>4
    <3>3. CASE j = m /\ j > 1
      <4>1. m - 1 \in 1..m /\ m - 1 # m /\ j # 1 BY <1>5, <3>3
      <4>2. g[m - 1] = f[m - 1] /\ g[j] = last BY <3>3, <4>1
      <4>3. Joined(g, seqs, m)[j] = g[m - 1] \o seqs[m] BY <3>3, <4>1 DEF Joined
      <4> QED BY <4>2, <4>3 DEF last
    <3> QED BY <1>5, <3>1, <3>2, <3>3
  <2>7. g = Joined(g, seqs, m)
    <3>1. Joined(g, seqs, m) = [j \in 1..m |-> Joined(g, seqs, m)[j]] BY DEF Joined
    <3>2. g = [j \in 1..m |-> g[j]] OBVIOUS
    <3> HIDE DEF g
    <3> QED BY <2>6, <3>1, <3>2
  <2> QED BY <1>5, <2>5, <2>7
<1> QED BY <1>5, <1>6, <1>7

(* and FlattenSeq is its last value.                                        *)
LEMMA FlattenUnfolds ==
  ASSUME NEW S, NEW seqs \in Seq(Seq(S)), Len(seqs) > 0
  PROVE  \E f \in [1..Len(seqs) -> Seq(S)] :
           Source!FlattenSeq(seqs) = f[Len(seqs)] /\ f = Joined(f, seqs, Len(seqs))
<1> DEFINE n == Len(seqs)
           f == JoinedOf(seqs)
<1>1. n \in Nat /\ n \in 1..n OBVIOUS
<1>2. Source!FlattenSeq(seqs) = f[n]
  <2>1. Len(seqs) # 0 BY <1>1
  <2> QED BY <2>1, Zenon DEF Source!FlattenSeq, JoinedOf, Joined
<1>3. PICK g \in [1..n -> Seq(S)] : g = Joined(g, seqs, n) BY <1>1, JoinedExists
<1>4. f = Joined(f, seqs, n) BY <1>3, Zenon DEF JoinedOf
<1> DEFINE Bad == {j \in 1..n : f[j] # g[j]}
<1>5. Bad = {}
  <2>1. SUFFICES ASSUME Bad # {} PROVE FALSE OBVIOUS
  <2>2. PICK j \in Bad : \A k \in Bad : j <= k
    <3>1. Bad \subseteq Nat BY <1>1
    <3> HIDE DEF Bad
    <3> QED BY <2>1, <3>1, LeastIsLeast
  <2>3. j \in 1..n /\ f[j] # g[j] BY <2>2
  <2> HIDE DEF f
  <2>4. CASE j = 1
    <3>1. Joined(f, seqs, n)[j] = seqs[j] /\ Joined(g, seqs, n)[j] = seqs[j] BY <2>3, <2>4 DEF Joined
    <3> QED BY <1>3, <1>4, <2>3, <3>1
  <2>5. CASE j > 1
    <3>1. j - 1 \in 1..n /\ j - 1 \notin Bad BY <1>1, <2>2, <2>3, <2>5
    <3>2. f[j - 1] = g[j - 1] BY <3>1
    <3>3. Joined(f, seqs, n)[j] = f[j - 1] \o seqs[j] /\ Joined(g, seqs, n)[j] = g[j - 1] \o seqs[j]
      <4>1. j # 1 BY <2>5
      <4> HIDE DEF Bad
      <4> QED BY <2>3, <4>1 DEF Joined
    <3> QED BY <1>3, <1>4, <2>3, <3>2, <3>3
  <2> QED BY <1>1, <2>3, <2>4, <2>5
<1> HIDE DEF f
<1>6. f[n] = g[n] BY <1>1, <1>5
<1> QED BY <1>2, <1>3, <1>6

(* Where the sequences of a source's statements lie, joined.                *)
PartsLie(part, seqs, m) ==
  /\ Len(part) = Source!Start(m + 1) - WordSize
  /\ \A i \in 1..m : \A k \in 1..Source!Size(program[i]) :
       part[Source!Start(i) - WordSize + k] = seqs[i][k]

(* What is in two sequences, one behind the other.                          *)
LEMMA InConcat ==
  ASSUME NEW S, NEW s \in Seq(S), NEW t \in Seq(S)
  PROVE  /\ \A k \in 1..Len(s) : (s \o t)[k] = s[k]
         /\ \A k \in 1..Len(t) : (s \o t)[Len(s) + k] = t[k]
<1>1. Len(s) \in Nat /\ Len(t) \in Nat OBVIOUS
<1>2. \A k \in 1..Len(s) + Len(t) : (s \o t)[k] = IF k <= Len(s) THEN s[k] ELSE t[k - Len(s)]
  BY ConcatProperties, Zenon
<1>3. ASSUME NEW k \in 1..Len(s) PROVE (s \o t)[k] = s[k]
  <2>1. k \in 1..Len(s) + Len(t) /\ k <= Len(s) BY <1>1
  <2> QED BY <1>2, <2>1
<1>4. ASSUME NEW k \in 1..Len(t) PROVE (s \o t)[Len(s) + k] = t[k]
  <2>1. /\ Len(s) + k \in 1..Len(s) + Len(t) /\ ~(Len(s) + k <= Len(s))
        /\ (Len(s) + k) - Len(s) = k
    BY <1>1
  <2> QED BY <1>2, <2>1
<1> QED BY <1>3, <1>4

(* Each is where its statement starts.                                      *)
LEMMA PartsJoined ==
  ASSUME Source!IsSource, NEW S, NEW seqs \in Seq(Seq(S)), Len(seqs) = Len(program), program # << >>,
         \A i \in 1..Len(program) : Len(seqs[i]) = Source!Size(program[i])
  PROVE  /\ Source!FlattenSeq(seqs) \in Seq(S)
         /\ PartsLie(Source!FlattenSeq(seqs), seqs, Len(program))
<1> DEFINE n == Len(program)
<1>0. /\ n \in Nat /\ n > 0 /\ WordSize = 4
      /\ \A i \in 1..n : Source!Size(program[i]) \in Nat /\ seqs[i] \in Seq(S)
                         /\ Len(seqs[i]) = Source!Size(program[i])
  <2>1. program \in Seq(Source!Statement) BY DEF Source!IsSource
  <2>2. n \in Nat /\ n > 0 BY <2>1
  <2>3. \A i \in 1..n : Source!Size(program[i]) \in Nat BY SourceSizes
  <2> QED BY <2>2, <2>3, ToolConstants
<1>1. PICK f \in [1..n -> Seq(S)] : Source!FlattenSeq(seqs) = f[n] /\ f = Joined(f, seqs, n)
  BY <1>0, FlattenUnfolds
<1>2. \A i \in 1..n+1 : Source!Start(i) \in Nat /\ Source!Start(i) >= 4 BY StartsBehindEntry
<1> DEFINE Bad == {m \in 1..n : ~PartsLie(f[m], seqs, m)}
<1>3. Bad = {}
  <2>1. SUFFICES ASSUME Bad # {} PROVE FALSE OBVIOUS
  <2>2. PICK m \in Bad : \A k \in Bad : m <= k
    <3>1. Bad \subseteq Nat BY <1>0
    <3> HIDE DEF Bad
    <3> QED BY <2>1, <3>1, LeastIsLeast
  <2>3. m \in 1..n /\ ~PartsLie(f[m], seqs, m) BY <2>2
  <2>4. /\ Source!Start(m) \in Nat /\ Source!Start(m) >= 4
        /\ Source!Start(m + 1) = Source!Start(m) + Source!Size(program[m])
    BY <1>0, <1>2, <2>3, StartUnfolds
  <2>5. CASE m = 1
    <3>1. f[1] = seqs[1] BY <1>1, <2>3, <2>5 DEF Joined
    <3>2. Source!Start(1) = 4 BY <1>0, StartUnfolds
    <3>3. Len(f[1]) = Source!Start(1 + 1) - WordSize BY <1>0, <2>3, <2>4, <2>5, <3>1, <3>2
    <3>4. \A k \in 1..Source!Size(program[1]) : f[1][Source!Start(1) - WordSize + k] = seqs[1][k]
      <4>1. \A k \in 1..Source!Size(program[1]) : Source!Start(1) - WordSize + k = k BY <1>0, <3>2
      <4> QED BY <3>1, <4>1
    <3> QED BY <2>3, <2>5, <3>3, <3>4 DEF PartsLie
  <2>6. CASE m > 1
    <3>1. m - 1 \in 1..n /\ (m - 1) + 1 = m /\ m # 1 BY <1>0, <2>3, <2>6
    <3>2. m - 1 \notin Bad
      <4>1. m \in Nat /\ ~(m <= m - 1) BY <1>0, <2>3
      <4> HIDE DEF Bad
      <4> QED BY <2>2, <4>1
    <3>3. PartsLie(f[m - 1], seqs, m - 1) BY <3>1, <3>2
    <3>4. f[m] = f[m - 1] \o seqs[m] BY <1>1, <2>3, <3>1 DEF Joined
    <3> DEFINE before == f[m - 1]
    <3>5. before \in Seq(S) /\ Len(before) = Source!Start(m) - 4 BY <1>0, <3>1, <3>3 DEF PartsLie
    <3>6. /\ \A i \in 1..m-1 : \A k \in 1..Source!Size(program[i]) :
               before[Source!Start(i) - WordSize + k] = seqs[i][k]
          /\ f[m] = before \o seqs[m]
      BY <3>3, <3>4 DEF PartsLie
    <3> HIDE DEF before
    <3>7. seqs[m] \in Seq(S) /\ Len(seqs[m]) = Source!Size(program[m]) /\ Source!Size(program[m]) \in Nat
      BY <1>0, <2>3
    <3> DEFINE part == seqs[m]
    <3>8. /\ \A k \in 1..Len(before) : (before \o part)[k] = before[k]
          /\ \A k \in 1..Len(part) : (before \o part)[Len(before) + k] = part[k]
      <4>1. before \in Seq(S) BY <3>5
      <4>2. part \in Seq(S) BY <3>7
      <4>3. \A s, t \in Seq(S) :
              /\ \A k \in 1..Len(s) : (s \o t)[k] = s[k]
              /\ \A k \in 1..Len(t) : (s \o t)[Len(s) + k] = t[k]
        BY InConcat
      <4> HIDE DEF part
      <4> QED BY <4>1, <4>2, <4>3, Zenon
    <3>9. Len(f[m]) = Source!Start(m + 1) - WordSize
      <4>1. Len(f[m]) = Len(before) + Len(seqs[m])
        BY <3>5, <3>6, <3>7
      <4> QED BY <2>4, <3>5, <3>7, <4>1, ToolConstants
    <3>10. ASSUME NEW i \in 1..m, NEW k \in 1..Source!Size(program[i])
          PROVE  f[m][Source!Start(i) - WordSize + k] = seqs[i][k]
      <4>1. i \in 1..n /\ Source!Start(i) \in Nat /\ Source!Start(i) >= 4 /\ k \in Nat /\ k > 0
            /\ Source!Size(program[i]) \in Nat /\ k <= Source!Size(program[i])
        BY <1>0, <1>2, <2>3
      <4>2. CASE i = m
        <5> DEFINE at == Source!Start(m) - WordSize + k
        <5>1. at = Len(before) + k /\ k \in 1..Len(seqs[m]) /\ Len(before) \in Nat
          BY <1>0, <2>4, <3>5, <3>7, <4>1, <4>2
        <5>2. (before \o seqs[m])[Len(before) + k] = seqs[m][k] BY <3>8, <5>1
        <5> QED BY <3>6, <4>2, <5>1, <5>2
      <4>3. CASE i < m
        <5>1. m \in i+1..n+1 /\ i \in 1..m-1 BY <1>0, <2>3, <4>1, <4>3
        <5>2. Source!Start(i) + Source!Size(program[i]) <= Source!Start(m) BY <4>1, <5>1, StartsInOrder
        <5> DEFINE at == Source!Start(i) - WordSize + k
        <5>3. at \in 1..Len(before)
          <6>1. WordSize = 4 /\ Source!Start(m) \in Nat BY <2>4, ToolConstants
          <6>2. at >= 1 /\ at <= Source!Start(m) - 4 /\ at \in Int BY <4>1, <5>2, <6>1
          <6> HIDE DEF at
          <6> QED BY <3>5, <6>1, <6>2
        <5>4. (before \o seqs[m])[at] = before[at]
          <6> HIDE DEF at
          <6> QED BY <3>8, <5>3
        <5> QED BY <3>6, <5>1, <5>4
      <4> QED BY <1>0, <2>3, <4>2, <4>3
    <3> QED BY <2>3, <3>9, <3>10 DEF PartsLie
  <2> QED BY <1>0, <2>3, <2>5, <2>6
<1>4. n \in 1..n /\ n \notin Bad BY <1>0, <1>3
<1>5. PartsLie(f[n], seqs, n) BY <1>4
<1> QED BY <1>1, <1>4, <1>5

-----------------------------------------------------------------------------
(* The bytes of a statement.                                                *)

(* What a source's words and values are to the emulator.                    *)
LEMMA SourceWords ==
  /\ Source!ValMod = Proc!ValMod /\ Source!Byte = Proc!Byte
  /\ \A v : Source!ValWord(v) = Proc!ValWord(v)
  /\ ByteMod \in Nat \ {0} /\ Source!ValMod \in Nat \ {0} /\ ByteMod <= Source!ValMod
<1>1. Source!ValMod = Proc!ValMod /\ Source!Byte = Proc!Byte
  BY DEF Source!ValMod, Proc!ValMod, Source!Byte, Proc!Byte
<1>2. \A v : Source!ValWord(v) = Proc!ValWord(v)
  BY DEF Source!ValWord, Proc!ValWord, Source!WordIdx, Proc!WordIdx
<1>3. ByteMod \in Nat \ {0} /\ Proc!ValMod \in Nat \ {0}
  BY ProcMemory, ProcIsa, ProcCpu, Proc!PowersType, Proc!IsaConstants
<1>4. ByteMod - 1 < Proc!ValMod
  <2>1. \A b \in Proc!Byte : b \in Proc!Val BY ProcMemory, ProcIsa, ProcCpu, Proc!ConstantValues
  <2>2. ByteMod - 1 \in Proc!Byte BY <1>3 DEF Proc!Byte
  <2> QED BY <1>3, <2>1, <2>2 DEF Proc!Val
<1> QED BY <1>1, <1>2, <1>3, <1>4

(* A word is four bytes, and stands for its value.                          *)
LEMMA WordSeqType ==
  /\ \A v \in Nat : Source!WordSeq(v) \in Seq(Nat) /\ Len(Source!WordSeq(v)) = 4
  /\ \A v \in Proc!Val : Proc!WordVal([i \in Proc!WordIdx |-> Source!WordSeq(v)[i + 1]]) = v
<1>0. WordSize = 4 /\ Proc!WordIdx = 0..3 BY ToolConstants DEF Proc!WordIdx
<1>1. \A v \in Nat : Proc!ValWord(v) \in Proc!Word
  BY ProcMemory, ProcIsa, ProcCpu, Proc!ValWordType
<1>2. \A v : Source!WordSeq(v) = [i \in 1..4 |-> Proc!ValWord(v)[i - 1]]
  BY <1>0, SourceWords DEF Source!WordSeq
<1>3. ASSUME NEW v \in Nat PROVE Source!WordSeq(v) \in Seq(Nat) /\ Len(Source!WordSeq(v)) = 4
  <2> DEFINE word == Proc!ValWord(v)
  <2>1. word \in [0..3 -> 0..ByteMod-1] /\ ByteMod \in Nat
    BY <1>0, <1>1, ToolConstants DEF Proc!Word, Proc!Byte
  <2>2. Source!WordSeq(v) = [i \in 1..4 |-> word[i - 1]] BY <1>2
  <2> HIDE DEF word
  <2>3. \A i \in 1..4 : i - 1 \in 0..3 OBVIOUS
  <2>4. \A i \in 1..4 : word[i - 1] \in Nat BY <2>1, <2>3
  <2>5. [i \in 1..4 |-> word[i - 1]] \in Seq(Nat) /\ Len([i \in 1..4 |-> word[i - 1]]) = 4 BY <2>4
  <2> QED BY <2>2, <2>5
<1>4. ASSUME NEW v \in Proc!Val
      PROVE  Proc!WordVal([i \in Proc!WordIdx |-> Source!WordSeq(v)[i + 1]]) = v
  <2>1. v \in Nat BY SourceWords DEF Proc!Val
  <2>2. Proc!WordVal(Proc!ValWord(v)) = v BY ProcMemory, ProcIsa, ProcCpu, Proc!ValueOfWord
  <2>3. \A i \in 0..3 : i + 1 \in 1..4 /\ (i + 1) - 1 = i OBVIOUS
  <2>4. [i \in 0..3 |-> Source!WordSeq(v)[i + 1]] = [i \in 0..3 |-> Proc!ValWord(v)[i]]
    BY <1>2, <2>3
  <2>5. Proc!ValWord(v) = [i \in 0..3 |-> Proc!ValWord(v)[i]]
    BY <1>0, <1>1, <2>1 DEF Proc!Word
  <2> QED BY <1>0, <2>2, <2>4, <2>5
<1> QED BY <1>3, <1>4

(* What is in a word, if the image is in one.                               *)
Fits(v) == v \in Nat /\ (v < Source!ValMod \/ v <= Source!Start(Len(program) + 1))

(* The name of a register stands for its number, one of a label for an      *)
(* address.                                                                 *)
LEMMA MeaningType ==
  ASSUME Source!IsSource, NEW arg \in Source!Operand, Source!Defined(arg), arg.form # "text"
  PROVE  /\ Source!Meaning(arg) \in Nat /\ Fits(Source!Meaning(arg))
         /\ arg.form = "name" /\ Source!IsRegister(arg.name) => Source!Meaning(arg) \in 0..21
<1>1. CASE arg.form = "num"
  <2>1. arg.num \in Int BY DEF Source!Operand
  <2>2. Source!Wrap(arg.num) \in Nat /\ Source!Wrap(arg.num) < Source!ValMod
    BY <2>1, SourceWords DEF Source!Wrap
  <2> QED BY <1>1, <2>2 DEF Source!Meaning, Fits
<1>2. CASE arg.form = "char"
  <2>1. arg.name \in ByteChar BY <1>2 DEF Source!Defined
  <2>2. Codes[arg.name][1] \in Nat /\ Codes[arg.name][1] < ByteMod
    BY <2>1, ToolConstants DEF ByteChar, Byte
  <2> QED BY <1>2, <2>1, <2>2, SourceWords DEF Source!Meaning, Fits
<1>3. CASE arg.form = "name" /\ Source!IsRegister(arg.name)
  <2>1. Source!RegisterNumber(arg.name) \in 0..21
    BY <1>3 DEF Source!RegisterNumber, Source!IsRegister, Source!Reg
  <2>2. Source!Meaning(arg) = Source!RegisterNumber(arg.name) BY <1>3 DEF Source!Meaning
  <2> QED BY <1>3, <2>1, <2>2, SourceWords, ToolConstants DEF Fits
<1>4. CASE arg.form = "name" /\ ~Source!IsRegister(arg.name)
  <2> DEFINE at == Source!Labelled(arg.name)
  <2>1. at # {} /\ at \subseteq 1..Len(program) /\ Len(program) \in Nat
    BY <1>4, SourceSizes DEF Source!Defined, Source!Labelled
  <2>2. \E i \in at : \A j \in at : j <= i
    <3> DEFINE back == {Len(program) - i : i \in at}
    <3>1. back # {} /\ back \subseteq Nat BY <2>1
    <3>2. PICK b \in back : \A c \in back : b <= c
      <4> HIDE DEF back
      <4> QED BY <3>1, LeastIsLeast
    <3>3. PICK i \in at : b = Len(program) - i BY <3>2
    <3>4. \A j \in at : b <= Len(program) - j BY <3>2
    <3>5. \A j \in at : j \in Nat /\ i \in Nat BY <2>1
    <3> HIDE DEF at
    <3> QED BY <2>1, <3>3, <3>4, <3>5
  <2>3. (CHOOSE i \in at : \A j \in at : j <= i) \in at BY <2>2
  <2>4. /\ Source!LabelAddr(arg.name) \in Nat
        /\ Source!LabelAddr(arg.name) <= Source!Start(Len(program) + 1)
    <3> DEFINE i == CHOOSE k \in at : \A j \in at : j <= k
    <3>1. i \in 1..Len(program) BY <2>1, <2>3
    <3>2. Source!LabelAddr(arg.name) = Source!Start(i) BY DEF Source!LabelAddr
    <3> HIDE DEF i, at
    <3>3. /\ i \in 1..Len(program)+1 /\ Len(program)+1 \in 1..Len(program)+1
          /\ Len(program)+1 \in i+1..Len(program)+1 /\ Source!Size(program[i]) \in Nat
      BY <2>1, <3>1, SourceSizes
    <3>4. Source!Start(i) \in Nat /\ Source!Start(Len(program) + 1) \in Nat BY <3>3, StartUnfolds
    <3>5. Source!Start(i) + Source!Size(program[i]) <= Source!Start(Len(program) + 1)
      BY <3>1, <3>3, StartsInOrder
    <3> QED BY <3>2, <3>3, <3>4, <3>5
  <2> QED BY <1>4, <2>4 DEF Source!Meaning, Fits
<1>5. arg.form \in {"num", "char", "name", "text"} BY DEF Source!Operand
<1> QED BY <1>1, <1>2, <1>3, <1>4, <1>5

(* The operands of an instruction of a source, and its control registers.   *)
LEMMA InstructionType ==
  ASSUME Source!IsSource, NEW i \in Source!Code
  PROVE  LET c == Source!Instruction(program[i]) IN
         /\ c.op \in 1..40 /\ c.o1 \in 0..21 /\ c.o2 \in 0..21 /\ c.o3 \in 0..21 /\ c.imm \in Nat /\ Fits(c.imm)
         /\ c = [op |-> c.op, o1 |-> c.o1, o2 |-> c.o2, o3 |-> c.o3, imm |-> c.imm]
<1> DEFINE s == program[i]
           n == Source!Registers(s.op)
           register(k) == IF k <= n THEN Source!Meaning(s.args[k]) ELSE 0
<1>1. /\ i \in 1..Len(program) /\ s \in Source!Statement /\ Source!IsCode(s) /\ Source!HasOperands(s)
      /\ \A k \in DOMAIN s.args : Source!Defined(s.args[k])
  BY SourceSizes DEF Source!Code, Source!IsSource
<1>2. /\ s.op \in Source!Directives \cup Source!Range(Source!Opcodes) /\ s.op \notin Source!Directives
      /\ s.args \in Seq(Source!Operand)
  BY <1>1 DEF Source!Statement, Source!IsCode
<1>3. /\ Len(s.args) = n + (IF Source!UsesImm(s.op) THEN 1 ELSE 0)
      /\ \A k \in DOMAIN s.args :
           IF k <= n THEN s.args[k].form = "name" /\ Source!IsRegister(s.args[k].name)
           ELSE s.args[k].form # "text"
  BY <1>1, <1>2 DEF Source!HasOperands, Source!Directives
<1>4. n \in 0..3 BY DEF Source!Registers
<1>5. DOMAIN s.args = 1..Len(s.args) /\ \A k \in DOMAIN s.args : s.args[k] \in Source!Operand BY <1>2
<1>6. \A k \in 1..3 : register(k) \in 0..21
  <2> SUFFICES ASSUME NEW k \in 1..3, k <= n PROVE Source!Meaning(s.args[k]) \in 0..21 BY <1>4
  <2>1. k \in DOMAIN s.args BY <1>3, <1>4, <1>5
  <2>2. s.args[k].form = "name" /\ Source!IsRegister(s.args[k].name) BY <1>3, <2>1
  <2>3. s.args[k] \in Source!Operand /\ Source!Defined(s.args[k]) BY <1>1, <1>5, <2>1
  <2> HIDE DEF s, n
  <2> QED BY <2>2, <2>3, MeaningType
<1> DEFINE v == IF Source!UsesImm(s.op) THEN Source!Meaning(s.args[n + 1]) ELSE 0
<1>7. v \in Nat /\ Fits(v)
  <2> SUFFICES ASSUME Source!UsesImm(s.op)
               PROVE  Source!Meaning(s.args[n + 1]) \in Nat /\ Fits(Source!Meaning(s.args[n + 1]))
    BY SourceWords DEF Fits
  <2>1. n + 1 \in DOMAIN s.args /\ ~(n + 1 <= n) BY <1>3, <1>4, <1>5
  <2>2. s.args[n + 1].form # "text" BY <1>3, <2>1
  <2>3. s.args[n + 1] \in Source!Operand /\ Source!Defined(s.args[n + 1]) BY <1>1, <1>5, <2>1
  <2> HIDE DEF s, n
  <2> QED BY <2>2, <2>3, MeaningType
<1>8. (CHOOSE b \in 1..40 : Source!Opcodes[b] = s.op) \in 1..40
  <2>1. \E b \in 1..40 : Source!Opcodes[b] = s.op
    <3>1. s.op \in Source!Range(Source!Opcodes) BY <1>2
    <3>2. DOMAIN Source!Opcodes = 1..40 BY DEF Source!Opcodes
    <3> QED BY <3>1, <3>2 DEF Source!Range
  <2> QED BY <2>1
<1>9. Source!Instruction(s) =
        [op |-> CHOOSE b \in 1..40 : Source!Opcodes[b] = s.op,
         o1 |-> register(1), o2 |-> register(2), o3 |-> register(3),
         imm |-> IF Source!UsesImm(s.op) THEN Source!Meaning(s.args[n + 1]) ELSE 0]
  BY Zenon DEF Source!Instruction
<1> HIDE DEF register, n
<1>10. register(1) \in 0..21 /\ register(2) \in 0..21 /\ register(3) \in 0..21 BY <1>6
<1> DEFINE o == CHOOSE b \in 1..40 : Source!Opcodes[b] = s.op
           c == Source!Instruction(s)
<1>11. c = [op |-> o, o1 |-> register(1), o2 |-> register(2), o3 |-> register(3), imm |-> v]
       /\ o \in 1..40 /\ v \in Nat /\ Fits(v)
  BY <1>7, <1>8, <1>9
<1> HIDE DEF o, v, c, s
<1>12. /\ c.op \in 1..40 /\ c.o1 \in 0..21 /\ c.o2 \in 0..21 /\ c.o3 \in 0..21 /\ c.imm \in Nat /\ Fits(c.imm)
       /\ c = [op |-> c.op, o1 |-> c.o1, o2 |-> c.o2, o3 |-> c.o3, imm |-> c.imm]
  BY <1>10, <1>11
<1> QED BY <1>12 DEF c, s

(* What is behind four bytes.                                               *)
LEMMA BehindFour ==
  ASSUME NEW s \in Seq(Nat), Len(s) = 4, NEW t \in Seq(Nat)
  PROVE  /\ s \o t \in Seq(Nat) /\ Len(s \o t) = 4 + Len(t)
         /\ \A k \in 1..4 : (s \o t)[k] = s[k]
         /\ \A k \in 1..Len(t) : (s \o t)[4 + k] = t[k]
<1>1. Len(t) \in Nat OBVIOUS
<1>2. /\ s \o t \in Seq(Nat) /\ Len(s \o t) = Len(s) + Len(t)
      /\ \A k \in 1..Len(s) + Len(t) : (s \o t)[k] = IF k <= Len(s) THEN s[k] ELSE t[k - Len(s)]
  BY ConcatProperties, Zenon
<1>3. /\ Len(s \o t) = 4 + Len(t)
      /\ \A k \in 1..4 + Len(t) : (s \o t)[k] = IF k <= 4 THEN s[k] ELSE t[k - 4]
  BY <1>2
<1>4. ASSUME NEW k \in 1..4 PROVE (s \o t)[k] = s[k]
  <2>1. k \in 1..4 + Len(t) /\ k <= 4 BY <1>1
  <2> QED BY <1>3, <2>1
<1>5. ASSUME NEW k \in 1..Len(t) PROVE (s \o t)[4 + k] = t[k]
  <2>1. 4 + k \in 1..4 + Len(t) /\ ~(4 + k <= 4) /\ (4 + k) - 4 = k BY <1>1
  <2> QED BY <1>3, <2>1
<1> QED BY <1>2, <1>3, <1>4, <1>5

(* The eight bytes of an instruction.                                       *)
LEMMA CodeBytesType ==
  ASSUME Source!IsSource, NEW i \in Source!Code
  PROVE  LET c     == Source!Instruction(program[i])
             bytes == Source!Bytes(program[i])
         IN  /\ bytes \in Seq(Nat) /\ Len(bytes) = 8
             /\ bytes[1] = c.op /\ bytes[2] = c.o1 /\ bytes[3] = c.o2 /\ bytes[4] = c.o3
             /\ \A k \in 1..4 : bytes[4 + k] = Source!WordSeq(c.imm)[k]
<1> DEFINE c == Source!Instruction(program[i])
           word == Source!WordSeq(c.imm)
           first == <<c.op, c.o1, c.o2, c.o3>>
<1>1. Source!Bytes(program[i]) = first \o word
  BY Zenon DEF Source!Bytes, Source!Code, Source!CodeBytes
<1>2. c.op \in Nat /\ c.o1 \in Nat /\ c.o2 \in Nat /\ c.o3 \in Nat /\ c.imm \in Nat
  <2>1. c.op \in 1..40 /\ c.o1 \in 0..21 /\ c.o2 \in 0..21 /\ c.o3 \in 0..21 /\ c.imm \in Nat
    BY InstructionType
  <2> HIDE DEF c
  <2> QED BY <2>1
<1> HIDE DEF c
<1>3. word \in Seq(Nat) /\ Len(word) = 4 BY <1>2, WordSeqType
<1>4. first \in Seq(Nat) /\ Len(first) = 4
      /\ first[1] = c.op /\ first[2] = c.o1 /\ first[3] = c.o2 /\ first[4] = c.o3
  BY <1>2
<1> HIDE DEF first, word
<1> DEFINE bytes == first \o word
<1>5. /\ bytes \in Seq(Nat) /\ Len(bytes) = 8
      /\ \A k \in 1..4 : bytes[k] = first[k]
      /\ \A k \in 1..4 : bytes[4 + k] = word[k]
  BY <1>3, <1>4, BehindFour
<1> HIDE DEF bytes
<1>6. bytes[1] = first[1] /\ bytes[2] = first[2] /\ bytes[3] = first[3] /\ bytes[4] = first[4] BY <1>5
<1>7. bytes = Source!Bytes(program[i]) BY <1>1 DEF bytes
<1> QED BY <1>4, <1>5, <1>6, <1>7 DEF c, word

(* A statement has as many bytes as it takes.                               *)
LEMMA BytesType ==
  ASSUME Source!IsSource, NEW i \in 1..Len(program)
  PROVE  /\ Source!Bytes(program[i]) \in Seq(Nat)
         /\ Len(Source!Bytes(program[i])) = Source!Size(program[i])
<1> DEFINE s == program[i]
           arg == s.args[1]
<1>1. /\ s \in Source!Statement /\ Source!HasOperands(s) /\ Source!Size(s) \in Nat
      /\ \A k \in DOMAIN s.args : Source!Defined(s.args[k])
  BY SourceSizes DEF Source!IsSource
<1>2. s.args \in Seq(Source!Operand) /\ s.op \in Source!Directives \cup Source!Range(Source!Opcodes)
  BY <1>1 DEF Source!Statement
<1>3. Len(s.args) = 1 => arg \in Source!Operand /\ Source!Defined(arg) BY <1>1, <1>2
<1>4. arg \in Source!Operand => arg.num \in Int /\ arg.text \in Seq(ByteChar)
  BY DEF Source!Operand
<1>5. \A b \in Source!Byte : b \in Nat BY SourceWords DEF Source!Byte
<1>6. CASE Source!IsCode(s)
  <2>1. i \in Source!Code BY <1>6 DEF Source!Code
  <2>2. Source!Bytes(s) \in Seq(Nat) /\ Len(Source!Bytes(s)) = 8 BY <2>1, CodeBytesType
  <2>3. Source!Size(s) = 8 BY <1>1, <1>6, SizeType
  <2> QED BY <2>2, <2>3
<1>7. ASSUME ~Source!IsCode(s) PROVE Source!Bytes(s) = Source!DataBytes(s)
  BY <1>7 DEF Source!Bytes
<1>8. CASE s.op = ".INT"
  <2> DEFINE v == IF s.args = << >> THEN 0 ELSE Source!Meaning(arg)
  <2>1. s.args # << >> => Len(s.args) = 1 /\ arg.form = "num" BY <1>1, <1>8 DEF Source!HasOperands, Source!IsCode, Source!Directives
  <2>2. arg.form = "num" => arg.form # "text" OBVIOUS
  <2> HIDE DEF s
  <2>3. v \in Nat BY <1>3, <2>1, <2>2, MeaningType
  <2>4. Source!DataBytes(s) = Source!WordSeq(v) /\ Source!Size(s) = 4 /\ ~Source!IsCode(s)
    BY <1>8, ToolConstants, Zenon DEF Source!DataBytes, Source!Size, Source!IsCode, Source!Directives
  <2> HIDE DEF v
  <2> QED BY <1>7, <2>3, <2>4, WordSeqType DEF s
<1>9. CASE s.op = ".BYT"
  <2> DEFINE v == IF s.args = << >> THEN 0 ELSE Source!Meaning(arg)
  <2>1. s.args # << >> => Len(s.args) = 1 /\ arg.form # "text" BY <1>1, <1>9 DEF Source!HasOperands, Source!IsCode, Source!Directives
  <2> HIDE DEF s
  <2>2. v \in Nat BY <1>3, <2>1, MeaningType
  <2>3. Source!DataBytes(s) = <<v>> /\ Source!Size(s) = 1 /\ ~Source!IsCode(s)
    BY <1>9 DEF Source!DataBytes, Source!Size, Source!IsCode, Source!Directives
  <2> HIDE DEF v
  <2>4. <<v>> \in Seq(Nat) /\ Len(<<v>>) = 1 BY <2>2
  <2> QED BY <1>7, <2>3, <2>4 DEF s
<1>10. CASE s.op = ".BTS"
  <2>1. Len(s.args) = 1 /\ arg.num >= 0 BY <1>1, <1>10 DEF Source!HasOperands, Source!IsCode, Source!Directives
  <2>2. arg.num \in Nat BY <1>3, <1>4, <2>1
  <2>3. Source!DataBytes(s) = [k \in 1..arg.num |-> 0] /\ Source!Size(s) = arg.num /\ ~Source!IsCode(s)
    BY <1>10 DEF Source!DataBytes, Source!Size, Source!IsCode, Source!Directives
  <2> HIDE DEF arg, s
  <2>4. [k \in 1..arg.num |-> 0] \in Seq(Nat) /\ Len([k \in 1..arg.num |-> 0]) = arg.num BY <2>2
  <2> QED BY <1>7, <2>3, <2>4 DEF s
<1>11. CASE s.op = ".STR" /\ arg.form = "text"
  <2> DEFINE cs == [k \in 1..Len(arg.text) |-> Codes[arg.text[k]][1]]
  <2>1. Len(s.args) = 1 BY <1>1, <1>11 DEF Source!HasOperands, Source!IsCode, Source!Directives
  <2>2. arg.text \in Seq(ByteChar) /\ Len(arg.text) \in Nat BY <1>3, <1>4, <2>1
  <2>3. \A k \in 1..Len(arg.text) :
          arg.text[k] \in ByteChar /\ Codes[arg.text[k]][1] \in Nat
    <3>1. \A c \in ByteChar : Codes[c][1] \in Nat BY ToolConstants DEF ByteChar, Byte
    <3> HIDE DEF arg
    <3> QED BY <2>2, <3>1
  <2>4. [k \in 1..Len(arg.text) |-> [c \in ByteChar |-> Codes[c][1]][arg.text[k]]] = cs
    BY <2>3
  <2>5. Source!DataBytes(s) =
          <<Len(arg.text)>> \o [k \in 1..Len(arg.text) |-> [c \in ByteChar |-> Codes[c][1]][arg.text[k]]] \o <<0>>
    BY <1>11 DEF Source!DataBytes
  <2>6. Source!Size(s) = 2 + Len(arg.text) /\ ~Source!IsCode(s)
    BY <1>11 DEF Source!Size, Source!IsCode, Source!Directives
  <2> DEFINE n == Len(arg.text)
  <2>7. cs \in Seq(Nat) /\ Len(cs) = n BY <2>2, <2>3
  <2> HIDE DEF cs
  <2>8. Source!DataBytes(s) = <<n>> \o cs \o <<0>> /\ n \in Nat /\ Source!Size(s) = 2 + n
    BY <2>2, <2>4, <2>5, <2>6
  <2> HIDE DEF n, s
  <2>9. <<n>> \o cs \in Seq(Nat) /\ Len(<<n>> \o cs) = 1 + n BY <2>7, <2>8
  <2>10. <<n>> \o cs \o <<0>> \in Seq(Nat) /\ Len(<<n>> \o cs \o <<0>>) = 2 + n BY <2>8, <2>9
  <2> QED BY <1>7, <2>6, <2>8, <2>10 DEF s
<1>12. CASE s.op = ".STR" /\ arg.form # "text"
  <2> DEFINE n == arg.num
             zeros == [k \in 1..n + 1 |-> 0]
  <2>1. n \in Source!Byte BY <1>1, <1>12 DEF Source!HasOperands, Source!IsCode, Source!Directives
  <2>2. n \in Nat BY <1>5, <2>1
  <2>3. Source!DataBytes(s) = <<n>> \o zeros /\ Source!Size(s) = 2 + n /\ ~Source!IsCode(s)
    BY <1>12 DEF Source!DataBytes, Source!Size, Source!IsCode, Source!Directives
  <2> HIDE DEF n, s
  <2>4. zeros \in Seq(Nat) /\ Len(zeros) = n + 1 BY <2>2
  <2> HIDE DEF zeros
  <2>5. <<n>> \o zeros \in Seq(Nat) /\ Len(<<n>> \o zeros) = 2 + n BY <2>2, <2>4
  <2> QED BY <1>7, <2>3, <2>5 DEF s
<1> QED BY <1>6, <1>8, <1>9, <1>10, <1>11, <1>12 DEF Source!IsCode, Source!Directives

-----------------------------------------------------------------------------
(* The image of a source.                                                   *)

(* The entry point is where an instruction starts.                          *)
LEMMA EntryIsCode ==
  ASSUME Source!IsSource, Source!Code # {}
  PROVE  \E i \in Source!Code : Source!EntryPoint = Source!Start(i)
<1>1. Source!Code \subseteq Nat BY SourceSizes DEF Source!Code
<1>2. \E i \in Source!Code : \A j \in Source!Code : i <= j BY <1>1, LeastIsLeast
<1>3. (CHOOSE i \in Source!Code : \A j \in Source!Code : i <= j) \in Source!Code BY <1>2
<1> QED BY <1>3 DEF Source!EntryPoint

(* In it are the entry point and, where they start, the statements.         *)
LEMMA ImageParts ==
  ASSUME Source!IsSource, program # << >>
  PROVE  /\ Source!Image \in Seq(Nat) /\ Len(Source!Image) = Source!Start(Len(program) + 1)
         /\ Source!EntryPoint \in Nat
         /\ \A k \in 1..4 : Source!Image[k] = Source!WordSeq(Source!EntryPoint)[k]
         /\ \A i \in 1..Len(program) : \A k \in 1..Source!Size(program[i]) :
              Source!Image[Source!Start(i) + k] = Source!Bytes(program[i])[k]
<1> DEFINE n == Len(program)
           seqs == [i \in DOMAIN program |-> Source!Bytes(program[i])]
           flat == Source!FlattenSeq(seqs)
           entry == Source!WordSeq(Source!EntryPoint)
<1>1. /\ n \in Nat /\ n > 0 /\ DOMAIN program = 1..n /\ WordSize = 4
      /\ \A i \in 1..n : Source!Size(program[i]) \in Nat
  BY SourceSizes, ToolConstants
<1>2. /\ seqs \in Seq(Seq(Nat)) /\ Len(seqs) = n
      /\ \A i \in 1..n : seqs[i] = Source!Bytes(program[i]) /\ Len(seqs[i]) = Source!Size(program[i])
  BY <1>1, BytesType
<1>3. flat \in Seq(Nat) /\ PartsLie(flat, seqs, n)
  <2> HIDE DEF seqs
  <2> QED BY <1>2, PartsJoined
<1>4. Source!EntryPoint \in Nat
  <2>1. CASE Source!Code = {} BY <2>1 DEF Source!EntryPoint
  <2>2. CASE Source!Code # {}
    <3>1. PICK i \in Source!Code : Source!EntryPoint = Source!Start(i) BY <2>2, EntryIsCode
    <3>2. i \in 1..n+1 BY <1>1 DEF Source!Code
    <3> QED BY <3>1, <3>2, StartUnfolds
  <2> QED BY <2>1, <2>2
<1>5. entry \in Seq(Nat) /\ Len(entry) = 4 BY <1>4, WordSeqType
<1>6. Source!Image = entry \o flat BY DEF Source!Image
<1> HIDE DEF entry, flat, seqs
<1>7. /\ entry \o flat \in Seq(Nat) /\ Len(entry \o flat) = 4 + Len(flat)
      /\ \A k \in 1..4 : (entry \o flat)[k] = entry[k]
      /\ \A k \in 1..Len(flat) : (entry \o flat)[4 + k] = flat[k]
  BY <1>3, <1>5, BehindFour
<1>8. Len(Source!Image) = Source!Start(n + 1)
  <2>1. Source!Start(n + 1) \in Nat BY <1>1, StartUnfolds
  <2>2. Len(flat) = Source!Start(n + 1) - 4 BY <1>1, <1>3 DEF PartsLie
  <2> QED BY <1>6, <1>7, <2>1, <2>2
<1>9. ASSUME NEW i \in 1..n, NEW k \in 1..Source!Size(program[i])
      PROVE  Source!Image[Source!Start(i) + k] = Source!Bytes(program[i])[k]
  <2> DEFINE at == Source!Start(i) - 4 + k
  <2>1. /\ Source!Start(i) \in Nat /\ Source!Start(n + 1) \in Nat /\ Source!Start(i) >= 4
        /\ Source!Start(i) + Source!Size(program[i]) <= Source!Start(n + 1)
    <3>1. n + 1 \in i+1..n+1 /\ i \in 1..n+1 /\ n + 1 \in 1..n+1 BY <1>1
    <3>2. Source!Start(i) + Source!Size(program[i]) <= Source!Start(n + 1) BY <3>1, StartsInOrder
    <3> QED BY <3>1, <3>2, StartUnfolds, StartsBehindEntry
  <2>2. Source!Size(program[i]) \in Nat /\ k \in Nat /\ k >= 1 /\ k <= Source!Size(program[i]) BY <1>1
  <2>3. Len(flat) = Source!Start(n + 1) - 4 BY <1>1, <1>3 DEF PartsLie
  <2>4. at \in 1..Len(flat) /\ 4 + at = Source!Start(i) + k BY <2>1, <2>2, <2>3
  <2>5. flat[at] = seqs[i][k] BY <1>1, <1>3 DEF PartsLie
  <2> HIDE DEF at
  <2>6. Source!Image[4 + at] = flat[at] BY <1>6, <1>7, <2>4
  <2> QED BY <1>2, <2>4, <2>5, <2>6
<1> QED BY <1>4, <1>6, <1>7, <1>8, <1>9 DEF entry

-----------------------------------------------------------------------------
(* The code in memory.                                                      *)

(* A source stays what it is.                                               *)
LEMMA SourceStays ==
  ASSUME program' = program
  PROVE  /\ Source!IsSource => Source!IsSource'
         /\ Source!Code' = Source!Code /\ Source!Image' = Source!Image
         /\ \A i : Source!Start(i)' = Source!Start(i)
         /\ \A i : (Source!Bytes(program[i]))' = Source!Bytes(program[i])
         /\ \A i : (Source!Instruction(program[i]))' = Source!Instruction(program[i])
<1>1. Source!Code' = Source!Code BY DEF Source!Code, Source!IsCode, Source!Directives
<1>2. \A i : Source!Start(i)' = Source!Start(i)
  BY SMT DEF Source!Start, Source!Size, Source!IsCode, Source!Directives
<1>3. \A i : (Source!Instruction(program[i]))' = Source!Instruction(program[i])
  BY DEF Source!Instruction, Source!Meaning, Source!LabelAddr, Source!Start, Source!Size,
     Source!IsCode, Source!Labelled
<1>4. \A i : (Source!Bytes(program[i]))' = Source!Bytes(program[i])
  BY DEF Source!Bytes, Source!CodeBytes, Source!DataBytes, Source!Instruction, Source!Meaning,
     Source!LabelAddr, Source!Start, Source!Size, Source!IsCode, Source!Labelled
<1>5. Source!EntryPoint' = Source!EntryPoint
  BY <1>1, <1>2 DEF Source!EntryPoint
<1>6. Source!Image' = Source!Image
  BY <1>4, <1>5 DEF Source!Image
<1>7. Source!IsSource => Source!IsSource'
  BY DEF Source!IsSource, Source!Defined, Source!Labelled
<1> QED BY <1>1, <1>2, <1>3, <1>4, <1>6, <1>7

(* The instructions at their addresses.                                     *)
InMemory(m) == \A i \in Source!Code : \A k \in 0..7 :
  /\ Source!Start(i) + k \in Proc!Addr
  /\ Proc!ViewAt(m, Source!Start(i) + k) = Source!Bytes(program[i])[k + 1]

(* Where a source with instructions has them.                               *)
LEMMA CodeInImage ==
  ASSUME Source!IsSource, NEW i \in Source!Code
  PROVE  /\ program # << >> /\ i \in 1..Len(program)
         /\ Source!Start(i) \in Nat /\ Source!Start(i) + 8 <= Len(Source!Image)
         /\ \A k \in 1..8 : Source!Image[Source!Start(i) + k] = Source!Bytes(program[i])[k]
         /\ Len(Source!Image) = Source!Start(Len(program) + 1) /\ Len(Source!Image) \in Nat
<1>1. i \in 1..Len(program) /\ Source!IsCode(program[i]) /\ Len(program) \in Nat
  BY SourceSizes DEF Source!Code
<1>2. program # << >> BY <1>1
<1>3. Source!Size(program[i]) = 8 BY <1>1, SizeType DEF Source!IsSource
<1>4. Len(Source!Image) = Source!Start(Len(program) + 1) BY <1>2, ImageParts
<1>5. i \in 1..Len(program)+1 /\ Len(program)+1 \in i+1..Len(program)+1 /\ Len(program)+1 \in 1..Len(program)+1
  BY <1>1
<1>6. Source!Start(i) \in Nat /\ Source!Start(Len(program) + 1) \in Nat BY <1>5, StartUnfolds
<1>7. Source!Start(i) + Source!Size(program[i]) <= Source!Start(Len(program) + 1)
  BY <1>1, <1>5, StartsInOrder
<1>8. \A k \in 1..8 : Source!Image[Source!Start(i) + k] = Source!Bytes(program[i])[k]
  BY <1>1, <1>2, <1>3, ImageParts
<1> QED BY <1>1, <1>2, <1>3, <1>4, <1>6, <1>7, <1>8

(* An image that is loaded has its code in memory and PC at an instruction. *)
LEMMA LoadsCode ==
  ASSUME Source!IsSource, Source!Code # {}, Proc!CpuInv, output = Source!Image, Proc!LoadProgram
  PROVE  /\ InMemory(ms') /\ Len(Source!Image) <= MemSize
         /\ Proc!FirstWord(output) = Source!EntryPoint => IsInstruction(reg'[16])
<1>1. PICK e \in Source!Code : Source!EntryPoint = Source!Start(e) BY EntryIsCode
<1>2. Len(Source!Image) \in Nat BY <1>1, CodeInImage
<1>3. BinFile(output).bytes = Source!Image BY DEF BinFile
<1>4. Len(Source!Image) <= MemSize
  <2>1. ~(Len(Source!Image) > MemSize) BY <1>3 DEF Proc!LoadProgram, Proc!LoadResult
  <2> QED BY <1>2, <2>1, ToolConstants
<1>5. ASSUME NEW i \in Source!Code, NEW k \in 0..7
      PROVE  /\ Source!Start(i) + k \in Proc!Addr
             /\ Proc!ViewAt(ms', Source!Start(i) + k) = Source!Bytes(program[i])[k + 1]
  <2>1. Source!Start(i) \in Nat /\ Source!Start(i) + 8 <= Len(Source!Image) BY CodeInImage
  <2>2. Source!Start(i) + k \in 0..Len(Source!Image)-1 /\ (Source!Start(i) + k) + 1 = Source!Start(i) + (k + 1)
    BY <1>2, <2>1
  <2>3. /\ Source!Start(i) + k \in Proc!Addr
        /\ Proc!ViewAt(ms', Source!Start(i) + k) = Source!Image[(Source!Start(i) + k) + 1]
    BY <1>3, <2>2, ProcMemory, ProcIsa, ProcCpu, Proc!LoadsBytes
  <2>4. k + 1 \in 1..8 OBVIOUS
  <2>5. Source!Image[Source!Start(i) + (k + 1)] = Source!Bytes(program[i])[k + 1]
    BY <2>4, CodeInImage
  <2> QED BY <2>2, <2>3, <2>5
<1>6. ASSUME Proc!FirstWord(output) = Source!EntryPoint PROVE reg'[16] = Source!EntryPoint
  <2>1. 16 \in Proc!Reg /\ Proc!PC = 16 BY DEF Proc!Reg, Proc!PC
  <2>2. DOMAIN reg = Proc!Reg BY DEF Proc!CpuInv, Proc!TypeOK
  <2>3. reg'[16] = Proc!FirstWord(BinFile(output).bytes)
    BY <2>1, <2>2 DEF Proc!LoadProgram, Proc!SB, Proc!SP, Proc!SL, Proc!HP, Proc!PC
  <2> QED BY <1>6, <2>3 DEF BinFile
<1> QED BY <1>1, <1>4, <1>5, <1>6 DEF InMemory, IsInstruction

(* The entry point is what the first word of the image says.                *)
LEMMA EntryPointRead ==
  ASSUME Source!IsSource, Source!Code # {}, Len(Source!Image) <= MemSize
  PROVE  Proc!FirstWord(Source!Image) = Source!EntryPoint /\ Source!EntryPoint < MemSize
<1>1. PICK e \in Source!Code : Source!EntryPoint = Source!Start(e) BY EntryIsCode
<1>2. /\ program # << >> /\ Source!Start(e) \in Nat /\ Source!Start(e) + 8 <= Len(Source!Image)
      /\ Len(Source!Image) \in Nat
  BY CodeInImage
<1>3. Source!EntryPoint \in Nat /\ Source!EntryPoint < MemSize BY <1>1, <1>2, ToolConstants
<1>4. Source!EntryPoint \in Proc!Val BY <1>3, ToolConstants, SourceWords DEF Proc!Val
<1>5. \A k \in 1..4 : Source!Image[k] = Source!WordSeq(Source!EntryPoint)[k] BY <1>2, ImageParts
<1>6. Proc!WordIdx = 0..3 BY ToolConstants DEF Proc!WordIdx
<1>7. \A i \in 0..3 : i + 1 \in 1..4 OBVIOUS
<1>8. [i \in Proc!WordIdx |-> Source!Image[i + 1]]
        = [i \in Proc!WordIdx |-> Source!WordSeq(Source!EntryPoint)[i + 1]]
  BY <1>5, <1>6, <1>7
<1>9. Proc!WordVal([i \in Proc!WordIdx |-> Source!WordSeq(Source!EntryPoint)[i + 1]]) = Source!EntryPoint
  BY <1>4, WordSeqType
<1> QED BY <1>3, <1>8, <1>9 DEF Proc!FirstWord

(* Loading what the assembler wrote: the emulator refuses it, or has its    *)
(* code in memory and begins with an instruction.                           *)
LEMMA Loading ==
  ASSUME Source!IsSource, Source!Code # {}, Proc!CpuInv, output \in {<< >>, Source!Image},
         stage = "load", Proc!Next
  PROVE  \/ UNCHANGED stage
         \/ stage' = "refused"
         \/ /\ output = Source!Image /\ Len(Source!Image) <= MemSize
            /\ stage' = "fetch" /\ InMemory(ms') /\ IsInstruction(reg'[16])
<1>0. BinFile(output).bytes = output /\ BinFile(output).reads BY DEF BinFile
<1>1. CASE Proc!LoadRefused BY <1>1 DEF Proc!LoadRefused
<1>2. CASE Proc!LoadIncomplete
  <2>1. Proc!LoadResult(BinFile(output)) = 4
    BY <1>0, <1>2 DEF Proc!LoadIncomplete, Proc!LoadResult
  <2>2. ~(Len(output) > MemSize \/ Len(output) < WordSize) /\ Proc!FirstWord(output) >= MemSize
    BY <1>0, <2>1 DEF Proc!LoadResult
  <2>3. output = Source!Image BY <2>2, ToolConstants
  <2>4. PICK e \in Source!Code : TRUE OBVIOUS
  <2>5. Len(Source!Image) \in Nat BY <2>4, CodeInImage
  <2>6. Len(Source!Image) <= MemSize BY <2>2, <2>3, <2>5, ToolConstants
  <2>7. Proc!FirstWord(output) < MemSize BY <2>3, <2>6, EntryPointRead
  <2>8. Source!EntryPoint \in Nat BY <2>4, CodeInImage, ImageParts
  <2>9. Proc!FirstWord(output) \in Nat BY <2>3, <2>6, <2>8, EntryPointRead
  <2> QED BY <2>2, <2>7, <2>9, ToolConstants
<1>3. CASE Proc!LoadProgram
  <2>1. Proc!LoadResult(BinFile(output)) = 0 /\ stage' = "fetch" BY <1>3 DEF Proc!LoadProgram
  <2>2. ~(Len(output) > MemSize \/ Len(output) < WordSize)
    BY <1>0, <2>1 DEF Proc!LoadResult
  <2>3. output = Source!Image BY <2>2, ToolConstants
  <2>4. InMemory(ms') /\ Len(Source!Image) <= MemSize BY <1>3, <2>3, LoadsCode
  <2>5. Proc!FirstWord(output) = Source!EntryPoint BY <2>3, <2>4, EntryPointRead
  <2>6. IsInstruction(reg'[16]) BY <1>3, <2>3, <2>5, LoadsCode
  <2> QED BY <2>1, <2>3, <2>4, <2>6
<1>4. CASE UNCHANGED stage BY <1>4
<1>5. Proc!LoadRefused \/ Proc!LoadIncomplete \/ Proc!LoadProgram \/ UNCHANGED stage
  BY ProcMemory, ProcIsa, ProcCpu, Proc!FromLoad
<1> QED BY <1>1, <1>2, <1>3, <1>4, <1>5

(* An instruction in memory is fetched as it is in the source.              *)
LEMMA FetchesSource ==
  ASSUME Source!IsSource, Proc!CpuInv, Proc!Fetch, Proc!WordsInLines, InMemory(ms),
         Len(Source!Image) <= MemSize, NEW i \in Source!Code, reg[16] = Source!Start(i)
  PROVE  cntrl' = Source!Instruction(program[i]) /\ reg'[16] = Source!Start(i) + 8
<1> DEFINE c == Source!Instruction(program[i])
           bytes == Source!Bytes(program[i])
           first == Proc!ViewWord(ms, Source!Start(i))
           second == Proc!ViewWord(ms, Source!Start(i) + 4)
<1>1. WordSize = 4 /\ Proc!WordIdx = 0..3 /\ Proc!PC = 16 /\ Proc!InstrSize = 8 /\ 16 \in Proc!Reg
  BY ToolConstants DEF Proc!WordIdx, Proc!PC, Proc!InstrSize, Proc!Reg
<1>2. /\ cntrl' = Proc!Control(first, second)
      /\ reg' = [reg EXCEPT ![16] = Proc!Wrap(Source!Start(i) + 8)]
  <2>1. /\ cntrl' = Proc!Control(Proc!ViewWord(ms, reg[Proc!PC]), Proc!ViewWord(ms, reg[Proc!PC] + WordSize))
        /\ reg' = [reg EXCEPT ![Proc!PC] = Proc!Wrap(reg[Proc!PC] + Proc!InstrSize)]
    BY ProcMemory, ProcIsa, ProcCpu, Proc!FetchReads
  <2> QED BY <1>1, <2>1
<1>3. Source!Start(i) \in Nat /\ Source!Start(i) + 8 <= MemSize
  <2>1. /\ Source!Start(i) \in Nat /\ Source!Start(i) + 8 <= Len(Source!Image)
        /\ Len(Source!Image) \in Nat
    BY CodeInImage
  <2>2. MemSize \in Nat BY ToolConstants
  <2> HIDE DEF c, bytes, first, second
  <2> QED BY <2>1, <2>2
<1>4. /\ bytes \in Seq(Nat) /\ Len(bytes) = 8
      /\ bytes[1] = c.op /\ bytes[2] = c.o1 /\ bytes[3] = c.o2 /\ bytes[4] = c.o3
      /\ \A k \in 1..4 : bytes[4 + k] = Source!WordSeq(c.imm)[k]
  BY CodeBytesType
<1>5. /\ c = [op |-> c.op, o1 |-> c.o1, o2 |-> c.o2, o3 |-> c.o3, imm |-> c.imm]
      /\ c.imm \in Nat /\ Fits(c.imm)
  BY InstructionType
<1> HIDE DEF c, bytes
<1>6. c.imm \in Proc!Val
  <2>1. Len(Source!Image) = Source!Start(Len(program) + 1) /\ Len(Source!Image) \in Nat BY CodeInImage
  <2>2. c.imm < Source!ValMod
    BY <1>5, <2>1, ToolConstants, SourceWords DEF Fits
  <2> QED BY <1>5, <2>2, SourceWords DEF Proc!Val
<1>7. ASSUME NEW k \in 0..7 PROVE Proc!ViewAt(ms, Source!Start(i) + k) = bytes[k + 1]
  BY DEF InMemory, bytes
<1>8. first = [k \in 0..3 |-> bytes[k + 1]]
  <2>1. first = [k \in 0..3 |-> Proc!ViewAt(ms, Source!Start(i) + k)] BY <1>1 DEF Proc!ViewWord
  <2>2. \A k \in 0..3 : k \in 0..7 OBVIOUS
  <2> HIDE DEF first
  <2> QED BY <1>7, <2>1, <2>2
<1>9. second = [k \in 0..3 |-> Source!WordSeq(c.imm)[k + 1]]
  <2>1. second = [k \in 0..3 |-> Proc!ViewAt(ms, (Source!Start(i) + 4) + k)] BY <1>1 DEF Proc!ViewWord
  <2>2. ASSUME NEW k \in 0..3 PROVE Proc!ViewAt(ms, (Source!Start(i) + 4) + k) = Source!WordSeq(c.imm)[k + 1]
    <3>1. /\ (Source!Start(i) + 4) + k = Source!Start(i) + (4 + k) /\ 4 + k \in 0..7
          /\ (4 + k) + 1 = 4 + (k + 1) /\ k + 1 \in 1..4
      BY <1>3
    <3>2. Proc!ViewAt(ms, Source!Start(i) + (4 + k)) = bytes[(4 + k) + 1] BY <1>7, <3>1
    <3>3. bytes[4 + (k + 1)] = Source!WordSeq(c.imm)[k + 1] BY <1>4, <3>1
    <3> QED BY <3>1, <3>2, <3>3
  <2> HIDE DEF second
  <2> QED BY <2>1, <2>2
<1>10. Proc!WordVal(second) = c.imm BY <1>1, <1>6, <1>9, WordSeqType
<1> HIDE DEF second
<1>11. first[0] = c.op /\ first[1] = c.o1 /\ first[2] = c.o2 /\ first[3] = c.o3
  <2> HIDE DEF first
  <2>1. first[0] = bytes[1] /\ first[1] = bytes[2] /\ first[2] = bytes[3] /\ first[3] = bytes[4]
    BY <1>8
  <2> QED BY <1>4, <2>1
<1> HIDE DEF first
<1>12. cntrl' = c BY <1>2, <1>5, <1>10, <1>11 DEF Proc!Control
<1>13. reg'[16] = Source!Start(i) + 8
  <2>1. Proc!Wrap(Source!Start(i) + 8) = Source!Start(i) + 8
    BY <1>3, ToolConstants, SourceWords DEF Proc!Wrap
  <2>2. DOMAIN reg = Proc!Reg BY DEF Proc!CpuInv, Proc!TypeOK
  <2> QED BY <1>1, <1>2, <2>1, <2>2
<1> QED BY <1>12, <1>13 DEF c

-----------------------------------------------------------------------------
(* The processor stays in the source.                                       *)

(* How a program behaves that runs as its source says, step by step.        *)
Behaves == LeavesCodeAlone /\ StaysInCode /\ Emu!WordsInLines

(* Its code stays in memory.                                                *)
LEMMA CodeStays ==
  ASSUME Source!IsSource, Proc!Sound, stage # "load", LeavesCodeAlone, InMemory(ms)
  PROVE  InMemory(ms')
<1> SUFFICES ASSUME NEW i \in Source!Code, NEW k \in 0..7
             PROVE  Proc!ViewAt(ms', Source!Start(i) + k) = Proc!ViewAt(ms, Source!Start(i) + k)
  BY DEF InMemory
<1>1. Source!Start(i) + k \in Proc!Addr BY DEF InMemory
<1>2. Source!Start(i) + k \in CodeAt(i)
  <2>1. Source!Start(i) \in Nat BY CodeInImage
  <2> QED BY <2>1 DEF CodeAt
<1>3. Proc!StoresTo \cap CodeAt(i) = {} BY SameTouch DEF LeavesCodeAlone
<1>4. Source!Start(i) + k \notin Proc!StoresTo BY <1>2, <1>3
<1> QED BY <1>1, <1>4, ProcMemory, ProcIsa, ProcCpu, Proc!OnlyStores

(* What an instruction is followed by is one.                               *)
LEMMA PcStays ==
  ASSUME Proc!Sound, StaysInCode, stage = "execute", stage' \in {"fetch", "print", "store"}
  PROVE  IsInstruction(reg'[16])
<1>0. Emu!PC = 16 /\ Proc!PC = 16 /\ Emu!SP = 19 /\ Proc!SP = 19
  BY DEF Emu!PC, Proc!PC, Emu!SP, Proc!SP
<1>1. Emu!op = Proc!op /\ Emu!imm = Proc!imm /\ Emu!val1 = Proc!val1 /\ Emu!rd = Proc!rd
  BY SameTouch
<1>2. Emu!Branches = Proc!Branches /\ Emu!WritesRegister = Proc!WritesRegister BY SameTouch
<1>3. Emu!Accepted <=> Proc!Accepted BY SameIsa
<1>4. ReturnAddr = Proc!WordVal(Proc!ViewWord(ms, reg[19]))
  <2>1. [k \in Emu!WordIdx |-> Emu!ViewAt(ms, reg[19] + k)]
          = [k \in Proc!WordIdx |-> Proc!ViewAt(ms, reg[19] + k)]
    <3>1. Emu!WordIdx = Proc!WordIdx BY DEF Emu!WordIdx, Proc!WordIdx
    <3>2. \A a : Emu!ViewAt(ms, a) = Proc!ViewAt(ms, a) BY SameAccess
    <3> QED BY <3>1, <3>2, Zenon
  <2>2. \A w : Emu!WordVal(w) = Proc!WordVal(w) BY Zenon DEF Emu!WordVal, Proc!WordVal
  <2> QED BY <1>0, <2>1, <2>2, Zenon DEF ReturnAddr, Proc!ViewWord
<1>5. Emu!AddrInRange(reg[19], WordSize) <=> Proc!AddrInRange(reg[19], WordSize)
  BY DEF Emu!AddrInRange, Proc!AddrInRange
<1>6. Proc!Accepted =>
        /\ Proc!op \in {"JMP", "CALL"} \cup Proc!Branches => IsInstruction(Proc!imm)
        /\ Proc!op = "JMR" => IsInstruction(Proc!val1)
        /\ Proc!op = "RET" /\ Proc!AddrInRange(reg[19], WordSize) =>
             IsInstruction(Proc!WordVal(Proc!ViewWord(ms, reg[19])))
        /\ Proc!op \in Proc!WritesRegister => Proc!rd # 16
        /\ IsInstruction(reg[16]) \/ Proc!op \in {"JMP", "JMR", "CALL", "RET"}
             \/ (Proc!op = "TRP" /\ Proc!imm = 0)
  BY <1>0, <1>1, <1>2, <1>3, <1>4, <1>5 DEF StaysInCode
<1>7. Proc!Accepted
  <2>1. Proc!Next BY DEF Proc!Sound
  <2> QED BY <2>1, ProcMemory, ProcIsa, ProcCpu, Proc!CompletesAccepted
<1>8. Proc!Continued BY <1>0, <1>6, <1>7, ProcMemory, ProcIsa, ProcCpu, Proc!Continues
<1>9. /\ Proc!op \in {"JMP", "CALL"} => reg'[16] = Proc!imm
      /\ Proc!op = "JMR" => reg'[16] = Proc!val1
      /\ Proc!op = "RET" => /\ Proc!AddrInRange(reg[19], WordSize)
                            /\ reg'[16] = Proc!WordVal(Proc!ViewWord(ms, reg[19]))
      /\ Proc!op \notin {"JMP", "JMR", "CALL", "RET"} =>
           reg'[16] = reg[16] \/ (Proc!op \in Proc!Branches /\ reg'[16] = Proc!imm)
      /\ ~(Proc!op = "TRP" /\ Proc!imm = 0)
  BY <1>0, <1>8 DEF Proc!Continued
<1> QED BY <1>6, <1>7, <1>9

-----------------------------------------------------------------------------
(* The invariant.                                                           *)

(* The emulator is given the image and keeps the code of it; fetch begins   *)
(* with an instruction, and decode has one.                                 *)
Running ==
  /\ output = Source!Image /\ Len(Source!Image) <= MemSize
  /\ Proc!Alive => InMemory(ms)
  /\ Proc!Alive /\ stage \in {"fetch", "print", "store"} => IsInstruction(reg[16])
  /\ stage = "decode" =>
       \E i \in Source!Code :
         reg[16] = Source!Start(i) + 8 /\ cntrl = Source!Instruction(program[i])

ToolInv ==
  /\ Source!IsSource
  /\ program # << >> => output \in {<< >>, Source!Image}
  /\ Proc!CpuInv
  /\ phase # "written" => stage = "load"
  /\ Source!Code # {} /\ stage \notin {"load", "refused"} => Running

(* A step of the emulator leaves it running.                                *)
LEMMA RunKeeps ==
  ASSUME ToolInv, Behaves, MemSize = Proc!AllocSize, [Proc!Next]_(Proc!vars), Source!Code # {},
         UNCHANGED <<program, output>>, stage' \notin {"load", "refused"}
  PROVE  Running'
<1>0. Source!IsSource /\ Proc!CpuInv /\ Proc!WordsInLines /\ LeavesCodeAlone /\ StaysInCode
  BY SameTouch DEF ToolInv, Behaves
<1>1. \E i \in Source!Code : program # << >> BY <1>0, CodeInImage
<1>2. output \in {<< >>, Source!Image} BY <1>1 DEF ToolInv
<1>3. /\ Source!Image' = Source!Image /\ Source!Code' = Source!Code
      /\ \A i : Source!Start(i)' = Source!Start(i)
      /\ \A i : (Source!Bytes(program[i]))' = Source!Bytes(program[i])
      /\ \A i : (Source!Instruction(program[i]))' = Source!Instruction(program[i])
  BY SourceStays
<1>4. SUFFICES /\ output = Source!Image /\ Len(Source!Image) <= MemSize
               /\ Proc!Alive' => InMemory(ms')
               /\ Proc!Alive' /\ stage' \in {"fetch", "print", "store"} => IsInstruction(reg'[16])
               /\ stage' = "decode" =>
                    \E i \in Source!Code :
                      reg'[16] = Source!Start(i) + 8 /\ cntrl' = Source!Instruction(program[i])
  <2>1. (InMemory(ms))' <=> InMemory(ms')
    <3>1. \A a : (Proc!ViewAt(ms, a))' = Proc!ViewAt(ms', a)
      BY Zenon DEF Proc!ViewAt, Proc!Hits, Proc!HitWays, Proc!Ways, Proc!Associativity, Proc!SetIdx,
         Proc!Block, Proc!NumSets, Proc!TagBits, Proc!First, Proc!Offset
    <3>2. Proc!Addr' = Proc!Addr BY DEF Proc!Addr
    <3>3. \A i, k : (Proc!ViewAt(ms, Source!Start(i) + k))' = Proc!ViewAt(ms', Source!Start(i) + k)
      BY <3>1, <1>3
    <3>4. \A i, k : (Source!Start(i) + k \in Proc!Addr)' <=> Source!Start(i) + k \in Proc!Addr
      BY <3>2, <1>3
    <3>5. \A i, k : (Source!Bytes(program[i])[k + 1])' = Source!Bytes(program[i])[k + 1]
      BY <3>2, <1>3
    <3> QED BY <1>3, <3>3, <3>4, <3>5, SMT DEF InMemory
  <2>2. IsInstruction(reg[16])' <=> IsInstruction(reg'[16]) BY <1>3 DEF IsInstruction
  <2> QED BY <1>3, <2>1, <2>2 DEF Running
<1>5. CASE UNCHANGED Proc!vars
  <2>1. UNCHANGED <<stage, reg, cntrl, ms>> BY <1>5 DEF Proc!vars
  <2>2. Running BY <2>1 DEF ToolInv
  <2> QED BY <2>1, <2>2 DEF Running, Proc!Alive
<1>6. CASE Proc!Next /\ stage = "load"
  <2>1. /\ output = Source!Image /\ Len(Source!Image) <= MemSize
        /\ stage' = "fetch" /\ InMemory(ms') /\ IsInstruction(reg'[16])
    BY <1>0, <1>2, <1>6, Loading
  <2> QED BY <2>1
<1>7. CASE Proc!Next /\ stage = "refused"
  <2>1. stage' = "refused"
    <3>1. ~Proc!Fetch BY <1>7 DEF Proc!Fetch
    <3>2. UNCHANGED Proc!vars BY <1>7, <3>1, ProcMemory, ProcIsa, ProcCpu, Proc!Followed
    <3> QED BY <1>7, <3>2 DEF Proc!vars
  <2> QED BY <2>1
<1>8. CASE Proc!Next /\ stage \notin {"load", "refused"}
  <2>1. Running BY <1>8 DEF ToolInv
  <2>2. CASE Proc!Alive
    <3>1. Proc!Alive' => Proc!Sound BY <1>0, <1>8 DEF Proc!Sound
    <3>2. Proc!Alive' => InMemory(ms') BY <1>0, <1>8, <2>1, <2>2, <3>1, CodeStays DEF Running
    <3>3. CASE Proc!Fetch
      <4>1. stage = "fetch" /\ stage' = "decode" BY <3>3 DEF Proc!Fetch
      <4>2. PICK i \in Source!Code : reg[16] = Source!Start(i)
        BY <2>1, <2>2, <4>1 DEF Running, IsInstruction
      <4>3. cntrl' = Source!Instruction(program[i]) /\ reg'[16] = Source!Start(i) + 8
        BY <1>0, <2>1, <2>2, <3>3, <4>2, FetchesSource DEF Running
      <4> QED BY <2>1, <3>2, <4>1, <4>3 DEF Running
    <3>4. CASE stage = "execute" /\ stage' # "decode"
      <4>1. Proc!Alive' /\ stage' \in {"fetch", "print", "store"} => IsInstruction(reg'[16])
        BY <1>0, <3>1, <3>4, PcStays
      <4> QED BY <2>1, <3>2, <3>4, <4>1 DEF Running
    <3>5. CASE stage \in {"print", "store"} /\ UNCHANGED reg /\ stage' # "decode"
      <4>1. IsInstruction(reg[16]) BY <2>1, <2>2, <3>5 DEF Running
      <4> QED BY <2>1, <3>2, <3>5, <4>1 DEF Running
    <3>6. CASE stage' \in {"execute", "invalid"} BY <2>1, <3>2, <3>6 DEF Running
    <3> QED BY <1>8, <1>5, <3>3, <3>4, <3>5, <3>6, ProcMemory, ProcIsa, ProcCpu, Proc!Followed
  <2> QED BY <1>8, <1>5, <2>2, ProcMemory, ProcIsa, ProcCpu, Proc!Followed
<1> QED BY <1>5, <1>6, <1>7, <1>8

(* It holds at the beginning.                                               *)
LEMMA ToolBegins == ToolInit /\ Source!SourceInit => ToolInv
<1> SUFFICES ASSUME ToolInit, Source!SourceInit PROVE ToolInv OBVIOUS
<1>1. Source!IsSource /\ output = << >> BY DEF Source!SourceInit
<1>2. Proc!Init BY SameInit DEF ToolInit
<1>3. Proc!CpuInv BY <1>2, ProcMemory, ProcIsa, ProcCpu, Proc!InitCpuInv
<1>4. stage = "load" BY <1>2 DEF Proc!Init
<1> QED BY <1>1, <1>3, <1>4 DEF ToolInv

(* An assembler that has ended does nothing.                                *)
LEMMA AssemblerEnded ==
  ASSUME AsmNext, phase = "written"
  PROVE  UNCHANGED asmVars
<1>1. ~(ScanLine \/ ScanDirective)
  BY DEF ScanLine, StartLine, StartOfLabel, LabelFound, LineFinished, ScanDirective, BeginDirective,
     IntDirective, NumberFound, BytDirective, BtsDirective, StrDirective, StringChar, StringEnd,
     DirectiveDone, InHandler, InString
<1>2. ~(ScanCode \/ FinishScan) BY DEF ScanCode, BeginCode, GatherTokens, FinishScan, InHandler
<1>3. ~(Emit \/ WriteImage) BY DEF Emit, WriteImage
<1> QED BY <1>1, <1>2, <1>3 DEF AsmNext, AsmEnded

(* The assembler writes what the source means, or nothing.                  *)
ImageStep == [Source!Publish \/ Source!PublishAny]_(Source!sourceVars)

(* Then every step keeps the invariant.                                     *)
LEMMA ToolKeeps ==
  ASSUME ToolInv, Behaves, MemSize = Emu!AllocSize, [ToolNext]_toolVars, ImageStep, AsmTypeOK'
  PROVE  ToolInv'
<1>1. program' = program BY DEF ToolNext, Assemble, Run, toolVars
<1>2. Source!IsSource' BY <1>1, SourceStays DEF ToolInv
<1>3. program' # << >> => output' \in {<< >>, Source!Image'}
  <2>1. Source!Image' = Source!Image BY <1>1, SourceStays
  <2>2. CASE UNCHANGED output BY <1>1, <2>1, <2>2 DEF ToolInv
  <2>3. CASE Source!Publish BY <2>1, <2>3 DEF Source!Publish
  <2>4. CASE Source!PublishAny BY <1>1, <2>4 DEF Source!PublishAny
  <2> QED BY <2>2, <2>3, <2>4 DEF ImageStep, Source!sourceVars
<1>4. CASE Assemble /\ phase # "written"
  <2>1. stage = "load" /\ UNCHANGED emuVars BY <1>4 DEF ToolInv, Assemble
  <2>2. UNCHANGED <<reg, cntrl, data, ms, stage, text, emuPos, stdin, stdout>> BY <2>1 DEF emuVars
  <2>3. output' \in Seq(Proc!Byte) BY DEF AsmTypeOK, Byte, Proc!Byte
  <2>4. BinFile(output)'.bytes = output' BY DEF BinFile
  <2>5. Proc!CpuInv'
    <3>1. Proc!TypeOK' BY <2>2, <2>3, <2>4 DEF ToolInv, Proc!CpuInv, Proc!TypeOK
    <3> QED BY <2>2, <3>1 DEF ToolInv, Proc!CpuInv
  <2> QED BY <1>2, <1>3, <2>1, <2>2, <2>5 DEF ToolInv
<1>5. CASE ~(Assemble /\ phase # "written")
  <2>1. UNCHANGED <<program, output, phase>> /\ [Proc!Next]_(Proc!vars)
        /\ (phase = "written" \/ UNCHANGED stage)
    <3>1. CASE Assemble
      <4>1. UNCHANGED asmVars /\ UNCHANGED emuVars BY <1>5, <3>1, AssemblerEnded DEF Assemble
      <4> QED BY <1>1, <4>1 DEF asmVars, emuVars, Proc!vars, BinFile
    <3>2. CASE Run BY <1>1, <3>2, SameNext DEF Run, asmVars
    <3>3. CASE UNCHANGED toolVars BY <3>3 DEF toolVars, asmVars, emuVars, Proc!vars, BinFile
    <3> QED BY <3>1, <3>2, <3>3 DEF ToolNext
  <2>2. Proc!CpuInv' BY <2>1, ProcMemory, ProcIsa, ProcCpu, Proc!StepCpuInv DEF ToolInv
  <2>3. (Source!Code # {})' => Source!Code # {} BY <1>1, SourceStays
  <2>4. Source!Code # {} /\ stage' \notin {"load", "refused"} => Running'
    <3>1. MemSize = Proc!AllocSize
      BY DEF Emu!AllocSize, Proc!AllocSize, Emu!NumBlocks, Proc!NumBlocks
    <3> QED BY <2>1, <3>1, RunKeeps
  <2> QED BY <1>2, <1>3, <2>1, <2>2, <2>3, <2>4 DEF ToolInv
<1> QED BY <1>4, <1>5

-----------------------------------------------------------------------------
(* The theorem.                                                             *)

(* Whatever the assembler's source, if the image it writes is what the      *)
(* source means, and the program neither writes into its code nor leaves    *)
(* it, and its words are in cache lines, then what the processor decodes is *)
(* an instruction of the source, its labels resolved, with PC behind it:    *)
(* through load_binary (emu4380.cpp:401), fetch (emu4380.cpp:520), every    *)
(* instruction and trap, and every kind and geometry of cache.              *)
THEOREM SourceIsRun ==
  ASSUME MemSize = Emu!AllocSize
  PROVE  ToolSpec /\ Source!SourceSpec /\ []Behaves => []RunsTheSource
<1>1. ToolInit /\ Source!SourceInit => ToolInv BY ToolBegins
<1>2. ToolInv /\ Behaves /\ [ToolNext]_toolVars /\ ImageStep /\ AsmTypeOK' => ToolInv'
  BY ToolKeeps
<1>3. ToolInv => RunsTheSource BY DEF ToolInv, Running, RunsTheSource
<1>4. ToolSpec => []AsmTypeOK
  <2>1. ToolInit => AsmInit BY DEF ToolInit
  <2>2. [ToolNext]_toolVars => [AsmNext]_asmVars BY DEF ToolNext, Assemble, Run, toolVars
  <2>3. ToolSpec => AsmSpec BY <2>1, <2>2, PTL DEF ToolSpec, AsmSpec
  <2> QED BY <2>3, AsmTypeCorrect, PTL
<1>5. Source!SourceSpec => Source!SourceInit /\ [][Source!Publish \/ Source!PublishAny]_(Source!sourceVars)
  BY DEF Source!SourceSpec
<1> QED BY <1>1, <1>2, <1>3, <1>4, <1>5, PTL DEF ToolSpec, ImageStep
=============================================================================
